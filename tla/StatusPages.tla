----------------------------- MODULE StatusPages -----------------------------
(***************************************************************************)
(* Status pages: administrators make and delete them and put monitors on   *)
(* them, and anyone may look at a published one.  Each request is one READ *)
(* COMMITTED transaction.  As nothing follows the statement that writes, it*)
(* and the commit are one step here: who conflicts with it waits.          *)
(***************************************************************************)
EXTENDS Naturals, FiniteSetTheorems

CONSTANTS Page, Monitor, Organization,
          Slug,       \* the names in the pages' addresses
          Home,       \* the organization of each page and monitor
          Request,    \* requests of administrators
          NoOne,      \* no page, monitor or slug
          MaxChanges  \* bound of the changes of the monitors' statuses

PagesAssumption ==
  /\ Home \in [Page \cup Monitor -> Organization]
  /\ NoOne \notin Page \cup Monitor \cup Slug
  /\ IsFiniteSet(Monitor) /\ MaxChanges \in Nat

Statuses == {"pending", "up", "down", "paused"}

VARIABLES page,     \* each page: not made yet, hidden, published or deleted
          slug,     \* the slug of each page
          place,    \* status_page_monitors: the position of a monitor on a page
          status,   \* monitors: the status of each, "deleted" without a row
          changes,  \* how often a status has changed
          tx,       \* what each request has read
          visit     \* a request for /status/{slug} and its answer

vars == <<page, slug, place, status, changes, tx, visit>>

Absent   == Cardinality(Monitor) + 1  \* in place of the position of an absent row
Shown(p) == {m \in Monitor : place[p][m] # Absent}
Live(p)  == page[p] \in {"hidden", "published"}
Nothing  == [m \in Monitor |-> Absent]

NoTx == [pc |-> "idle", page |-> NoOne, slug |-> NoOne, to |-> "hidden",
         monitor |-> NoOne, position |-> 0]

(* todo: positions of the monitors still to read; read: the statuses found;
   same: history, the statuses that have not changed since the visit began. *)
NoVisit == [pc |-> "idle", page |-> NoOne, todo |-> Nothing, listed |-> {},
            read |-> [m \in Monitor |-> "deleted"], same |-> {}, answer |-> "none"]

Init ==
  /\ page = [p \in Page |-> "unborn"] /\ slug = [p \in Page |-> NoOne]
  /\ place = [p \in Page |-> Nothing]
  /\ status \in [Monitor -> Statuses]
  /\ changes = 0
  /\ tx = [r \in Request |-> NoTx]
  /\ visit = NoVisit

-----------------------------------------------------------------------------
(* Administrators *)

(* get_by_slug looks at the pages of all organizations. *)
CreatePage(r, p, s, to) ==
  /\ tx[r].pc = "idle" /\ page[p] = "unborn" /\ \A q \in Request : tx[q].page # p
  /\ ~\E x \in Page : Live(x) /\ slug[x] = s
  /\ tx' = [tx EXCEPT ![r] = [@ EXCEPT !.pc = "insert", !.page = p, !.slug = s, !.to = to]]
  /\ UNCHANGED <<page, slug, place, status, changes, visit>>

(* Mutant: status_pages.slug is not unique. *)
InsertPage_NotUnique(r) ==
  /\ tx[r].pc = "insert"
  /\ page' = [page EXCEPT ![tx[r].page] = tx[r].to]
  /\ slug' = [slug EXCEPT ![tx[r].page] = tx[r].slug]
  /\ tx' = [tx EXCEPT ![r] = NoTx]
  /\ UNCHANGED <<place, status, changes, visit>>

InsertPage(r) ==
  /\ tx[r].pc = "insert"
  /\ ~\E x \in Page : Live(x) /\ slug[x] = tx[r].slug
  /\ page' = [page EXCEPT ![tx[r].page] = tx[r].to]
  /\ slug' = [slug EXCEPT ![tx[r].page] = tx[r].slug]
  /\ tx' = [tx EXCEPT ![r] = NoTx]
  /\ UNCHANGED <<place, status, changes, visit>>

(* PATCH: see Settings. *)
Publish(p, to) ==
  /\ Live(p) /\ to \in {"hidden", "published"} \ {page[p]}
  /\ page' = [page EXCEPT ![p] = to]
  /\ UNCHANGED <<slug, place, status, changes, tx, visit>>

(* With ON DELETE CASCADE. *)
DeletePage(p) ==
  /\ Live(p)
  /\ page' = [page EXCEPT ![p] = "deleted"]
  /\ place' = [place EXCEPT ![p] = Nothing]
  /\ UNCHANGED <<slug, status, changes, tx, visit>>

Found(m, o) == status[m] # "deleted" /\ Home[m] = o

(* add_monitor up to the INSERT: the new monitor comes last. *)
AddMonitor(r, p, m) ==
  /\ tx[r].pc = "idle" /\ Live(p) /\ Found(m, Home[p])
  /\ tx' = [tx EXCEPT ![r] = [@ EXCEPT !.pc = "link", !.page = p, !.monitor = m,
                                       !.position = Cardinality(Shown(p))]]
  /\ UNCHANGED <<page, slug, place, status, changes, visit>>

(* The foreign keys want page and monitor; ON CONFLICT DO NOTHING. *)
LinkMonitor(r) ==
  LET p == tx[r].page
      m == tx[r].monitor
  IN  /\ tx[r].pc = "link" /\ Live(p) /\ status[m] # "deleted"
      /\ place' = IF m \in Shown(p) THEN place
                                    ELSE [place EXCEPT ![p][m] = tx[r].position]
      /\ tx' = [tx EXCEPT ![r] = NoTx]
      /\ UNCHANGED <<page, slug, status, changes, visit>>

RemoveMonitor(p, m) ==
  /\ m \in Shown(p)
  /\ place' = [place EXCEPT ![p][m] = Absent]
  /\ UNCHANGED <<page, slug, status, changes, tx, visit>>

(* An IntegrityError, a lost connection, or a killed process. *)
Rollback(r) ==
  /\ tx[r].pc # "idle"
  /\ tx' = [tx EXCEPT ![r] = NoTx]
  /\ UNCHANGED <<page, slug, place, status, changes, visit>>

-----------------------------------------------------------------------------
(* Monitors: recordings and PATCH requests change a status, DELETE takes the
   monitor from all pages. *)

ChangeStatus(m, s) ==
  /\ changes < MaxChanges /\ changes' = changes + 1
  /\ status[m] # "deleted" /\ s # status[m]
  /\ status' = [status EXCEPT ![m] = s]
  /\ place' = IF s = "deleted" THEN [p \in Page |-> [place[p] EXCEPT ![m] = Absent]]
                               ELSE place
  /\ visit' = [visit EXCEPT !.same = @ \ {m}]
  /\ UNCHANGED <<page, slug, tx>>

-----------------------------------------------------------------------------
(* The public page *)

(* Mutant: a page with a new monitor is unknown, whatever the others are. *)
Overall_PendingFirst(st) ==
  LET active == {m \in Monitor : st[m] \in {"pending", "up", "down"}}
      down   == {m \in active : st[m] = "down"}
  IN  IF active = {} \/ \E m \in active : st[m] = "pending" THEN "unknown"
      ELSE IF down = {} THEN "operational"
      ELSE IF down = active THEN "major" ELSE "partial"

(* calculate_status_page_status of the monitors that are there. *)
Overall(st) ==
  LET active == {m \in Monitor : st[m] \in {"pending", "up", "down"}}
      down   == {m \in active : st[m] = "down"}
  IN  IF active = {} THEN "unknown"
      ELSE IF down = {}
        THEN IF \E m \in active : st[m] = "pending" THEN "unknown" ELSE "operational"
      ELSE IF down = active THEN "major" ELSE "partial"

(* get_by_slug; 404 unless the page is published. *)
Visit(s) ==
  /\ visit.pc = "idle"
  /\ \E p \in Page :
       /\ page[p] = "published" /\ slug[p] = s
       /\ visit' = [NoVisit EXCEPT !.pc = "list", !.page = p, !.same = Monitor]
  /\ UNCHANGED <<page, slug, place, status, changes, tx>>

ListMonitors ==
  /\ visit.pc = "list"
  /\ visit' = [visit EXCEPT !.pc = "read", !.todo = place[visit.page],
                            !.listed = Shown(visit.page)]
  /\ UNCHANGED <<page, slug, place, status, changes, tx>>

Todo == {m \in Monitor : visit.todo[m] # Absent}

(* One statement for each monitor, in the order of the positions; monitors of
   one position come in that of their ids, which are random. *)
ReadMonitor(m) ==
  /\ visit.pc = "read" /\ m \in Todo
  /\ \A n \in Todo : visit.todo[m] <= visit.todo[n]
  /\ visit' = [visit EXCEPT !.todo[m] = Absent,
                 !.read[m] = IF Found(m, Home[visit.page]) THEN status[m] ELSE "deleted"]
  /\ UNCHANGED <<page, slug, place, status, changes, tx>>

Answer ==
  /\ visit.pc = "read" /\ Todo = {}
  /\ visit' = [visit EXCEPT !.pc = "done", !.answer = Overall(visit.read)]
  /\ UNCHANGED <<page, slug, place, status, changes, tx>>

(* Answered, or given up. *)
Leave ==
  /\ visit.pc # "idle" /\ visit' = NoVisit
  /\ UNCHANGED <<page, slug, place, status, changes, tx>>

AdminStep ==
  \/ \E r \in Request, p \in Page, s \in Slug, to \in {"hidden", "published"} :
       CreatePage(r, p, s, to)
  \/ \E r \in Request : InsertPage(r) \/ LinkMonitor(r) \/ Rollback(r)
  \/ \E r \in Request, p \in Page, m \in Monitor : AddMonitor(r, p, m)
  \/ \E p \in Page, to \in {"hidden", "published"} : Publish(p, to)
  \/ \E p \in Page : DeletePage(p)
  \/ \E p \in Page, m \in Monitor : RemoveMonitor(p, m)

MonitorStep == \E m \in Monitor, s \in Statuses \cup {"deleted"} : ChangeStatus(m, s)

VisitStep ==
  \/ \E s \in Slug : Visit(s)
  \/ ListMonitors \/ Answer \/ Leave
  \/ \E m \in Monitor : ReadMonitor(m)

Next == AdminStep \/ MonitorStep \/ VisitStep

Spec == Init /\ [][Next]_vars

-----------------------------------------------------------------------------
(* Properties *)

Txs == [pc : {"idle", "insert", "link"}, page : Page \cup {NoOne}, slug : Slug \cup {NoOne},
        to : {"hidden", "published"}, monitor : Monitor \cup {NoOne}, position : 0 .. Absent]

Visits == [pc : {"idle", "list", "read", "done"}, page : Page \cup {NoOne},
           todo : [Monitor -> 0 .. Absent], listed : SUBSET Monitor,
           read : [Monitor -> Statuses \cup {"deleted"}], same : SUBSET Monitor,
           answer : {"none", "unknown", "operational", "major", "partial"}]

TypeOK ==
  /\ page \in [Page -> {"unborn", "hidden", "published", "deleted"}]
  /\ slug \in [Page -> Slug \cup {NoOne}]
  /\ place \in [Page -> [Monitor -> 0 .. Absent]]
  /\ status \in [Monitor -> Statuses \cup {"deleted"}]
  /\ changes \in 0 .. MaxChanges
  /\ tx \in [Request -> Txs]

(* An address leads to one page, also when two requests want it at once. *)
SlugsAreUnique ==
  \A p, x \in Page : Live(p) /\ Live(x) /\ slug[p] = slug[x] => p = x

(* A page shows monitors of its own organization that are there, also when page
   or monitor is deleted while one is put on the other. *)
ShownFit ==
  \A p \in Page : \A m \in Shown(p) :
    Live(p) /\ status[m] # "deleted" /\ Home[m] = Home[p]

(* What a request is about to write. *)
TxFits(r) ==
  /\ tx[r].pc = "insert" =>
       /\ tx[r].page \in Page /\ page[tx[r].page] = "unborn" /\ tx[r].slug \in Slug
       /\ \A q \in Request \ {r} : tx[q].page # tx[r].page
  /\ tx[r].pc = "link" =>
       /\ tx[r].page \in Page /\ tx[r].monitor \in Monitor
       /\ page[tx[r].page] # "unborn" /\ Home[tx[r].monitor] = Home[tx[r].page]

(* Addresses and contents of pages are sound although the checks before an
   INSERT see what others have not committed. *)
AdminInv ==
  /\ TypeOK /\ SlugsAreUnique /\ ShownFit
  /\ \A r \in Request : TxFits(r)

(* What a visit has read is about the monitors it has listed, and as it is for
   those that have not changed since. *)
VisitInv ==
  /\ visit \in Visits
  /\ visit.pc # "idle" => visit.page \in Page
  /\ visit.pc = "list" => \A m \in Monitor : visit.read[m] = "deleted"
  /\ visit.pc \in {"read", "done"} =>
       /\ Todo \subseteq visit.listed
       /\ \A m \in Monitor \ visit.listed : visit.read[m] = "deleted"
       /\ \A m \in visit.listed \cap visit.same :
            Found(m, Home[visit.page]) /\ (m \notin Todo => visit.read[m] = status[m])
  /\ visit.pc = "done" => Todo = {} /\ visit.answer = Overall(visit.read)

(* The whole inductive invariant. *)
PagesInv == AdminInv /\ VisitInv

(* The statuses on a page are read one after the other while they change.  What
   stays as it is during a visit is shown truly: an outage that lasts is never
   hidden, a page is not all down while one of its monitors is up, and if no
   listed monitor changes the answer is that of one moment. *)
AnswersAreTrue ==
  visit.pc = "done" =>
    LET same(s) == {m \in visit.listed \cap visit.same : status[m] = s}
    IN  /\ same("down") # {} => visit.answer \in {"major", "partial"}
        /\ same("up") \cup same("pending") # {} => visit.answer # "major"
        /\ same("pending") # {} => visit.answer # "operational"
        /\ visit.listed \subseteq visit.same =>
             visit.answer = Overall([m \in Monitor |->
                              IF m \in visit.listed THEN status[m] ELSE "deleted"])
=============================================================================
