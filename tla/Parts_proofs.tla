---------------------------- MODULE Parts_proofs ----------------------------
(***************************************************************************)
(* Proofs about the modules that are put side by side in Parts: each       *)
(* theorem is about one of them alone, for every value of its constants.   *)
(***************************************************************************)
EXTENDS Parts, Integers, Sequences, TLAPS

-----------------------------------------------------------------------------
(* StatusPages *)

LEMMA Positions ==
  ASSUME S!PagesAssumption
  PROVE  /\ S!Cardinality(Listed) \in Nat /\ S!Absent \in Nat
         /\ \A T \in SUBSET Listed : S!Cardinality(T) \in 0 .. S!Absent
<1>1. S!Cardinality(Listed) \in Nat
  BY S!FS_CardinalityType DEF S!PagesAssumption
<1>2. ASSUME NEW T \in SUBSET Listed PROVE S!Cardinality(T) \in 0 .. S!Absent
  <2>1. S!Cardinality(T) \in Nat /\ S!Cardinality(T) <= S!Cardinality(Listed)
    BY S!FS_CardinalityType, S!FS_Subset DEF S!PagesAssumption
  <2> QED
    BY <1>1, <2>1 DEF S!Absent
<1> QED
  BY <1>1, <1>2 DEF S!Absent

LEMMA InitHolds ==
  ASSUME S!PagesAssumption
  PROVE  S!Init => S!AdminInv
<1> SUFFICES ASSUME S!Init PROVE S!AdminInv
  OBVIOUS
<1>1. S!NoTx \in S!Txs /\ S!NoTx.pc = "idle"
  BY Positions DEF S!NoTx, S!Txs
<1>2. S!TypeOK
  BY <1>1, Positions DEF S!Init, S!TypeOK, S!Nothing, S!Statuses, S!PagesAssumption
<1>3. \A p \in Page : ~S!Live(p) /\ S!Shown(p) = {}
  BY DEF S!Init, S!Live, S!Shown, S!Nothing
<1>4. S!SlugsAreUnique /\ S!ShownFit
  BY <1>3 DEF S!SlugsAreUnique, S!ShownFit
<1>5. \A r \in Request : S!TxFits(r)
  BY <1>1 DEF S!Init, S!TxFits
<1> QED
  BY <1>2, <1>4, <1>5 DEF S!AdminInv

-----------------------------------------------------------------------------
(* Requests that only read. *)

LEMMA CreateKeeps ==
  ASSUME S!PagesAssumption, S!AdminInv, NEW r \in Request, NEW p \in Page, NEW s \in Slug,
         NEW to \in {"hidden", "published"}, S!CreatePage(r, p, s, to)
  PROVE  S!AdminInv'
<1> USE DEF S!AdminInv
<1>1. tx \in [Request -> S!Txs] /\ tx[r] \in S!Txs
  BY DEF S!TypeOK
<1> DEFINE new == [tx[r] EXCEPT !.pc = "insert", !.page = p, !.slug = s, !.to = to]
<1>2. tx' = [tx EXCEPT ![r] = new]
  BY DEF S!CreatePage
<1>3. new \in S!Txs /\ new.pc = "insert" /\ new.page = p /\ new.slug = s
  BY <1>1 DEF S!Txs
<1> HIDE DEF new
<1>4. S!TypeOK'
  BY <1>1, <1>2, <1>3 DEF S!TypeOK, S!CreatePage
<1>5. S!SlugsAreUnique' /\ S!ShownFit'
  BY DEF S!SlugsAreUnique, S!ShownFit, S!Live, S!Shown, S!CreatePage
<1>6. ASSUME NEW q \in Request PROVE S!TxFits(q)'
  <2>1. \A x \in Request \ {r} : tx'[x] = tx[x] /\ tx'[x].page # p
    BY <1>1, <1>2 DEF S!CreatePage
  <2>2. tx'[r] = new /\ page' = page /\ page[p] = "unborn"
    BY <1>1, <1>2 DEF S!CreatePage
  <2>3. CASE q = r
    BY <1>3, <2>1, <2>2, <2>3 DEF S!TxFits
  <2>4. CASE q # r
    <3>1. S!TxFits(q)
      OBVIOUS
    <3> QED
      BY <1>3, <2>1, <2>2, <2>4, <3>1 DEF S!TxFits
  <2> QED
    BY <2>3, <2>4
<1> QED
  BY <1>4, <1>5, <1>6

LEMMA AddKeeps ==
  ASSUME S!PagesAssumption, S!AdminInv, NEW r \in Request, NEW p \in Page, NEW m \in Listed,
         S!AddMonitor(r, p, m)
  PROVE  S!AdminInv'
<1> USE DEF S!AdminInv
<1>1. tx \in [Request -> S!Txs] /\ tx[r] \in S!Txs
  BY DEF S!TypeOK
<1>a. S!Cardinality(S!Shown(p)) \in 0 .. S!Absent
  BY Positions DEF S!Shown
<1> DEFINE new == [tx[r] EXCEPT !.pc = "link", !.page = p, !.monitor = m,
                                !.position = S!Cardinality(S!Shown(p))]
<1>2. tx' = [tx EXCEPT ![r] = new]
  BY DEF S!AddMonitor
<1>3. new \in S!Txs /\ new.pc = "link" /\ new.page = p /\ new.monitor = m
  BY <1>1, <1>a DEF S!Txs
<1> HIDE DEF new
<1>4. S!TypeOK'
  BY <1>1, <1>2, <1>3 DEF S!TypeOK, S!AddMonitor
<1>5. S!SlugsAreUnique' /\ S!ShownFit'
  BY DEF S!SlugsAreUnique, S!ShownFit, S!Live, S!Shown, S!AddMonitor
<1>6. ASSUME NEW q \in Request PROVE S!TxFits(q)'
  <2>1. \A x \in Request \ {r} : tx'[x] = tx[x]
    BY <1>1, <1>2
  <2>2. /\ tx'[r] = new /\ page' = page /\ PageHome[m] = PageHome[p]
        /\ page[p] # "unborn"
    BY <1>1, <1>2 DEF S!AddMonitor, S!Found, S!Live
  <2>3. CASE q = r
    BY <1>3, <2>2, <2>3 DEF S!TxFits
  <2>4. CASE q # r
    <3>1. S!TxFits(q)
      OBVIOUS
    <3> QED
      BY <1>3, <2>1, <2>2, <2>4, <3>1 DEF S!TxFits
  <2> QED
    BY <2>3, <2>4
<1> QED
  BY <1>4, <1>5, <1>6

(* A transaction that has ended writes nothing any more. *)
LEMMA EndKeeps ==
  ASSUME S!PagesAssumption, S!AdminInv, NEW r \in Request,
         tx' = [tx EXCEPT ![r] = S!NoTx],
         NEW q \in Request,
         \A p \in Page : (page[p] = "unborn") # (page'[p] = "unborn") => p = tx[r].page,
         tx[r].pc = "insert" \/ page' = page
  PROVE  S!TxFits(q)' /\ tx' \in [Request -> S!Txs]
<1> USE DEF S!AdminInv
<1>1. tx \in [Request -> S!Txs]
  BY DEF S!TypeOK
<1>2. S!NoTx \in S!Txs /\ S!NoTx.pc = "idle" /\ S!NoTx.page = NoOne
  BY Positions DEF S!NoTx, S!Txs
<1>3. CASE q = r
  BY <1>1, <1>2, <1>3 DEF S!TxFits
<1>4. CASE q # r
  <2>1. tx'[q] = tx[q] /\ S!TxFits(q) /\ S!TxFits(r)
    BY <1>1, <1>4
  <2>2. \A x \in Request : tx'[x].page = tx[x].page \/ tx'[x].page = NoOne
    BY <1>1, <1>2
  <2>3. NoOne \notin Page
    BY DEF S!PagesAssumption
  <2>4. tx[q].pc = "insert" =>
          /\ tx[q].page \in Page /\ page'[tx[q].page] = "unborn" /\ tx[q].slug \in Slug
          /\ \A x \in Request \ {q} : tx'[x].page # tx[q].page
    BY <1>4, <2>1, <2>2, <2>3 DEF S!TxFits
  <2>5. tx[q].pc = "link" =>
          /\ tx[q].page \in Page /\ tx[q].monitor \in Listed
          /\ page'[tx[q].page] # "unborn" /\ PageHome[tx[q].monitor] = PageHome[tx[q].page]
    BY <1>4, <2>1 DEF S!TxFits
  <2> QED
    BY <1>1, <1>2, <2>1, <2>4, <2>5 DEF S!TxFits
<1> QED
  BY <1>1, <1>2, <1>3, <1>4

LEMMA InsertKeeps ==
  ASSUME S!PagesAssumption, S!AdminInv, NEW r \in Request, S!InsertPage(r)
  PROVE  S!AdminInv'
<1> USE DEF S!AdminInv
<1>1. /\ tx[r] \in S!Txs /\ S!TxFits(r) /\ tx[r].pc = "insert"
      /\ page \in [Page -> {"unborn", "hidden", "published", "deleted"}]
      /\ slug \in [Page -> Slug \cup {NoOne}]
  BY DEF S!TypeOK, S!InsertPage
<1> DEFINE n == tx[r].page
<1>2. n \in Page /\ page[n] = "unborn" /\ tx[r].slug \in Slug /\ tx[r].to \in {"hidden", "published"}
  BY <1>1 DEF S!TxFits, S!Txs
<1>3. /\ page' = [page EXCEPT ![n] = tx[r].to] /\ slug' = [slug EXCEPT ![n] = tx[r].slug]
      /\ tx' = [tx EXCEPT ![r] = S!NoTx] /\ UNCHANGED <<place, status, changes>>
      /\ ~\E x \in Page : S!Live(x) /\ slug[x] = tx[r].slug
  BY DEF S!InsertPage
<1> HIDE DEF n
<1>4. \A q \in Request : S!TxFits(q)' /\ tx' \in [Request -> S!Txs]
  <2>1. \A p \in Page : (page[p] = "unborn") # (page'[p] = "unborn") => p = tx[r].page
    BY <1>1, <1>3 DEF n
  <2> QED
    BY <1>1, <1>3, <2>1, EndKeeps
<1>5. S!TypeOK'
  BY <1>1, <1>2, <1>3, <1>4 DEF S!TypeOK
<1>6. \A x \in Page \ {n} : (S!Live(x))' = S!Live(x) /\ slug'[x] = slug[x]
  BY <1>1, <1>3 DEF S!Live
<1>7. S!SlugsAreUnique'
  <2>1. SUFFICES ASSUME NEW x \in Page, NEW y \in Page, S!Live(x)', S!Live(y)',
                        slug'[x] = slug'[y], x # y
                 PROVE  FALSE
    BY DEF S!SlugsAreUnique
  <2>2. slug'[n] = tx[r].slug
    BY <1>1, <1>2, <1>3
  <2>3. CASE x = n \/ y = n
    BY <1>3, <1>6, <2>1, <2>2, <2>3
  <2>4. CASE x # n /\ y # n
    BY <1>6, <2>1, <2>4 DEF S!SlugsAreUnique
  <2> QED
    BY <2>3, <2>4
<1>8. S!ShownFit'
  <2>1. ASSUME NEW x \in Page, NEW m \in S!Shown(x)
        PROVE  S!Live(x)' /\ status[m] # "deleted" /\ PageHome[m] = PageHome[x]
    <3>1. S!Live(x) /\ status[m] # "deleted" /\ PageHome[m] = PageHome[x]
      BY <2>1 DEF S!ShownFit
    <3>2. x # n
      BY <1>2, <3>1 DEF S!Live
    <3> QED
      BY <1>6, <3>1, <3>2
  <2> QED
    BY <1>3, <2>1 DEF S!ShownFit, S!Shown
<1> QED
  BY <1>4, <1>5, <1>7, <1>8

LEMMA LinkKeeps ==
  ASSUME S!PagesAssumption, S!AdminInv, NEW r \in Request, S!LinkMonitor(r)
  PROVE  S!AdminInv'
<1> USE DEF S!AdminInv
<1>1. /\ tx[r] \in S!Txs /\ S!TxFits(r) /\ tx[r].pc = "link"
      /\ place \in [Page -> [Listed -> 0 .. S!Absent]]
  BY DEF S!TypeOK, S!LinkMonitor
<1> DEFINE p == tx[r].page
           m == tx[r].monitor
<1>2. p \in Page /\ m \in Listed /\ PageHome[m] = PageHome[p] /\ tx[r].position \in 0 .. S!Absent
  BY <1>1 DEF S!TxFits, S!Txs
<1>3. /\ place' = place \/ place' = [place EXCEPT ![p][m] = tx[r].position]
      /\ S!Live(p) /\ status[m] # "deleted"
      /\ tx' = [tx EXCEPT ![r] = S!NoTx] /\ UNCHANGED <<page, slug, status, changes>>
  BY DEF S!LinkMonitor
<1> HIDE DEF p, m
<1>4. \A q \in Request : S!TxFits(q)' /\ tx' \in [Request -> S!Txs]
  BY <1>3, EndKeeps
<1>5. place' \in [Page -> [Listed -> 0 .. S!Absent]]
  BY <1>1, <1>2, <1>3
<1>6. S!TypeOK'
  BY <1>3, <1>4, <1>5 DEF S!TypeOK
<1>7. S!SlugsAreUnique'
  BY <1>3 DEF S!SlugsAreUnique, S!Live
<1>8. S!ShownFit'
  <2>1. ASSUME NEW x \in Page, NEW k \in Listed, place'[x][k] # S!Absent
        PROVE  S!Live(x) /\ status[k] # "deleted" /\ PageHome[k] = PageHome[x]
    <3>1. place[x][k] # S!Absent \/ (x = p /\ k = m)
      BY <1>1, <1>3, <2>1
    <3> QED
      BY <1>2, <1>3, <3>1 DEF S!ShownFit, S!Shown
  <2> QED
    BY <1>3, <2>1 DEF S!ShownFit, S!Shown, S!Live
<1> QED
  BY <1>4, <1>6, <1>7, <1>8

(* Requests that delete or remove, and changes of monitors. *)
LEMMA OthersKeep ==
  ASSUME S!PagesAssumption, S!AdminInv, UNCHANGED <<slug, tx>>,
         page' \in [Page -> {"unborn", "hidden", "published", "deleted"}],
         place' \in [Page -> [Listed -> 0 .. S!Absent]],
         status' \in [Listed -> S!Statuses \cup {"deleted"}],
         changes' \in 0 .. MaxChanges,
         \A p \in Page : /\ page'[p] = "unborn" <=> page[p] = "unborn"
                         /\ S!Live(p)' => S!Live(p)
                         /\ S!Shown(p)' \subseteq S!Shown(p)
                         /\ S!Shown(p)' # {} => S!Live(p)'
                         /\ \A m \in S!Shown(p)' : status'[m] # "deleted"
  PROVE  S!AdminInv'
<1> USE DEF S!AdminInv
<1>1. S!TypeOK'
  BY DEF S!TypeOK
<1>2. S!SlugsAreUnique'
  BY DEF S!SlugsAreUnique
<1>3. S!ShownFit'
  BY DEF S!ShownFit
<1>4. ASSUME NEW r \in Request PROVE S!TxFits(r)'
  <2>1. S!TxFits(r)
    OBVIOUS
  <2> QED
    BY <2>1 DEF S!TxFits
<1> QED
  BY <1>1, <1>2, <1>3, <1>4

LEMMA StepHolds ==
  ASSUME S!PagesAssumption, S!AdminInv, [S!Next]_S!vars
  PROVE  S!AdminInv'
<1> USE DEF S!AdminInv
<1>0. /\ page \in [Page -> {"unborn", "hidden", "published", "deleted"}]
      /\ place \in [Page -> [Listed -> 0 .. S!Absent]]
      /\ status \in [Listed -> S!Statuses \cup {"deleted"}]
      /\ changes \in 0 .. MaxChanges /\ S!ShownFit /\ S!Absent \in Nat /\ MaxChanges \in Nat
  BY Positions DEF S!TypeOK, S!PagesAssumption
<1>a. S!Nothing \in [Listed -> 0 .. S!Absent]
  BY <1>0 DEF S!Nothing
<1>1. CASE \E r \in Request, p \in Page, s \in Slug, to \in {"hidden", "published"} :
             S!CreatePage(r, p, s, to)
  BY <1>1, CreateKeeps
<1>2. CASE \E r \in Request, p \in Page, m \in Listed : S!AddMonitor(r, p, m)
  BY <1>2, AddKeeps
<1>3. ASSUME NEW r \in Request, S!InsertPage(r) PROVE S!AdminInv'
  BY <1>3, InsertKeeps
<1>4. ASSUME NEW r \in Request, S!LinkMonitor(r) PROVE S!AdminInv'
  BY <1>4, LinkKeeps
<1>5. ASSUME NEW r \in Request, S!Rollback(r) PROVE S!AdminInv'
  <2>1. \A q \in Request : S!TxFits(q)' /\ tx' \in [Request -> S!Txs]
    BY <1>5, EndKeeps DEF S!Rollback
  <2>2. S!TypeOK'
    BY <1>5, <2>1 DEF S!TypeOK, S!Rollback
  <2>3. S!SlugsAreUnique' /\ S!ShownFit'
    BY <1>5 DEF S!SlugsAreUnique, S!ShownFit, S!Live, S!Shown, S!Rollback
  <2> QED
    BY <2>1, <2>2, <2>3
<1>6. ASSUME NEW p \in Page, NEW to \in {"hidden", "published"}, S!Publish(p, to)
      PROVE  S!AdminInv'
  <2>1. /\ page' = [page EXCEPT ![p] = to] /\ page[p] \in {"hidden", "published"}
        /\ UNCHANGED <<slug, place, status, changes, tx>>
    BY <1>6 DEF S!Publish, S!Live
  <2>2. \A x \in Page : /\ page'[x] = "unborn" <=> page[x] = "unborn"
                        /\ S!Live(x)' <=> S!Live(x)
                        /\ S!Shown(x)' = S!Shown(x)
    BY <1>0, <2>1 DEF S!Live, S!Shown
  <2>3. page' \in [Page -> {"unborn", "hidden", "published", "deleted"}]
    BY <1>0, <2>1
  <2> QED
    BY <1>0, <2>1, <2>2, <2>3, OthersKeep DEF S!ShownFit
<1>7. ASSUME NEW p \in Page, S!DeletePage(p) PROVE S!AdminInv'
  <2>1. /\ page' = [page EXCEPT ![p] = "deleted"] /\ page[p] \in {"hidden", "published"}
        /\ place' = [place EXCEPT ![p] = S!Nothing]
        /\ UNCHANGED <<slug, status, changes, tx>>
    BY <1>7 DEF S!DeletePage, S!Live
  <2>2. \A x \in Page : /\ page'[x] = "unborn" <=> page[x] = "unborn"
                        /\ S!Live(x)' <=> S!Live(x) /\ x # p
    BY <1>0, <2>1 DEF S!Live
  <2>3. \A x \in Page : S!Shown(x)' = IF x = p THEN {} ELSE S!Shown(x)
    BY <1>0, <2>1 DEF S!Shown, S!Nothing
  <2>4. /\ page' \in [Page -> {"unborn", "hidden", "published", "deleted"}]
        /\ place' \in [Page -> [Listed -> 0 .. S!Absent]]
    BY <1>0, <1>a, <2>1
  <2> QED
    BY <1>0, <2>1, <2>2, <2>3, <2>4, OthersKeep DEF S!ShownFit
<1>8. ASSUME NEW p \in Page, NEW m \in Listed, S!RemoveMonitor(p, m) PROVE S!AdminInv'
  <2>1. /\ place' = [place EXCEPT ![p][m] = S!Absent]
        /\ UNCHANGED <<page, slug, status, changes, tx>>
    BY <1>8 DEF S!RemoveMonitor
  <2>2. \A x \in Page : S!Shown(x)' \subseteq S!Shown(x) /\ (S!Live(x)' <=> S!Live(x))
    BY <1>0, <2>1 DEF S!Shown, S!Live
  <2>3. place' \in [Page -> [Listed -> 0 .. S!Absent]]
    BY <1>0, <2>1
  <2> QED
    BY <1>0, <2>1, <2>2, <2>3, OthersKeep DEF S!ShownFit
<1>9. ASSUME NEW m \in Listed, NEW s \in S!Statuses \cup {"deleted"}, S!ChangeStatus(m, s)
      PROVE  S!AdminInv'
  <2>1. /\ status' = [status EXCEPT ![m] = s] /\ changes' = changes + 1
        /\ changes < MaxChanges /\ UNCHANGED <<page, slug, tx>>
        /\ IF s = "deleted" THEN place' = [p \in Page |-> [place[p] EXCEPT ![m] = S!Absent]]
                            ELSE place' = place
    BY <1>9 DEF S!ChangeStatus
  <2>2. \A x \in Page, k \in Listed :
          /\ place'[x][k] \in {place[x][k], S!Absent}
          /\ s = "deleted" => place'[x][m] = S!Absent
    BY <1>0, <2>1
  <2>3. \A x \in Page : /\ S!Shown(x)' \subseteq S!Shown(x) /\ (S!Live(x)' <=> S!Live(x))
                        /\ \A k \in S!Shown(x)' : status'[k] # "deleted"
    BY <1>0, <2>1, <2>2 DEF S!Shown, S!Live, S!ShownFit
  <2>4. /\ place' \in [Page -> [Listed -> 0 .. S!Absent]]
        /\ status' \in [Listed -> S!Statuses \cup {"deleted"}]
        /\ changes' \in 0 .. MaxChanges
    BY <1>0, <2>1
  <2> QED
    BY <1>0, <2>1, <2>3, <2>4, OthersKeep DEF S!ShownFit
<1>10. CASE S!VisitStep \/ UNCHANGED S!vars
  <2>1. UNCHANGED <<page, slug, place, status, changes, tx>>
    BY <1>10 DEF S!VisitStep, S!Visit, S!ListMonitors, S!ReadMonitor, S!Answer, S!Leave, S!vars
  <2>2. \A x \in Page : S!Shown(x)' = S!Shown(x) /\ (S!Live(x)' <=> S!Live(x))
    BY <2>1 DEF S!Shown, S!Live
  <2> QED
    BY <1>0, <2>1, <2>2, OthersKeep DEF S!ShownFit
<1> QED
  BY <1>1, <1>2, <1>3, <1>4, <1>5, <1>6, <1>7, <1>8, <1>9, <1>10
     DEF S!Next, S!AdminStep, S!MonitorStep

-----------------------------------------------------------------------------
(* Visits of public pages. *)

(* What a visit knows depends on itself and on the monitors only. *)
LEMMA VisitStays ==
  ASSUME S!VisitInv, UNCHANGED <<visit, status>>
  PROVE  S!VisitInv'
BY DEF S!VisitInv, S!Todo, S!Found

LEMMA ChangeKeepsVisit ==
  ASSUME S!AdminInv, S!VisitInv, NEW m \in Listed, NEW s, S!ChangeStatus(m, s)
  PROVE  S!VisitInv'
<1>1. /\ status \in [Listed -> S!Statuses \cup {"deleted"}] /\ visit \in S!Visits
      /\ status' = [status EXCEPT ![m] = s]
      /\ visit' = [visit EXCEPT !.same = visit.same \ {m}]
  BY DEF S!AdminInv, S!TypeOK, S!VisitInv, S!ChangeStatus
<1>2. /\ visit' \in S!Visits /\ visit'.same = visit.same \ {m}
      /\ visit'.pc = visit.pc /\ visit'.page = visit.page /\ visit'.todo = visit.todo
      /\ visit'.listed = visit.listed /\ visit'.read = visit.read
      /\ visit'.answer = visit.answer
  BY <1>1 DEF S!Visits
<1>3. \A k \in visit'.listed \cap visit'.same : status'[k] = status[k] /\ k \in visit.same
  BY <1>1, <1>2 DEF S!Visits
<1> QED
  BY <1>2, <1>3 DEF S!VisitInv, S!Todo, S!Found

LEMMA ListKeepsVisit ==
  ASSUME S!AdminInv, S!VisitInv, S!ListMonitors
  PROVE  S!VisitInv'
<1> DEFINE p == visit.page
<1>1. /\ place \in [Page -> [Listed -> 0 .. S!Absent]] /\ visit \in S!Visits
      /\ visit.pc = "list" /\ p \in Page
      /\ visit' = [visit EXCEPT !.pc = "read", !.todo = place[p], !.listed = S!Shown(p)]
      /\ UNCHANGED <<page, place, status>>
  BY DEF S!AdminInv, S!TypeOK, S!VisitInv, S!ListMonitors
<1>2. /\ visit'.pc = "read" /\ visit'.todo = place[p] /\ visit'.listed = S!Shown(p)
      /\ visit'.page = p /\ visit'.read = visit.read /\ visit'.same = visit.same
      /\ visit' \in S!Visits
  BY <1>1 DEF S!Visits, S!Shown
<1>3. S!Todo' = S!Shown(p)
  BY <1>2 DEF S!Todo, S!Shown
<1>4. \A m \in S!Shown(p) : S!Found(m, PageHome[p])'
  BY <1>1 DEF S!AdminInv, S!ShownFit, S!Found
<1>5. \A m \in Listed : visit'.read[m] = "deleted"
  BY <1>1, <1>2 DEF S!VisitInv
<1> QED
  BY <1>1, <1>2, <1>3, <1>4, <1>5 DEF S!VisitInv

LEMMA ReadKeepsVisit ==
  ASSUME S!PagesAssumption, S!AdminInv, S!VisitInv, NEW m \in Listed, S!ReadMonitor(m)
  PROVE  S!VisitInv'
<1> DEFINE found == IF S!Found(m, PageHome[visit.page]) THEN status[m] ELSE "deleted"
<1>1. /\ status \in [Listed -> S!Statuses \cup {"deleted"}] /\ visit \in S!Visits
      /\ visit.pc = "read" /\ m \in S!Todo
      /\ visit' = [visit EXCEPT !.todo[m] = S!Absent, !.read[m] = found]
      /\ UNCHANGED <<page, place, status>>
  BY DEF S!AdminInv, S!TypeOK, S!VisitInv, S!ReadMonitor
<1>2. found \in S!Statuses \cup {"deleted"} /\ S!Absent \in 0 .. S!Absent
  BY <1>1, Positions
<1> HIDE DEF found
<1>3. /\ visit'.todo = [visit.todo EXCEPT ![m] = S!Absent]
      /\ visit'.read = [visit.read EXCEPT ![m] = found]
      /\ visit'.pc = "read" /\ visit'.page = visit.page /\ visit'.listed = visit.listed
      /\ visit'.same = visit.same /\ visit'.answer = visit.answer /\ visit' \in S!Visits
  BY <1>1, <1>2 DEF S!Visits
<1>4. S!Todo' = S!Todo \ {m}
  BY <1>1, <1>3 DEF S!Todo, S!Visits
<1>5. visit'.read[m] = found /\ \A k \in Listed \ {m} : visit'.read[k] = visit.read[k]
  BY <1>1, <1>3 DEF S!Visits
<1>6. ASSUME NEW k \in visit.listed \cap visit.same
      PROVE  /\ S!Found(k, PageHome[visit.page])'
             /\ k \notin S!Todo' => visit'.read[k] = status'[k]
  <2>1. S!Found(k, PageHome[visit.page]) /\ k \in Listed
    BY <1>1 DEF S!VisitInv, S!Visits
  <2>2. CASE k = m
    BY <1>1, <1>3, <1>5, <2>1, <2>2 DEF found, S!Found
  <2>3. CASE k # m
    BY <1>1, <1>3, <1>4, <1>5, <2>1, <2>3 DEF S!VisitInv, S!Found
  <2> QED
    BY <2>2, <2>3
<1>7. \A k \in Listed \ visit.listed : visit'.read[k] = "deleted"
  BY <1>1, <1>5 DEF S!VisitInv
<1>8. S!Todo' \subseteq visit'.listed
  BY <1>1, <1>3, <1>4 DEF S!VisitInv
<1> QED
  BY <1>1, <1>3, <1>6, <1>7, <1>8 DEF S!VisitInv

LEMMA VisitKeeps ==
  ASSUME S!PagesAssumption, S!AdminInv, S!VisitInv, [S!Next]_S!vars
  PROVE  S!VisitInv'
<1>1. CASE S!AdminStep \/ UNCHANGED S!vars
  <2>1. UNCHANGED <<visit, status>>
    BY <1>1 DEF S!AdminStep, S!CreatePage, S!InsertPage, S!LinkMonitor, S!Rollback,
                S!AddMonitor, S!Publish, S!DeletePage, S!RemoveMonitor, S!vars
  <2> QED
    BY <2>1, VisitStays
<1>2. CASE S!MonitorStep
  BY <1>2, ChangeKeepsVisit DEF S!MonitorStep
<1>3. ASSUME NEW s \in Slug, S!Visit(s) PROVE S!VisitInv'
  <2>1. PICK p \in Page : visit' = [S!NoVisit EXCEPT !.pc = "list", !.page = p, !.same = Listed]
    BY <1>3 DEF S!Visit
  <2>2. S!Nothing \in [Listed -> 0 .. S!Absent]
    BY Positions DEF S!Nothing
  <2>3. /\ visit' \in S!Visits /\ visit'.pc = "list" /\ visit'.page = p
        /\ visit'.read = [m \in Listed |-> "deleted"]
    BY <2>1, <2>2 DEF S!Visits, S!NoVisit
  <2> QED
    BY <2>3 DEF S!VisitInv
<1>4. CASE S!ListMonitors
  BY <1>4, ListKeepsVisit
<1>5. ASSUME NEW m \in Listed, S!ReadMonitor(m) PROVE S!VisitInv'
  BY <1>5, ReadKeepsVisit
<1>6. CASE S!Answer
  <2>1. /\ visit.pc = "read" /\ S!Todo = {} /\ visit \in S!Visits
        /\ visit' = [visit EXCEPT !.pc = "done", !.answer = S!Overall(visit.read)]
        /\ UNCHANGED status
    BY <1>6 DEF S!Answer, S!VisitInv
  <2>2. S!Overall(visit.read) \in {"unknown", "operational", "major", "partial"}
    BY DEF S!Overall
  <2>3. /\ visit' \in S!Visits /\ visit'.pc = "done" /\ visit'.answer = S!Overall(visit'.read)
        /\ visit'.page = visit.page /\ visit'.listed = visit.listed /\ visit'.same = visit.same
        /\ visit'.read = visit.read /\ visit'.todo = visit.todo
    BY <2>1, <2>2 DEF S!Visits
  <2> QED
    BY <2>1, <2>3 DEF S!VisitInv, S!Todo, S!Found
<1>7. CASE S!Leave
  <2>1. S!Nothing \in [Listed -> 0 .. S!Absent]
    BY Positions DEF S!Nothing
  <2>2. visit' \in S!Visits /\ visit'.pc = "idle"
    BY <1>7, <2>1 DEF S!Leave, S!Visits, S!NoVisit
  <2> QED
    BY <2>2 DEF S!VisitInv
<1> QED
  BY <1>1, <1>2, <1>3, <1>4, <1>5, <1>6, <1>7 DEF S!Next, S!VisitStep

(* Pages and what they show are sound: the unique index and the foreign keys
   decide what the checks before an INSERT cannot. *)
THEOREM PagesHold == S!Spec => []PagesInv
<1>1. S!Init => PagesInv
  <2>1. S!Nothing \in [Listed -> 0 .. S!Absent]
    BY PagesAssumption, Positions DEF S!Nothing
  <2>2. S!Init => S!VisitInv
    BY <2>1 DEF S!Init, S!VisitInv, S!Visits, S!NoVisit
  <2> QED
    BY <2>2, PagesAssumption, InitHolds DEF PagesInv, S!PagesInv
<1>2. PagesInv /\ [S!Next]_S!vars => PagesInv'
  BY PagesAssumption, StepHolds, VisitKeeps DEF PagesInv, S!PagesInv
<1> QED
  BY <1>1, <1>2, PTL DEF S!Spec

(* An outage that lasts during a visit is never hidden, and a page is not all
   down while one of its monitors stays up. *)
THEOREM VisitorsSeeWhatLasts == S!Spec => []AnswersAreTrue
<1>1. PagesInv => AnswersAreTrue
  <2> SUFFICES ASSUME S!VisitInv, visit.pc = "done" PROVE AnswersAreTrue
    BY DEF PagesInv, S!PagesInv, AnswersAreTrue, S!AnswersAreTrue
  <2> DEFINE same(s) == {m \in visit.listed \cap visit.same : status[m] = s}
             seen(s) == {m \in Listed : visit.read[m] = s}
  <2>1. visit \in S!Visits /\ S!Todo = {} /\ visit.answer = S!Overall(visit.read)
    BY DEF S!VisitInv
  <2>2. \A s : same(s) \subseteq seen(s)
    BY <2>1 DEF S!VisitInv, S!Visits
  <2>3. /\ seen("down") # {} => visit.answer \in {"major", "partial"}
        /\ seen("up") \cup seen("pending") # {} => visit.answer # "major"
        /\ seen("pending") # {} => visit.answer # "operational"
    BY <2>1 DEF S!Overall
  <2>4. ASSUME visit.listed \subseteq visit.same
        PROVE  visit.read = [m \in Listed |->
                               IF m \in visit.listed THEN status[m] ELSE "deleted"]
    BY <2>1, <2>4 DEF S!VisitInv, S!Visits
  <2> QED
    BY <2>1, <2>2, <2>3, <2>4 DEF AnswersAreTrue, S!AnswersAreTrue
<1> QED
  BY <1>1, PagesHold, PTL

-----------------------------------------------------------------------------
(* Statistics *)

LEMMA CleanupsDeleteExpired ==
  ASSUME C!StatisticsInv, [C!Next]_C!vars
  PROVE  C!StatisticsInv'
<1> USE DEF C!StatisticsInv, C!TypeOK, C!DeletedIsExpired
<1>0. now \in Int /\ Days \in Int /\ MaxTime \in Nat /\ C!Time \subseteq Int
  BY DaysAssumption, BoundAssumption DEF C!Time
<1>1. CASE C!Tick
  BY <1>0, <1>1 DEF C!Tick, C!Time
<1>2. ASSUME NEW t \in C!Time, C!Record(t) PROVE C!StatisticsInv'
  BY <1>0, <1>2 DEF C!Record
<1>3. ASSUME NEW c \in Cleaner, C!CleanSelect(c) PROVE C!StatisticsInv'
  <2>1. PICK e \in SUBSET C!Lockable : clean' = [clean EXCEPT ![c] = e]
    BY <1>3 DEF C!CleanSelect
  <2>2. e \subseteq C!Time /\ \A t \in e : t < now - Days
    BY DEF C!Lockable, C!Expired, C!Kept
  <2>3. clean' \in [Cleaner -> SUBSET C!Time]
    BY <2>1, <2>2
  <2>4. \A d \in Cleaner : \A t \in clean'[d] : t < now - Days
    BY <2>1, <2>2
  <2> QED
    BY <1>3, <2>3, <2>4 DEF C!CleanSelect
<1>4. ASSUME NEW c \in Cleaner, C!CleanCommit(c) PROVE C!StatisticsInv'
  BY <1>0, <1>4 DEF C!CleanCommit
<1>5. ASSUME NEW c \in Cleaner, C!CleanAbort(c) PROVE C!StatisticsInv'
  BY <1>0, <1>5 DEF C!CleanAbort
<1>6. CASE C!Ask
  <2>1. PICK from \in C!Time \cup {-1}, to \in C!Time \cup {-1} :
          /\ from < to
          /\ request' = [pc |-> "asked", now |-> now, from |-> from, to |-> to,
                         partial |-> FALSE]
    BY <1>6 DEF C!Ask
  <2>2. to \in C!Time
    BY <1>0, <2>1 DEF C!Time
  <2> QED
    BY <1>6, <2>1, <2>2 DEF C!Ask, C!Requests
<1>7. CASE C!Answer
  BY <1>7, Zenon DEF C!Answer, C!Requests, C!IsPartial
<1>8. CASE C!Done
  BY <1>0, <1>8 DEF C!Done, C!NoRequest, C!Requests, C!Time
<1>9. CASE UNCHANGED C!vars
  BY <1>9 DEF C!vars, C!Time
<1> QED
  BY <1>1, <1>2, <1>3, <1>4, <1>5, <1>6, <1>7, <1>8, <1>9 DEF C!Next

(* Whatever the order in which cleanups skip rows, roll back and commit, only
   expired checks go. *)
THEOREM OnlyExpiredGo == C!Spec => []C!StatisticsInv
<1>1. C!Init => C!StatisticsInv
  BY BoundAssumption
     DEF C!Init, C!StatisticsInv, C!TypeOK, C!DeletedIsExpired, C!Time, C!NoRequest, C!Requests
<1>2. C!StatisticsInv /\ [C!Next]_C!vars => C!StatisticsInv'
  BY CleanupsDeleteExpired
<1> QED
  BY <1>1, <1>2, PTL DEF C!Spec

(* An answer that is not flagged as partial leaves out no check that was
   deleted. *)
THEOREM UnflaggedIsComplete == C!Spec => AnswersAreComplete
<1>1. ASSUME C!StatisticsInv, C!Answer, ~request'.partial, request.now = now,
             NEW t \in C!Time, C!InPeriod(t)
      PROVE  check[t] # "deleted"
  <2>1. request' = [request EXCEPT !.pc = "answered", !.partial = C!IsPartial]
    BY <1>1 DEF C!Answer
  <2>2. ~C!IsPartial
    BY <1>1, <2>1 DEF C!StatisticsInv, C!TypeOK, C!Requests
  <2>3. request.from \in Int /\ now \in Int /\ Days \in Int /\ t \in Int
    BY <1>1, DaysAssumption DEF C!StatisticsInv, C!TypeOK, C!Requests, C!Time
  <2>4. ~(request.from < now - Days) /\ request.from <= t
    BY <1>1, <2>2 DEF C!IsPartial, C!InPeriod
  <2>5. ~(t < now - Days)
    BY <2>3, <2>4
  <2> QED
    BY <1>1, <2>5 DEF C!StatisticsInv, C!DeletedIsExpired
<1>2. C!StatisticsInv =>
        [C!Answer /\ ~request'.partial /\ request.now = now =>
           \A t \in C!Time : C!InPeriod(t) => check[t] # "deleted"]_C!vars
  BY <1>1
<1> QED
  BY <1>2, OnlyExpiredGo, PTL DEF AnswersAreComplete, C!AnswersAreComplete, C!Spec

-----------------------------------------------------------------------------
(* Settings *)

(* Merge yields a row: what the request names as it says, the rest as it was. *)
LEMMA Merged ==
  ASSUME NEW k \in P!Kinds, NEW old \in P!Rows(k), NEW p \in P!Patches(k)
  PROVE  /\ P!Merge(old, p) \in P!Rows(k)
         /\ \A f \in P!Fields(k) :
              P!Merge(old, p)[f] = IF f \in DOMAIN p THEN p[f] ELSE old[f]
<1>1. PICK F \in SUBSET P!Fields(k) : p \in [F -> BOOLEAN]
  BY DEF P!Patches
<1>2. DOMAIN old = P!Fields(k) /\ DOMAIN p = F
  BY <1>1 DEF P!Rows
<1> QED
  BY <1>1, <1>2 DEF P!Merge, P!Rows

(* What a transaction knows in each of its states. *)
LEMMA TxKnows ==
  ASSUME P!SettingsInv, NEW q \in Request
  PROVE  /\ patch[q].pc \in {"idle", "read", "write"}
         /\ patch[q].pc = "read" =>
              patch[q].patch \in P!Patches(kind) /\ patch[q].old \in P!Rows(kind)
         /\ patch[q].pc = "write" =>
              /\ patch[q].patch \in P!Patches(kind) /\ patch[q].old \in P!Rows(kind)
              /\ patch[q].new \in P!Rows(kind) /\ patch[q].fresh \in P!Rows(kind)
<1>1. patch[q] \in P!Txs(kind)
  BY DEF P!SettingsInv, P!TypeOK
<1>2. CASE patch[q] = P!Idle
  BY <1>2 DEF P!Idle
<1>3. CASE patch[q] \in [pc : {"read"}, patch : P!Patches(kind), old : P!Rows(kind)]
  BY <1>3
<1>4. CASE patch[q] \in [pc : {"write"}, patch : P!Patches(kind), old : P!Rows(kind),
                         new : P!Rows(kind), fresh : P!Rows(kind)]
  BY <1>4
<1> QED
  BY <1>1, <1>2, <1>3, <1>4 DEF P!Txs

(* The end of a transaction gives its lock back, and nobody else had it. *)
LEMMA CloseKeeps ==
  ASSUME P!SettingsInv, NEW q \in Request, P!Close(q), UNCHANGED kind,
         patch[q].pc # "idle",
         setting' \in P!Rows(kind), P!Accepted(setting')
  PROVE  P!SettingsInv'
<1> USE DEF P!SettingsInv
<1>1. patch' = [patch EXCEPT ![q] = P!Idle] /\ lock' = IF lock = q THEN NoOne ELSE lock
  BY DEF P!Close
<1>2. P!Idle \in P!Txs(kind) /\ P!Idle.pc = "idle"
  BY DEF P!Txs, P!Idle
<1>3. patch'[q] = P!Idle /\ \A r \in Request \ {q} : patch'[r] = patch[r]
  BY <1>1 DEF P!TypeOK
<1>4. P!TypeOK'
  BY <1>1, <1>2 DEF P!TypeOK
<1>5. P!MergesFit'
  BY <1>2, <1>3 DEF P!MergesFit, P!Accepted
<1>6. P!MonitorsAreLocked'
  BY <1>2, <1>3 DEF P!MonitorsAreLocked
<1> QED
  BY <1>4, <1>5, <1>6 DEF P!StoredIsAccepted, P!Accepted

(* A request writes the columns that differ from its second reading.  A monitor
   becomes exactly what was merged; elsewhere a field that is not named becomes
   what was read first, if it changes at all. *)
LEMMA WriteEffect ==
  ASSUME P!SettingsInv, NEW q \in Request, P!Write(q)
  PROVE  /\ setting' \in P!Rows(kind)
         /\ kind = "monitor" => setting' = patch[q].new
         /\ \A f \in P!Fields(kind) :
              setting'[f] # setting[f] /\ f \notin DOMAIN patch[q].patch =>
                kind # "monitor" /\ setting'[f] = patch[q].old[f]
<1> DEFINE t == patch[q]
<1>1. /\ t.pc = "write" /\ kind \in P!Kinds /\ setting \in P!Rows(kind)
      /\ setting' = [f \in P!Fields(kind) |->
                      IF P!Column(f) \in P!Dirty(q) THEN t.new[f] ELSE setting[f]]
      /\ t.patch \in P!Patches(kind) /\ t.old \in P!Rows(kind)
      /\ t.new \in P!Rows(kind) /\ t.fresh \in P!Rows(kind)
  BY TxKnows DEF P!Write, P!SettingsInv, P!TypeOK
<1>2. t.new = P!Merge(t.old, t.patch)
  BY <1>1 DEF P!SettingsInv, P!MergesFit
<1>3. setting' \in P!Rows(kind)
  BY <1>1 DEF P!Rows
<1>4. \A f \in P!Fields(kind) : f \notin DOMAIN t.patch => t.new[f] = t.old[f]
  BY <1>1, <1>2, Merged
<1>5. CASE kind = "monitor"
  <2>1. t.old = setting /\ t.fresh = setting
    BY <1>1, <1>5 DEF P!SettingsInv, P!MonitorsAreLocked
  <2>2. \A f \in P!Fields(kind) : t.new[f] # setting[f] => P!Column(f) \in P!Dirty(q)
    BY <2>1 DEF P!Dirty
  <2>3. \A f \in P!Fields(kind) : setting'[f] = t.new[f]
    BY <1>1, <2>2
  <2>4. setting' = t.new
    BY <1>1, <1>3, <2>3 DEF P!Rows
  <2> QED
    BY <1>3, <1>4, <2>1, <2>3, <2>4
<1>6. CASE kind # "monitor"
  BY <1>1, <1>3, <1>4, <1>6
<1> QED
  BY <1>5, <1>6

LEMMA PatchesKeep ==
  ASSUME P!SettingsInv, [P!Next]_P!vars
  PROVE  P!SettingsInv'
<1> USE DEF P!SettingsInv
<1>0. patch \in [Request -> P!Txs(kind)] /\ kind \in P!Kinds /\ setting \in P!Rows(kind)
  BY DEF P!TypeOK
<1>1. ASSUME NEW q \in Request, P!Read(q) PROVE P!SettingsInv'
  <2>1. PICK p \in P!Patches(kind) :
          patch' = [patch EXCEPT ![q] = [pc |-> "read", patch |-> p, old |-> setting]]
    BY <1>1 DEF P!Read
  <2> DEFINE t == [pc |-> "read", patch |-> p, old |-> setting]
  <2>2. t \in P!Txs(kind) /\ t.pc = "read" /\ t.old = setting
    BY <1>0 DEF P!Txs
  <2>3. patch'[q] = t /\ \A r \in Request \ {q} : patch'[r] = patch[r]
    BY <1>0, <2>1
  <2>4. /\ UNCHANGED <<kind, setting>> /\ patch[q].pc = "idle"
        /\ lock' \in {lock, q}
        /\ kind = "monitor" => lock = NoOne /\ lock' = q
    BY <1>1 DEF P!Read
  <2> HIDE DEF t
  <2>5. P!TypeOK'
    BY <2>1, <2>2, <2>3, <2>4 DEF P!TypeOK, t
  <2>6. P!MergesFit'
    BY <2>2, <2>3, <2>4 DEF P!MergesFit, P!Accepted
  <2>7. P!MonitorsAreLocked'
    BY <2>2, <2>3, <2>4, NoOneAssumption DEF P!MonitorsAreLocked
  <2> QED
    BY <2>4, <2>5, <2>6, <2>7 DEF P!StoredIsAccepted, P!Accepted
<1>2. ASSUME NEW q \in Request, P!Reread(q) PROVE P!SettingsInv'
  <2> DEFINE new == P!Merge(patch[q].old, patch[q].patch)
             t   == [pc |-> "write", patch |-> patch[q].patch, old |-> patch[q].old,
                     new |-> new, fresh |-> setting]
  <2>1. /\ patch[q].pc = "read" /\ P!Accepted(new) /\ patch' = [patch EXCEPT ![q] = t]
        /\ UNCHANGED <<kind, setting, lock>>
    BY <1>2 DEF P!Reread
  <2>2. /\ patch[q].patch \in P!Patches(kind) /\ patch[q].old \in P!Rows(kind)
        /\ new \in P!Rows(kind)
    BY <1>0, <2>1, TxKnows, Merged
  <2>3. /\ t \in P!Txs(kind) /\ t.pc = "write" /\ t.new = P!Merge(t.old, t.patch)
        /\ P!Accepted(t.new) /\ t.old = patch[q].old /\ t.fresh = setting
    BY <1>0, <2>1, <2>2 DEF P!Txs
  <2>4. patch'[q] = t /\ \A r \in Request \ {q} : patch'[r] = patch[r]
    BY <1>0, <2>1
  <2> HIDE DEF t, new
  <2>5. P!TypeOK'
    BY <2>1, <2>3 DEF P!TypeOK
  <2>6. P!MergesFit'
    BY <2>1, <2>3, <2>4 DEF P!MergesFit, P!Accepted
  <2>7. P!MonitorsAreLocked'
    BY <2>1, <2>3, <2>4 DEF P!MonitorsAreLocked
  <2> QED
    BY <2>1, <2>5, <2>6, <2>7 DEF P!StoredIsAccepted, P!Accepted
<1>3. ASSUME NEW q \in Request, P!Write(q) PROVE P!SettingsInv'
  <2>1. P!Close(q) /\ UNCHANGED kind /\ patch[q].pc = "write"
    BY <1>3 DEF P!Write
  <2>2. setting' \in P!Rows(kind) /\ (kind = "monitor" => setting' = patch[q].new)
    BY <1>3, WriteEffect
  <2>3. P!Accepted(setting')
    BY <2>1, <2>2 DEF P!MergesFit, P!Accepted
  <2> QED
    BY <2>1, <2>2, <2>3, CloseKeeps
<1>4. ASSUME NEW q \in Request, P!Rollback(q) PROVE P!SettingsInv'
  <2>1. P!Close(q) /\ UNCHANGED <<kind, setting>> /\ patch[q].pc # "idle"
    BY <1>4 DEF P!Rollback
  <2> QED
    BY <1>0, <2>1, CloseKeeps DEF P!StoredIsAccepted
<1>5. CASE UNCHANGED P!vars
  BY <1>5 DEF P!vars, P!TypeOK, P!StoredIsAccepted, P!MergesFit, P!MonitorsAreLocked, P!Accepted
<1> QED
  BY <1>1, <1>2, <1>3, <1>4, <1>5 DEF P!Next

LEMMA SettingsHold == P!Spec => []P!SettingsInv
<1>1. P!Init => P!SettingsInv
  BY DEF P!Init, P!SettingsInv, P!TypeOK, P!Txs, P!Idle, P!StoredIsAccepted, P!MergesFit,
         P!MonitorsAreLocked
<1>2. P!SettingsInv /\ [P!Next]_P!vars => P!SettingsInv'
  BY PatchesKeep
<1> QED
  BY <1>1, <1>2, PTL DEF P!Spec

(* What is stored is what a create request would be allowed, whatever requests
   come at the same time. *)
THEOREM StoredStaysAccepted == P!Spec => []StoredIsAccepted
<1>1. P!SettingsInv => StoredIsAccepted
  BY DEF P!SettingsInv, StoredIsAccepted
<1> QED
  BY <1>1, SettingsHold, PTL

(* A PATCH undoes another one only by writing back what it read before it. *)
THEOREM UpdatesAreLostToConcurrentOnes == P!Spec => UndoneWasConcurrent
<1> DEFINE Stores(q) == patch[q].pc = "write" /\ patch'[q].pc = "idle"
           Undone(f) ==
             setting'[f] # setting[f] /\ ~P!Named(f) =>
               kind # "monitor" /\ \E q \in Request : Stores(q) /\ setting'[f] = patch[q].old[f]
<1>1. ASSUME P!SettingsInv, P!Next, NEW f \in P!Fields(kind) PROVE Undone(f)
  <2>1. ASSUME NEW q \in Request, P!Write(q) PROVE Undone(f)
    <3>1. Stores(q)
      BY <1>1, <2>1 DEF P!Write, P!Close, P!Idle, P!SettingsInv, P!TypeOK
    <3>2. ~P!Named(f) => f \notin DOMAIN patch[q].patch
      BY <3>1 DEF P!Named
    <3> QED
      BY <1>1, <2>1, <3>1, <3>2, WriteEffect
  <2>2. ASSUME NEW q \in Request, P!Read(q) \/ P!Reread(q) \/ P!Rollback(q) PROVE Undone(f)
    BY <2>2 DEF P!Read, P!Reread, P!Rollback
  <2> QED
    BY <1>1, <2>1, <2>2 DEF P!Next
<1>2. P!SettingsInv /\ [P!Next]_P!vars =>
        [\A f \in P!Fields(kind) : setting'[f] # setting[f] /\ ~P!Named(f) =>
           /\ kind # "monitor"
           /\ \E q \in Request : patch[q].pc = "write" /\ patch'[q].pc = "idle"
                                 /\ setting'[f] = patch[q].old[f]]_P!vars
  BY <1>1
<1> QED
  BY <1>2, SettingsHold, PTL DEF UndoneWasConcurrent, P!UndoneWasConcurrent, P!Spec

-----------------------------------------------------------------------------
(* MonitorHistory *)

LEMMA Appended ==
  ASSUME NEW h \in Seq(BOOLEAN), NEW ok \in BOOLEAN
  PROVE  /\ Len(h) \in Nat /\ Append(h, ok) \in Seq(BOOLEAN)
         /\ Len(Append(h, ok)) = Len(h) + 1
         /\ \A k \in 1 .. Len(h) : Append(h, ok)[k] = h[k]
         /\ Append(h, ok)[Len(h) + 1] = ok
OBVIOUS

(* A counter and the streak that it counts grow together ... *)
LEMMA StreakGrows ==
  ASSUME NEW h \in Seq(BOOLEAN), NEW ok \in BOOLEAN, NEW c \in 0 .. MaxThreshold,
         H!Streak(h, c, ok)
  PROVE  H!Streak(Append(h, ok), H!More(c), ok)
<1> DEFINE n == Len(h)
           g == Append(h, ok)
<1>1. /\ n \in Nat /\ Len(g) = n + 1 /\ MaxThreshold \in Nat
      /\ \A k \in 1 .. n : g[k] = h[k]
      /\ g[n + 1] = ok
  BY Appended, BoundAssumption
<1>2. /\ c <= n /\ \A k \in n - c + 1 .. n : h[k] = ok
      /\ c < MaxThreshold /\ c < n => h[n - c] # ok
  BY DEF H!Streak, H!All
<1> HIDE DEF n, g
<1>3. CASE c < MaxThreshold
  <2>1. H!More(c) = c + 1
    BY <1>3 DEF H!More
  <2>2. \A k \in (n + 1) - (c + 1) + 1 .. n + 1 : g[k] = ok
    BY <1>1, <1>2
  <2>3. ASSUME c + 1 < n + 1 PROVE g[(n + 1) - (c + 1)] # ok
    <3>1. n - c \in 1 .. n /\ (n + 1) - (c + 1) = n - c
      BY <1>1, <1>2, <2>3
    <3> QED
      BY <1>1, <1>2, <1>3, <2>3, <3>1
  <2> QED
    BY <1>1, <1>2, <2>1, <2>2, <2>3 DEF H!Streak, H!All, g
<1>4. CASE ~(c < MaxThreshold)
  <2>1. H!More(c) = c /\ c = MaxThreshold
    BY <1>1, <1>4 DEF H!More
  <2>2. \A k \in (n + 1) - c + 1 .. n + 1 : g[k] = ok
    BY <1>1, <1>2
  <2> QED
    BY <1>1, <1>2, <2>1, <2>2 DEF H!Streak, H!All, g
<1> QED
  BY <1>3, <1>4

(* ... and start again together. *)
LEMMA StreakEnds ==
  ASSUME NEW h \in Seq(BOOLEAN), NEW ok \in BOOLEAN
  PROVE  H!Streak(Append(h, ok), 0, ~ok)
BY Appended DEF H!Streak, H!All

(* A streak is as long as a threshold if the counter has reached it. *)
LEMMA StreakMeetsThreshold ==
  ASSUME NEW h \in Seq(BOOLEAN), NEW ok \in BOOLEAN, NEW c \in 0 .. MaxThreshold,
         H!Streak(h, c, ok), NEW th \in H!Thresholds
  PROVE  c >= th <=> H!All(h, Len(h) - th + 1, Len(h), ok)
<1> DEFINE n == Len(h)
<1>1. /\ n \in Nat /\ MaxThreshold \in Nat /\ th \in 1 .. MaxThreshold
      /\ c <= n /\ \A k \in n - c + 1 .. n : h[k] = ok
      /\ c < MaxThreshold /\ c < n => h[n - c] # ok
  BY BoundAssumption DEF H!Streak, H!All, H!Thresholds
<1> SUFFICES c >= th <=> n - th + 1 >= 1 /\ \A k \in n - th + 1 .. n : h[k] = ok
  BY DEF H!All
<1> HIDE DEF n
<1>2. CASE c >= th
  BY <1>1, <1>2
<1>3. CASE ~(c >= th)
  <2>1. CASE c < n
    BY <1>1, <1>3, <2>1
  <2>2. CASE c = n
    BY <1>1, <1>3, <2>2
  <2> QED
    BY <1>1, <2>1, <2>2
<1> QED
  BY <1>2, <1>3

(* What one more result means for DOWN. *)
LEMMA DownAfter ==
  ASSUME NEW h \in Seq(BOOLEAN), NEW ok \in BOOLEAN,
         NEW f \in H!Thresholds, NEW r \in H!Thresholds, NEW g, g = Append(h, ok)
  PROVE  H!IsDown(g, f, r) <=>
           IF ok THEN H!IsDown(h, f, r) /\ ~H!All(g, Len(g) - r + 1, Len(g), TRUE)
                 ELSE H!IsDown(h, f, r) \/ H!All(g, Len(g) - f + 1, Len(g), FALSE)
<1> DEFINE n == Len(h)
           Fails(x, i)  == H!All(x, i - f + 1, i, FALSE)
           Recovs(x, j) == H!All(x, j - r + 1, j, TRUE)
<1>1. /\ n \in Nat /\ Len(g) = n + 1
      /\ \A k \in 1 .. n : g[k] = h[k]
      /\ g[n + 1] = ok
  BY Appended
<1>2. f \in Nat /\ r \in Nat /\ f >= 1 /\ r >= 1
  BY BoundAssumption DEF H!Thresholds
<1>3. /\ H!IsDown(h, f, r) <=>
           \E i \in 1 .. n : Fails(h, i) /\ ~\E j \in i + r .. n : Recovs(h, j)
      /\ H!IsDown(g, f, r) <=>
           \E i \in 1 .. n + 1 : Fails(g, i) /\ ~\E j \in i + r .. n + 1 : Recovs(g, j)
  BY <1>1 DEF H!IsDown
<1>4. \A i \in 1 .. n : (Fails(g, i) <=> Fails(h, i)) /\ (Recovs(g, i) <=> Recovs(h, i))
  BY <1>1, <1>2 DEF H!All
<1>5. ok => ~Fails(g, n + 1)
  BY <1>1, <1>2 DEF H!All
<1>6. ~ok => ~Recovs(g, n + 1)
  BY <1>1, <1>2 DEF H!All
<1>7. ASSUME NEW i \in 1 .. n, Fails(g, i), Recovs(g, n + 1) PROVE i + r <= n + 1
  BY <1>1, <1>2, <1>7 DEF H!All
<1> HIDE DEF n, Fails, Recovs
<1>8. CASE ok
  <2>1. H!IsDown(g, f, r) => H!IsDown(h, f, r) /\ ~Recovs(g, n + 1)
    <3>1. SUFFICES ASSUME NEW i \in 1 .. n + 1, Fails(g, i),
                          ~\E j \in i + r .. n + 1 : Recovs(g, j)
                   PROVE  H!IsDown(h, f, r) /\ ~Recovs(g, n + 1)
      BY <1>3
    <3>a. i # n + 1
      BY <1>5, <1>8, <3>1
    <3>2. i \in 1 .. n
      BY <1>1, <3>1, <3>a
    <3>3. \A j \in i + r .. n : j \in 1 .. n /\ j \in i + r .. n + 1
      BY <1>1, <1>2, <3>2
    <3>4. ~\E j \in i + r .. n : Recovs(h, j)
      BY <1>4, <3>1, <3>3
    <3>5. ~Recovs(g, n + 1)
      BY <1>1, <1>2, <1>7, <3>1, <3>2
    <3> QED
      BY <1>3, <1>4, <3>1, <3>2, <3>4, <3>5
  <2>2. H!IsDown(h, f, r) /\ ~Recovs(g, n + 1) => H!IsDown(g, f, r)
    <3>1. SUFFICES ASSUME ~Recovs(g, n + 1), NEW i \in 1 .. n, Fails(h, i),
                          ~\E j \in i + r .. n : Recovs(h, j)
                   PROVE  H!IsDown(g, f, r)
      BY <1>3
    <3>2. \A j \in i + r .. n + 1 : j = n + 1 \/ (j \in 1 .. n /\ j \in i + r .. n)
      BY <1>1, <1>2
    <3>3. ~\E j \in i + r .. n + 1 : Recovs(g, j)
      BY <1>4, <3>1, <3>2
    <3> QED
      BY <1>1, <1>3, <1>4, <3>1, <3>3
  <2> QED
    BY <1>1, <1>8, <2>1, <2>2 DEF Recovs
<1>9. CASE ~ok
  <2>1. H!IsDown(g, f, r) => H!IsDown(h, f, r) \/ Fails(g, n + 1)
    <3>1. SUFFICES ASSUME NEW i \in 1 .. n + 1, Fails(g, i), i # n + 1,
                          ~\E j \in i + r .. n + 1 : Recovs(g, j)
                   PROVE  H!IsDown(h, f, r)
      BY <1>3
    <3>2. i \in 1 .. n
      BY <1>1, <3>1
    <3>3. \A j \in i + r .. n : j \in 1 .. n /\ j \in i + r .. n + 1
      BY <1>1, <1>2, <3>2
    <3>4. ~\E j \in i + r .. n : Recovs(h, j)
      BY <1>4, <3>1, <3>3
    <3> QED
      BY <1>3, <1>4, <3>1, <3>2, <3>4
  <2>2. H!IsDown(h, f, r) => H!IsDown(g, f, r)
    <3>1. SUFFICES ASSUME NEW i \in 1 .. n, Fails(h, i),
                          ~\E j \in i + r .. n : Recovs(h, j)
                   PROVE  H!IsDown(g, f, r)
      BY <1>3
    <3>2. \A j \in i + r .. n + 1 : j = n + 1 \/ (j \in 1 .. n /\ j \in i + r .. n)
      BY <1>1, <1>2
    <3>3. ~\E j \in i + r .. n + 1 : Recovs(g, j)
      BY <1>4, <1>6, <1>9, <3>1, <3>2
    <3> QED
      BY <1>1, <1>3, <1>4, <3>1, <3>3
  <2>3. Fails(g, n + 1) => H!IsDown(g, f, r)
    <3>1. n + 1 \in 1 .. n + 1 /\ \A j \in (n + 1) + r .. n + 1 : FALSE
      BY <1>1, <1>2
    <3> QED
      BY <1>3, <3>1
  <2> QED
    BY <1>1, <1>9, <2>1, <2>2, <2>3 DEF Fails
<1> QED
  BY <1>8, <1>9

(* apply_check_result, when the monitor is not paused. *)
LEMMA Applied ==
  ASSUME H!TypeOK, NEW ok \in BOOLEAN, H!Record(ok)
  PROVE  /\ mon'.failTh = mon.failTh /\ mon'.recTh = mon.recTh
         /\ mon'.fails = IF ok THEN 0 ELSE H!More(mon.fails)
         /\ mon'.succs = IF ok THEN H!More(mon.succs) ELSE 0
         /\ mon'.status = IF ok THEN H!AfterSuccess(mon, mon'.succs)
                                ELSE H!AfterFailure(mon, mon'.fails)
         /\ hist' = Append(hist, ok) /\ H!TypeOK'
<1>1. /\ mon \in [status : {"pending", "up", "down"}, fails : 0 .. MaxThreshold,
                  succs : 0 .. MaxThreshold, failTh : H!Thresholds, recTh : H!Thresholds]
      /\ mon' = H!ApplyResult(mon, ok)
      /\ hist' = Append(hist, ok) /\ hist' \in Seq(BOOLEAN)
  BY DEF H!TypeOK, H!Record
<1>2. \A n \in 0 .. MaxThreshold : H!More(n) \in 0 .. MaxThreshold
  BY BoundAssumption DEF H!More
<1>3. 0 \in 0 .. MaxThreshold
  BY BoundAssumption
<1>4. \A n : H!AfterSuccess(mon, n) \in {"pending", "up", "down"}
  BY <1>1 DEF H!AfterSuccess
<1>5. \A n : H!AfterFailure(mon, n) \in {"pending", "up", "down"}
  BY <1>1 DEF H!AfterFailure
<1>6. mon' = IF ok
        THEN [mon EXCEPT !.status = H!AfterSuccess(mon, H!More(mon.succs)),
                         !.fails = 0, !.succs = H!More(mon.succs)]
        ELSE [mon EXCEPT !.status = H!AfterFailure(mon, H!More(mon.fails)),
                         !.fails = H!More(mon.fails), !.succs = 0]
  BY <1>1 DEF H!ApplyResult
<1>7. CASE ok
  BY <1>1, <1>2, <1>3, <1>4, <1>6, <1>7 DEF H!TypeOK
<1>8. CASE ~ok
  BY <1>1, <1>2, <1>3, <1>5, <1>6, <1>8 DEF H!TypeOK
<1> QED
  BY <1>7, <1>8

LEMMA HistoryStep ==
  ASSUME H!HistoryInv, [H!Next]_H!vars
  PROVE  H!HistoryInv'
<1>1. CASE UNCHANGED H!vars
  BY <1>1 DEF H!vars, H!HistoryInv, H!TypeOK, H!CountersFollowHistory, H!StatusFollowsHistory
<1>2. ASSUME NEW ok \in BOOLEAN, H!Record(ok) PROVE H!HistoryInv'
  <2> DEFINE f == mon.failTh
             r == mon.recTh
  <2>1. /\ H!TypeOK' /\ hist' = Append(hist, ok) /\ hist \in Seq(BOOLEAN)
        /\ hist' \in Seq(BOOLEAN) /\ mon'.failTh = f /\ mon'.recTh = r
        /\ f \in H!Thresholds /\ r \in H!Thresholds
        /\ H!Streak(hist, mon.fails, FALSE) /\ H!Streak(hist, mon.succs, TRUE)
        /\ mon.fails \in 0 .. MaxThreshold /\ mon.succs \in 0 .. MaxThreshold
        /\ mon'.fails \in 0 .. MaxThreshold /\ mon'.succs \in 0 .. MaxThreshold
    BY <1>2, Applied DEF H!HistoryInv, H!CountersFollowHistory, H!TypeOK
  <2>2. mon.status = IF H!IsDown(hist, f, r) THEN "down"
                     ELSE IF H!IsPending(hist) THEN "pending" ELSE "up"
    BY DEF H!HistoryInv, H!StatusFollowsHistory
  <2>3. H!IsPending(hist') <=> H!IsPending(hist) /\ ~ok
    BY <2>1, Appended DEF H!IsPending
  <2>4. CASE ok
    <3>1. /\ mon'.fails = 0 /\ mon'.succs = H!More(mon.succs)
          /\ mon'.status = H!AfterSuccess(mon, mon'.succs)
      BY <1>2, <2>4, Applied DEF H!HistoryInv
    <3>2. H!Streak(hist', mon'.fails, FALSE) /\ H!Streak(hist', mon'.succs, TRUE)
      <4>1. H!Streak(hist', 0, ~ok)
        BY <2>1, StreakEnds
      <4>2. H!Streak(hist', H!More(mon.succs), ok)
        BY <2>1, <2>4, StreakGrows
      <4> QED
        BY <2>4, <3>1, <4>1, <4>2
    <3>3. mon'.succs >= r <=> H!All(hist', Len(hist') - r + 1, Len(hist'), TRUE)
      BY <2>1, <3>2, StreakMeetsThreshold
    <3>4. H!IsDown(hist', f, r) <=> H!IsDown(hist, f, r) /\ ~(mon'.succs >= r)
      BY <2>1, <2>4, <3>3, DownAfter
    <3>5. mon'.status = IF H!IsDown(hist', f, r) THEN "down"
                        ELSE IF H!IsPending(hist') THEN "pending" ELSE "up"
      BY <2>2, <2>3, <2>4, <3>1, <3>4 DEF H!AfterSuccess
    <3> QED
      BY <2>1, <3>2, <3>5 DEF H!HistoryInv, H!CountersFollowHistory, H!StatusFollowsHistory
  <2>5. CASE ~ok
    <3>1. /\ mon'.succs = 0 /\ mon'.fails = H!More(mon.fails)
          /\ mon'.status = H!AfterFailure(mon, mon'.fails)
      BY <1>2, <2>5, Applied DEF H!HistoryInv
    <3>2. H!Streak(hist', mon'.fails, FALSE) /\ H!Streak(hist', mon'.succs, TRUE)
      <4>1. H!Streak(hist', 0, ~ok)
        BY <2>1, StreakEnds
      <4>2. H!Streak(hist', H!More(mon.fails), ok)
        BY <2>1, <2>5, StreakGrows
      <4> QED
        BY <2>5, <3>1, <4>1, <4>2
    <3>3. mon'.fails >= f <=> H!All(hist', Len(hist') - f + 1, Len(hist'), FALSE)
      BY <2>1, <3>2, StreakMeetsThreshold
    <3>4. H!IsDown(hist', f, r) <=> H!IsDown(hist, f, r) \/ mon'.fails >= f
      BY <2>1, <2>5, <3>3, DownAfter
    <3>5. mon'.status = IF H!IsDown(hist', f, r) THEN "down"
                        ELSE IF H!IsPending(hist') THEN "pending" ELSE "up"
      BY <2>2, <2>3, <2>5, <3>1, <3>4 DEF H!AfterFailure
    <3> QED
      BY <2>1, <3>2, <3>5 DEF H!HistoryInv, H!CountersFollowHistory, H!StatusFollowsHistory
  <2> QED
    BY <2>4, <2>5
<1> QED
  BY <1>1, <1>2 DEF H!Next

(* Two counters and a status are enough: the status is the one that the
   thresholds define on the whole history. *)
THEOREM HistoryDecides == H!Spec => []StatusFollowsHistory
<1>1. H!Init => H!HistoryInv
  <2> SUFFICES ASSUME H!Init PROVE H!HistoryInv
    OBVIOUS
  <2>1. PICK f \in H!Thresholds, r \in H!Thresholds : mon = H!Pending(f, r)
    BY DEF H!Init
  <2>2. hist = <<>> /\ hist \in Seq(BOOLEAN) /\ Len(hist) = 0
    BY DEF H!Init
  <2>3. /\ mon.status = "pending" /\ mon.fails = 0 /\ mon.succs = 0 /\ H!TypeOK
    BY <2>1, <2>2, BoundAssumption DEF H!Pending, H!TypeOK
  <2>4. H!CountersFollowHistory
    BY <2>2, <2>3 DEF H!CountersFollowHistory, H!Streak, H!All
  <2>5. ~H!IsDown(hist, mon.failTh, mon.recTh) /\ H!IsPending(hist)
    BY <2>2 DEF H!IsDown, H!IsPending
  <2> QED
    BY <2>3, <2>4, <2>5 DEF H!HistoryInv, H!StatusFollowsHistory
<1>2. H!HistoryInv /\ [H!Next]_H!vars => H!HistoryInv'
  BY HistoryStep
<1>3. H!HistoryInv => StatusFollowsHistory
  BY DEF H!HistoryInv, StatusFollowsHistory
<1> QED
  BY <1>1, <1>2, <1>3, PTL DEF H!Spec
=============================================================================
