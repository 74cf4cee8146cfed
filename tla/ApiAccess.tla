----------------------------- MODULE ApiAccess -----------------------------
(***************************************************************************)
(* The requests of the HTTP API that create and delete what belongs to an  *)
(* organization: who may do it (the role of a member, or an API key), which*)
(* rows a request finds, and the locks it holds until it commits.  Each    *)
(* request is one READ COMMITTED transaction on one session.  Changes of   *)
(* settings are in Settings and CheckRecording, status pages in            *)
(* StatusPages, members in Accounts.                                       *)
(***************************************************************************)
EXTENDS Naturals

CONSTANTS Organization, User, Request,
          Monitor, Destination, Key,  \* ids in the tables with organization_id
          Window,  \* ids of maintenance windows, which belong to a monitor
          Home,    \* the organization each of those ids is drawn for
          Parent,  \* the monitor each window is made for
          NoOne    \* no organization, key or row

Owned == Monitor \cup Destination \cup Key
Row   == Owned \cup Window

ASSUME HomeAssumption   == Home \in [Owned -> Organization]
ASSUME ParentAssumption == Parent \in [Window -> Monitor]
ASSUME KindsAssumption  ==
  /\ NoOne \notin Row \cup Organization
  /\ Monitor \cap Window = {} /\ Key \cap (Monitor \cup Window) = {}
  /\ Destination \cap (Monitor \cup Key \cup Window) = {}

HomeOf(x) == IF x \in Window THEN Home[Parent[x]] ELSE Home[x]

(* An owner may do what an admin may: no route asks for more. *)
RoleLevel == [none |-> 0, viewer |-> 10, member |-> 20, admin |-> 30]
Roles     == DOMAIN RoleLevel
KeyRole   == "member"

(* What a request knows.  It has touched its key if UPDATE ... last_used_at
   found the row. *)
Requests ==
  [pc : {"idle", "keyed", "ready", "checked", "written"},
   org : Organization \cup {NoOne}, role : Roles, key : Key \cup {NoOne}, touched : BOOLEAN,
   op : {"none", "create", "delete"}, target : Row \cup {NoOne}]

VARIABLES role,  \* memberships: the role of each user in each organization
          row,   \* each row as committed; ids are not used again
          req    \* what each request knows

vars == <<role, row, req>>

Idle == [pc |-> "idle", org |-> NoOne, role |-> "none", key |-> NoOne,
         touched |-> FALSE, op |-> "none", target |-> NoOne]

Init ==
  /\ role \in [Organization -> [User -> Roles]]
  /\ row = [x \in Row |-> "unborn"]
  /\ req = [r \in Request |-> Idle]

-----------------------------------------------------------------------------
(* Locks, which are held until the transaction ends. *)

Writes(r, op, x) ==
  req[r].pc = "written" /\ req[r].op = op /\ req[r].target = x

(* DELETE waits for whoever has updated or deleted the row or its cascade's,
   or has inserted a row that refers to it. *)
Free(r, x) ==
  \A q \in Request \ {r} :
    /\ ~Writes(q, "delete", x)
    /\ ~(req[q].touched /\ req[q].key = x)
    /\ \A w \in Window :
         Parent[w] = x => ~Writes(q, "create", w) /\ ~Writes(q, "delete", w)
    /\ x \in Window => ~Writes(q, "delete", Parent[x])

-----------------------------------------------------------------------------
(* The organization's context *)

(* get_organization_context with an API key; X-Organization-ID is absent or
   names the key's own organization. *)
BeginKey(r, k) ==
  /\ req[r].pc = "idle" /\ row[k] = "live"
  /\ req' = [req EXCEPT ![r] = [@ EXCEPT !.pc = "keyed", !.org = Home[k],
                                         !.key = k, !.role = KeyRole]]
  /\ UNCHANGED <<role, row>>

(* Mutant: last_used_at is written in a transaction of its own. *)
TouchKey_OwnTransaction(r) ==
  /\ req[r].pc = "keyed"
  /\ req' = [req EXCEPT ![r].pc = "ready", ![r].touched = row[req[r].key] = "live"]
  /\ UNCHANGED <<role, row>>

(* update_last_used waits for the key's row and keeps it; that it finds none
   is not looked at. *)
TouchKey(r) ==
  /\ req[r].pc = "keyed" /\ Free(r, req[r].key)
  /\ req' = [req EXCEPT ![r].pc = "ready", ![r].touched = row[req[r].key] = "live"]
  /\ UNCHANGED <<role, row>>

(* get_organization_context with an access token: the role as it is now. *)
BeginUser(r, u, o) ==
  /\ req[r].pc = "idle" /\ role[o][u] # "none"
  /\ req' = [req EXCEPT ![r] = [@ EXCEPT !.pc = "ready", !.org = o,
                                         !.role = role[o][u]]]
  /\ UNCHANGED <<role, row>>

Requires(r, least) ==
  req[r].pc = "ready" /\ RoleLevel[req[r].role] >= RoleLevel[least]

-----------------------------------------------------------------------------
(* The routes, up to the statement that writes *)

Plan(r, op, x) ==
  /\ req' = [req EXCEPT ![r] = [@ EXCEPT !.pc = "checked", !.op = op, !.target = x]]
  /\ UNCHANGED <<role, row>>

(* Mutant: the row is looked up by its id alone. *)
Found_ById(r, x) == row[x] = "live"

Found(r, x) == row[x] = "live" /\ Home[x] = req[r].org

(* uuid4 in the service: an id nobody has, for the request's organization. *)
NewId(r, S) ==
  \E x \in S :
    /\ row[x] = "unborn" /\ Home[x] = req[r].org
    /\ \A q \in Request : req[q].target # x
    /\ Plan(r, "create", x)

CreateMonitor(r) == Requires(r, "member") /\ NewId(r, Monitor)

DeleteMonitor(r) ==
  Requires(r, "member") /\ \E m \in Monitor : Found(r, m) /\ Plan(r, "delete", m)

CreateDestination(r) == Requires(r, "admin") /\ NewId(r, Destination)

DeleteDestination(r) ==
  Requires(r, "admin") /\ \E d \in Destination : Found(r, d) /\ Plan(r, "delete", d)

CreateKey(r) == Requires(r, "admin") /\ NewId(r, Key)

DeleteKey(r) ==
  Requires(r, "admin") /\ \E k \in Key : Found(r, k) /\ Plan(r, "delete", k)

CreateWindow(r) ==
  /\ Requires(r, "member")
  /\ \E w \in Window : /\ row[w] = "unborn" /\ Found(r, Parent[w])
                       /\ \A q \in Request : req[q].target # w
                       /\ Plan(r, "create", w)

(* MaintenanceWindowService.get: by the window's id, then by its monitor. *)
WindowFound(r, w) == row[w] = "live" /\ Found(r, Parent[w])

DeleteWindow(r) ==
  /\ Requires(r, "member")
  /\ \E w \in Window : WindowFound(r, w) /\ Plan(r, "delete", w)

(* Every other route: it writes none of these rows, but a manual check probes
   its monitor before the transaction ends. *)
OtherRoute(r) ==
  /\ req[r].pc = "ready"
  /\ req' = [req EXCEPT ![r].pc = "written"]
  /\ UNCHANGED <<role, row>>

-----------------------------------------------------------------------------
(* The statements that write, and the end of the transaction *)

Written(r) ==
  /\ req' = [req EXCEPT ![r].pc = "written"]
  /\ UNCHANGED <<role, row>>

Insert(r) ==
  /\ req[r].pc = "checked" /\ req[r].op = "create" /\ req[r].target \in Owned
  /\ Written(r)

(* Mutant: maintenance_windows.monitor_id is no foreign key. *)
InsertWindow_NoReference(r) ==
  /\ req[r].pc = "checked" /\ req[r].op = "create" /\ req[r].target \in Window
  /\ Written(r)

(* The foreign key waits for who deletes the monitor, and refuses without it. *)
InsertWindow(r) ==
  /\ req[r].pc = "checked" /\ req[r].op = "create" /\ req[r].target \in Window
  /\ \A q \in Request : ~Writes(q, "delete", Parent[req[r].target])
  /\ row[Parent[req[r].target]] = "live"
  /\ Written(r)

DeleteRow(r) ==
  /\ req[r].pc = "checked" /\ req[r].op = "delete" /\ Free(r, req[r].target)
  /\ Written(r)

(* ON DELETE CASCADE. *)
Cascade(x) == {x} \cup {w \in Window : Parent[w] = x}

Commit(r) ==
  /\ req[r].pc = "written"
  /\ row' = CASE req[r].op = "create" -> [row EXCEPT ![req[r].target] = "live"]
              [] req[r].op = "delete" ->
                   [x \in Row |-> IF x \in Cascade(req[r].target) /\ row[x] = "live"
                                    THEN "deleted" ELSE row[x]]
              [] OTHER -> row
  /\ req' = [req EXCEPT ![r] = Idle]
  /\ UNCHANGED role

(* Refused, failed, cancelled, or the process is killed. *)
Rollback(r) ==
  /\ req[r].pc # "idle"
  /\ req' = [req EXCEPT ![r] = Idle]
  /\ UNCHANGED <<role, row>>

(* What Accounts does to a membership. *)
RoleChanges(o, u) ==
  /\ \E x \in Roles : role' = [role EXCEPT ![o][u] = x]
  /\ UNCHANGED <<row, req>>

ContextStep(r) ==
  \/ \E k \in Key : BeginKey(r, k)
  \/ TouchKey(r)
  \/ \E u \in User, o \in Organization : BeginUser(r, u, o)

RouteStep(r) ==
  \/ CreateMonitor(r) \/ DeleteMonitor(r)
  \/ CreateDestination(r) \/ DeleteDestination(r)
  \/ CreateKey(r) \/ DeleteKey(r) \/ CreateWindow(r) \/ DeleteWindow(r)
  \/ OtherRoute(r)

WriteStep(r) ==
  Insert(r) \/ InsertWindow(r) \/ DeleteRow(r) \/ Commit(r) \/ Rollback(r)

Next ==
  \/ \E r \in Request : ContextStep(r) \/ RouteStep(r) \/ WriteStep(r)
  \/ \E o \in Organization, u \in User : RoleChanges(o, u)

Spec == Init /\ [][Next]_vars

-----------------------------------------------------------------------------
(* Properties *)

TypeOK ==
  /\ role \in [Organization -> [User -> Roles]]
  /\ row \in [Row -> {"unborn", "live", "deleted"}]
  /\ req \in [Request -> Requests]

(* A maintenance window is one of a monitor that is there, also if it is made
   while somebody deletes the monitor. *)
WindowsHaveMonitors ==
  \A w \in Window : row[w] = "live" => row[Parent[w]] = "live"

(* What a request knows fits: its key has the rights of a member, and what it
   is about to write is of its organization and within its rights. *)
ContextFits(r) ==
  /\ req[r].pc = "idle" => req[r] = Idle
  /\ req[r].pc = "keyed" => req[r].key \in Key /\ ~req[r].touched
  /\ req[r].key \in Key =>
       req[r].org = Home[req[r].key] /\ req[r].role = KeyRole
  /\ req[r].op # "none" =>
       /\ req[r].pc \in {"checked", "written"} /\ req[r].target \in Row
       /\ HomeOf(req[r].target) = req[r].org
       /\ RoleLevel[req[r].role] >= RoleLevel["member"]
       /\ req[r].target \in Destination \cup Key =>
            RoleLevel[req[r].role] >= RoleLevel["admin"]

(* No two requests make one row, and a window about to be committed has its
   monitor. *)
NewRowsFit(r) ==
  req[r].op = "create" =>
    /\ row[req[r].target] = "unborn"
    /\ \A q \in Request \ {r} : req[q].target # req[r].target
    /\ req[r].target \in Window /\ req[r].pc = "written" =>
         row[Parent[req[r].target]] = "live"

(* A row about to be deleted is in nobody else's hands. *)
DeletesAreAlone(r) ==
  \A q \in Request \ {r}, x \in Row : Writes(r, "delete", x) =>
    /\ ~Writes(q, "delete", x)
    /\ ~(req[q].touched /\ req[q].key = x)
    /\ \A w \in Window : Parent[w] = x => ~Writes(q, "create", w)

(* A key that is in use is there, and nobody else uses it: update_last_used
   locks its row to the end of the transaction.  So a key can be deleted only
   when none of its requests is under way, and a request that runs a check keeps
   all others of its key waiting. *)
KeysTakeTurns ==
  \A r \in Request : req[r].touched =>
    /\ req[r].key \in Key /\ row[req[r].key] = "live"
    /\ \A q \in Request \ {r} : ~(req[q].touched /\ req[q].key = req[r].key)

(* The whole inductive invariant: what requests have found and locked still
   holds when they commit, so that no window outlives its monitor. *)
ApiInv ==
  /\ TypeOK /\ WindowsHaveMonitors /\ KeysTakeTurns
  /\ \A r \in Request : ContextFits(r) /\ NewRowsFit(r) /\ DeletesAreAlone(r)

(* Rows of an organization come and go by requests only that were made in that
   organization with the role they take; a key makes and deletes no keys. *)
Entitled(r, x) ==
  /\ req[r].pc = "written" /\ req[r].org = HomeOf(x)
  /\ RoleLevel[req[r].role] >= IF x \in Destination \cup Key THEN 30 ELSE 20
  /\ x \in Destination \cup Key => req[r].key = NoOne

ChangesStayInside ==
  [][\A x \in Row : row'[x] # row[x] => \E r \in Request : Entitled(r, x)]_vars
=============================================================================
