-------------------------- MODULE ApiAccess_proofs --------------------------
(***************************************************************************)
(* Proofs about ApiAccess, for any organizations, users, rows and requests. *)
(* The invariant ApiInv says what a request knows and which locks exclude   *)
(* which; each of its parts is shown to survive a step in a lemma.          *)
(***************************************************************************)
EXTENDS ApiAccess, TLAPS

(* What a route plans is within the rights and the organization of its
   request. *)
Fitting(r, op, x) ==
  /\ op \in {"create", "delete"} /\ x \in Row /\ HomeOf(x) = req[r].org
  /\ RoleLevel[req[r].role] >= RoleLevel["member"]
  /\ x \in Destination \cup Key => RoleLevel[req[r].role] >= RoleLevel["admin"]
  /\ op = "create" => row[x] = "unborn" /\ \A q \in Request : req[q].target # x
  /\ op = "delete" => row[x] = "live"

LEMMA Levels ==
  /\ RoleLevel["member"] = 20 /\ RoleLevel["admin"] = 30 /\ RoleLevel["none"] = 0
  /\ \A x \in Roles : RoleLevel[x] \in Nat
BY DEF RoleLevel, Roles

(* A row of an organization is no window. *)
LEMMA OwnedIsNoWindow ==
  \A x \in Owned : x \notin Window /\ HomeOf(x) = Home[x] /\ x \in Row
BY KindsAssumption DEF Owned, Row, HomeOf

LEMMA RoutesPlan ==
  ASSUME TypeOK, NEW r \in Request, RouteStep(r)
  PROVE  /\ req[r].pc = "ready" /\ UNCHANGED <<role, row>>
         /\ \/ req' = [req EXCEPT ![r].pc = "written"]
            \/ \E op, x : /\ Fitting(r, op, x)
                          /\ req' = [req EXCEPT ![r] = [@ EXCEPT
                               !.pc = "checked", !.op = op, !.target = x]]
<1> USE KindsAssumption, HomeAssumption, ParentAssumption
<1>1. CASE OtherRoute(r)
  BY <1>1 DEF OtherRoute
<1>2. CASE CreateMonitor(r) \/ CreateDestination(r) \/ CreateKey(r)
  <2>1. PICK x \in Owned : /\ row[x] = "unborn" /\ Home[x] = req[r].org
                           /\ \A q \in Request : req[q].target # x
                           /\ Plan(r, "create", x)
                           /\ Requires(r, IF x \in Monitor THEN "member" ELSE "admin")
    BY <1>2 DEF CreateMonitor, CreateDestination, CreateKey, NewId, Owned
  <2>2. Fitting(r, "create", x)
    <3>1. x \in Destination \cup Key => x \notin Monitor
      BY KindsAssumption
    <3>2. RoleLevel[req[r].role] \in Nat
      BY Levels DEF TypeOK, Requests
    <3> QED
      BY <2>1, <3>1, <3>2, Levels, OwnedIsNoWindow DEF Fitting, Requires
  <2> QED
    BY <2>1, <2>2 DEF Plan, Requires
<1>3. CASE DeleteMonitor(r) \/ DeleteDestination(r) \/ DeleteKey(r)
  <2>1. PICK x \in Owned : /\ Found(r, x) /\ Plan(r, "delete", x)
                           /\ Requires(r, IF x \in Monitor THEN "member" ELSE "admin")
    BY <1>3 DEF DeleteMonitor, DeleteDestination, DeleteKey, Owned
  <2>2. Fitting(r, "delete", x)
    <3>1. x \in Destination \cup Key => x \notin Monitor
      BY KindsAssumption
    <3>2. RoleLevel[req[r].role] \in Nat
      BY Levels DEF TypeOK, Requests
    <3> QED
      BY <2>1, <3>1, <3>2, Levels, OwnedIsNoWindow DEF Fitting, Requires, Found
  <2> QED
    BY <2>1, <2>2 DEF Plan, Requires
<1>4. CASE CreateWindow(r)
  <2>1. PICK w \in Window : /\ row[w] = "unborn" /\ Found(r, Parent[w])
                            /\ \A q \in Request : req[q].target # w
                            /\ Plan(r, "create", w) /\ Requires(r, "member")
    BY <1>4 DEF CreateWindow
  <2>2. Fitting(r, "create", w)
    BY <2>1 DEF Fitting, Requires, Found, HomeOf, Row, Owned
  <2> QED
    BY <2>1, <2>2 DEF Plan, Requires
<1>5. CASE DeleteWindow(r)
  <2>1. PICK w \in Window : /\ WindowFound(r, w) /\ Plan(r, "delete", w)
                            /\ Requires(r, "member")
    BY <1>5 DEF DeleteWindow
  <2>2. Fitting(r, "delete", w)
    BY <2>1 DEF Fitting, Requires, WindowFound, Found, HomeOf, Row, Owned
  <2> QED
    BY <2>1, <2>2 DEF Plan, Requires
<1> QED
  BY <1>1, <1>2, <1>3, <1>4, <1>5 DEF RouteStep

(* The steps of a request other than its commit change nothing but what it
   knows itself. *)
LEMMA Steps ==
  ASSUME TypeOK, [Next]_vars
  PROVE  \/ \E r \in Request :
              /\ UNCHANGED <<role, row>>
              /\ \/ \E k \in Key : BeginKey(r, k)
                 \/ TouchKey(r)
                 \/ \E u \in User, o \in Organization : BeginUser(r, u, o)
                 \/ RouteStep(r)
                 \/ Insert(r) \/ InsertWindow(r) \/ DeleteRow(r) \/ Rollback(r)
         \/ \E r \in Request : Commit(r)
         \/ UNCHANGED <<row, req>> /\ role' \in [Organization -> [User -> Roles]]
<1>1. CASE \E o \in Organization, u \in User : RoleChanges(o, u)
  BY <1>1 DEF RoleChanges, TypeOK
<1>2. ASSUME NEW r \in Request, ContextStep(r) \/ RouteStep(r) \/ WriteStep(r),
             ~Commit(r)
      PROVE  UNCHANGED <<role, row>>
  BY <1>2, RoutesPlan DEF ContextStep, WriteStep, BeginKey, TouchKey, BeginUser,
     Insert, InsertWindow, DeleteRow, Written, Rollback
<1>3. CASE UNCHANGED vars
  BY <1>3 DEF vars, TypeOK
<1> QED
  BY <1>1, <1>2, <1>3 DEF Next, ContextStep, WriteStep

-----------------------------------------------------------------------------
(* What one request changes about itself. *)
LEMMA OwnStep ==
  ASSUME ApiInv, NEW r \in Request,
         \/ \E k \in Key : BeginKey(r, k)
         \/ TouchKey(r)
         \/ \E u \in User, o \in Organization : BeginUser(r, u, o)
         \/ RouteStep(r)
         \/ Insert(r) \/ InsertWindow(r) \/ DeleteRow(r) \/ Rollback(r)
         \/ Commit(r)
  PROVE  \E new \in Requests : req' = [req EXCEPT ![r] = new]
<1> USE DEF ApiInv
<1>0. req \in [Request -> Requests] /\ req[r] \in Requests
  BY DEF TypeOK
<1>1. Idle \in Requests
  BY DEF Idle, Requests, Roles, RoleLevel
<1>2. CASE \E k \in Key : BeginKey(r, k)
  <2>1. PICK k \in Key : BeginKey(r, k)
    BY <1>2
  <2>2. Home[k] \in Organization /\ KeyRole \in Roles
    BY HomeAssumption DEF Owned, KeyRole, Roles, RoleLevel
  <2> QED
    BY <1>0, <2>1, <2>2 DEF BeginKey, Requests
<1>3. CASE \E u \in User, o \in Organization : BeginUser(r, u, o)
  <2>1. PICK u \in User, o \in Organization : BeginUser(r, u, o)
    BY <1>3
  <2>2. role[o][u] \in Roles
    BY DEF TypeOK
  <2> QED
    BY <1>0, <2>1, <2>2 DEF BeginUser, Requests
<1>4. CASE TouchKey(r)
  BY <1>0, <1>4 DEF TouchKey, Requests
<1>5. CASE RouteStep(r)
  <2>1. CASE req' = [req EXCEPT ![r].pc = "written"]
    BY <1>0, <2>1 DEF Requests
  <2>2. ASSUME NEW op, NEW x, Fitting(r, op, x),
               req' = [req EXCEPT ![r] = [@ EXCEPT
                         !.pc = "checked", !.op = op, !.target = x]]
        PROVE  \E new \in Requests : req' = [req EXCEPT ![r] = new]
    BY <1>0, <2>2 DEF Requests, Fitting
  <2> QED
    BY <1>5, <2>1, <2>2, RoutesPlan
<1>6. CASE Insert(r) \/ InsertWindow(r) \/ DeleteRow(r)
  BY <1>0, <1>6 DEF Insert, InsertWindow, DeleteRow, Written, Requests
<1>7. CASE Rollback(r) \/ Commit(r)
  BY <1>1, <1>7 DEF Rollback, Commit
<1> QED
  BY <1>2, <1>3, <1>4, <1>5, <1>6, <1>7

(* A commit takes the step that its request has written. *)
LEMMA CommitRows ==
  ASSUME TypeOK, NEW r \in Request, Commit(r), NEW x \in Row
  PROVE  /\ row' \in [Row -> {"unborn", "live", "deleted"}]
         /\ req[r].op = "create" => row'[x] = IF x = req[r].target THEN "live" ELSE row[x]
         /\ req[r].op = "delete" => row'[x] =
              IF x \in Cascade(req[r].target) /\ row[x] = "live" THEN "deleted" ELSE row[x]
         /\ req[r].op = "none" => row'[x] = row[x]
<1>1. req[r].op \in {"none", "create", "delete"} /\ row \in [Row -> {"unborn", "live", "deleted"}]
  BY DEF TypeOK, Requests
<1> QED
  BY <1>1 DEF Commit

LEMMA TypeStep == ApiInv /\ [Next]_vars => TypeOK'
<1> SUFFICES ASSUME ApiInv, [Next]_vars PROVE TypeOK'
  OBVIOUS
<1>1. CASE UNCHANGED <<row, req>> /\ role' \in [Organization -> [User -> Roles]]
  BY <1>1 DEF ApiInv, TypeOK
<1>2. ASSUME NEW r \in Request, Commit(r) PROVE TypeOK'
  <2>1. row' \in [Row -> {"unborn", "live", "deleted"}]
    <3>1. CASE req[r].op = "create"
      BY <1>2, <3>1 DEF Commit, ApiInv, TypeOK
    <3>2. CASE req[r].op = "delete"
      BY <1>2, <3>2 DEF Commit, ApiInv, TypeOK
    <3>3. CASE req[r].op \notin {"create", "delete"}
      BY <1>2, <3>3 DEF Commit, ApiInv, TypeOK
    <3> QED
      BY <3>1, <3>2, <3>3
  <2> QED
    BY <1>2, <2>1, OwnStep DEF ApiInv, TypeOK, Commit
<1> QED
  BY <1>1, <1>2, Steps, OwnStep DEF ApiInv, TypeOK

(* Only TouchKey makes a request hold a key, only DeleteRow and InsertWindow
   make it write what others may wait for. *)
LEMMA StepShape ==
  ASSUME ApiInv, [Next]_vars, ~\E r \in Request : Commit(r)
  PROVE  /\ UNCHANGED row
         /\ \/ UNCHANGED req
            \/ \E r \in Request, new \in Requests :
                 /\ req' = [req EXCEPT ![r] = new]
                 /\ \/ \E k \in Key : BeginKey(r, k)
                    \/ TouchKey(r)
                    \/ \E u \in User, o \in Organization : BeginUser(r, u, o)
                    \/ RouteStep(r)
                    \/ Insert(r) \/ InsertWindow(r) \/ DeleteRow(r) \/ Rollback(r)
BY Steps, OwnStep DEF ApiInv

LEMMA KeepsContext ==
  ASSUME ApiInv, [Next]_vars, NEW q \in Request
  PROVE  ContextFits(q)'
<1> USE DEF ApiInv
<1>0. req \in [Request -> Requests] /\ ContextFits(q)
  BY DEF TypeOK
<1>1. CASE req'[q] = req[q]
  BY <1>0, <1>1 DEF ContextFits
<1>2. CASE req'[q] = Idle
  BY <1>2, KindsAssumption DEF ContextFits, Idle, Row, Owned
<1>3. ASSUME NEW k \in Key, BeginKey(q, k) PROVE ContextFits(q)'
  BY <1>0, <1>3 DEF BeginKey, ContextFits, Idle, Requests
<1>4. ASSUME NEW u \in User, NEW o \in Organization, BeginUser(q, u, o)
      PROVE  ContextFits(q)'
  BY <1>0, <1>4, KindsAssumption DEF BeginUser, ContextFits, Idle, Requests, Row, Owned
<1>5. CASE TouchKey(q)
  BY <1>0, <1>5 DEF TouchKey, ContextFits, Requests
<1>6. CASE RouteStep(q)
  <2>1. CASE req' = [req EXCEPT ![q].pc = "written"]
    BY <1>0, <1>6, <2>1, RoutesPlan DEF ContextFits, Requests
  <2>2. ASSUME NEW op, NEW x, Fitting(q, op, x),
               req' = [req EXCEPT ![q] = [@ EXCEPT
                         !.pc = "checked", !.op = op, !.target = x]]
        PROVE  ContextFits(q)'
    BY <1>0, <2>2 DEF ContextFits, Requests, Fitting
  <2> QED
    BY <1>6, <2>1, <2>2, RoutesPlan
<1>7. CASE Insert(q) \/ InsertWindow(q) \/ DeleteRow(q)
  BY <1>0, <1>7 DEF Insert, InsertWindow, DeleteRow, Written, ContextFits, Requests
<1>8. ASSUME NEW r \in Request, r # q, NEW new, req' = [req EXCEPT ![r] = new]
      PROVE  req'[q] = req[q]
  BY <1>0, <1>8
<1>9. ASSUME NEW r \in Request, Commit(r) PROVE ContextFits(q)'
  BY <1>0, <1>1, <1>2, <1>9 DEF Commit
<1> QED
  BY <1>0, <1>1, <1>2, <1>3, <1>4, <1>5, <1>6, <1>7, <1>8, <1>9, StepShape
     DEF Rollback

(* A request that gets its context holds no key and writes nothing yet. *)
LEMMA BeginEffect ==
  ASSUME ApiInv, NEW r \in Request,
         \/ \E k \in Key : BeginKey(r, k)
         \/ \E u \in User, o \in Organization : BeginUser(r, u, o)
  PROVE  ~req'[r].touched /\ req'[r].pc \in {"keyed", "ready"}
<1>0. req \in [Request -> Requests] /\ ContextFits(r)
  BY DEF ApiInv, TypeOK
<1>1. req[r].pc = "idle"
  BY DEF BeginKey, BeginUser
<1>2. req[r].touched = FALSE
  BY <1>0, <1>1 DEF ContextFits, Idle
<1>3. ASSUME NEW k \in Key, BeginKey(r, k)
      PROVE  ~req'[r].touched /\ req'[r].pc \in {"keyed", "ready"}
  <2>1. req'[r].touched = req[r].touched /\ req'[r].pc = "keyed"
    BY <1>0, <1>3 DEF BeginKey, Requests
  <2> QED
    BY <1>2, <2>1
<1>4. ASSUME NEW u \in User, NEW o \in Organization, BeginUser(r, u, o)
      PROVE  ~req'[r].touched /\ req'[r].pc \in {"keyed", "ready"}
  <2>1. req'[r].touched = req[r].touched /\ req'[r].pc = "ready"
    BY <1>0, <1>4 DEF BeginUser, Requests
  <2> QED
    BY <1>2, <2>1
<1> QED
  BY <1>3, <1>4

(* A route leaves the key as it is and writes nothing yet. *)
LEMMA RouteEffect ==
  ASSUME ApiInv, NEW r \in Request, RouteStep(r)
  PROVE  /\ req'[r].touched = req[r].touched /\ req'[r].key = req[r].key
         /\ req'[r].pc = "checked" \/ (req'[r].pc = "written" /\ req'[r].op = "none")
<1>0. req \in [Request -> Requests] /\ ContextFits(r) /\ TypeOK
  BY DEF ApiInv, TypeOK
<1>1. CASE req' = [req EXCEPT ![r].pc = "written"]
  <2>1. req[r].pc = "ready"
    BY <1>0, RoutesPlan
  <2>2. req[r].op = "none"
    BY <1>0, <2>1 DEF ContextFits
  <2> QED
    BY <1>0, <1>1, <2>2 DEF Requests
<1>2. ASSUME NEW op, NEW x, Fitting(r, op, x),
             req' = [req EXCEPT ![r] = [@ EXCEPT
                       !.pc = "checked", !.op = op, !.target = x]]
      PROVE  /\ req'[r].touched = req[r].touched /\ req'[r].key = req[r].key
             /\ req'[r].pc = "checked" \/ (req'[r].pc = "written" /\ req'[r].op = "none")
  BY <1>0, <1>2 DEF Requests
<1> QED
  BY <1>0, <1>1, <1>2, RoutesPlan

(* A key's row is taken by update_last_used when nobody else holds it, and is
   not deleted meanwhile. *)
LEMMA KeepsKeys ==
  ASSUME ApiInv, [Next]_vars
  PROVE  KeysTakeTurns'
<1> USE DEF ApiInv
<1>0. /\ req \in [Request -> Requests] /\ KeysTakeTurns
      /\ \A r \in Request : ContextFits(r) /\ NewRowsFit(r) /\ DeletesAreAlone(r)
  BY DEF TypeOK
<1>1. ASSUME NEW r \in Request, Commit(r) PROVE KeysTakeTurns'
  <2>1. SUFFICES ASSUME NEW p \in Request, req'[p].touched
                 PROVE  /\ req'[p].key \in Key /\ row'[req'[p].key] = "live"
                        /\ \A q \in Request \ {p} :
                             ~(req'[q].touched /\ req'[q].key = req'[p].key)
    BY DEF KeysTakeTurns
  <2>2. p # r /\ req'[p] = req[p]
    BY <1>0, <1>1, <2>1 DEF Commit, Idle
  <2>3. /\ req[p].key \in Key /\ row[req[p].key] = "live"
        /\ \A q \in Request \ {p} : ~(req[q].touched /\ req[q].key = req[p].key)
    BY <1>0, <2>1, <2>2 DEF KeysTakeTurns
  <2>4. \A q \in Request \ {p} : ~(req'[q].touched /\ req'[q].key = req'[p].key)
    BY <1>0, <1>1, <2>2, <2>3 DEF Commit, Idle
  <2>5. req[p].key \in Row /\ req[p].key \notin Window
    BY <2>3, KindsAssumption DEF Row, Owned
  <2>6. ASSUME req[r].op = "delete" PROVE req[p].key \notin Cascade(req[r].target)
    <3>1. ~Writes(r, "delete", req[p].key)
      BY <1>0, <2>1, <2>2, <2>5 DEF DeletesAreAlone
    <3> QED
      BY <1>1, <2>5, <2>6, <3>1 DEF Writes, Cascade, Commit
  <2>7. row'[req[p].key] = "live"
    BY <1>0, <1>1, <2>3, <2>5, <2>6, CommitRows DEF Requests
  <2> QED
    BY <2>2, <2>3, <2>4, <2>7
<1>2. ASSUME NEW r \in Request, TouchKey(r) PROVE KeysTakeTurns'
  BY <1>0, <1>2 DEF TouchKey, Free, KeysTakeTurns, ContextFits, Requests
<1>3. ASSUME NEW r \in Request, NEW new \in Requests, UNCHANGED row,
             req' = [req EXCEPT ![r] = new],
             ~new.touched \/ (new.touched = req[r].touched /\ new.key = req[r].key)
      PROVE  KeysTakeTurns'
  BY <1>0, <1>3 DEF KeysTakeTurns
<1>4. ASSUME NEW r \in Request, NEW new \in Requests, req' = [req EXCEPT ![r] = new],
             \/ \E k \in Key : BeginKey(r, k)
             \/ \E u \in User, o \in Organization : BeginUser(r, u, o)
             \/ RouteStep(r)
             \/ Insert(r) \/ InsertWindow(r) \/ DeleteRow(r) \/ Rollback(r)
      PROVE  ~new.touched \/ (new.touched = req[r].touched /\ new.key = req[r].key)
  <2>1. new = req'[r]
    BY <1>0, <1>4
  <2>2. CASE (\E k \in Key : BeginKey(r, k)) \/ \E u \in User, o \in Organization : BeginUser(r, u, o)
    BY <2>1, <2>2, BeginEffect
  <2>3. CASE RouteStep(r)
    BY <2>1, <2>3, RouteEffect
  <2>4. CASE Insert(r) \/ InsertWindow(r) \/ DeleteRow(r) \/ Rollback(r)
    BY <1>0, <2>1, <2>4 DEF Insert, InsertWindow, DeleteRow, Rollback, Written, Idle, Requests
  <2> QED
    BY <1>4, <2>2, <2>3, <2>4
<1>5. CASE UNCHANGED <<row, req>>
  BY <1>0, <1>5 DEF KeysTakeTurns
<1> QED
  BY <1>1, <1>2, <1>3, <1>4, <1>5, StepShape

(* What a request newly writes or holds. *)
LEMMA NewWrites ==
  ASSUME ApiInv, [Next]_vars, ~\E r \in Request : Commit(r),
         NEW q \in Request, NEW op, NEW x, Writes(q, op, x)', op # "none"
  PROVE  \/ Writes(q, op, x)
         \/ op = "create" /\ x \in Owned
         \/ InsertWindow(q) /\ op = "create" /\ x = req[q].target
         \/ DeleteRow(q) /\ op = "delete" /\ x = req[q].target
<1> USE DEF ApiInv
<1>0. req \in [Request -> Requests] /\ ContextFits(q)
  BY DEF TypeOK
<1>1. CASE req'[q] = req[q]
  BY <1>1 DEF Writes
<1>2. CASE TouchKey(q) \/ Rollback(q)
  BY <1>0, <1>2 DEF TouchKey, Rollback, Writes, Idle, Requests
<1>3. CASE \/ \E k \in Key : BeginKey(q, k)
           \/ \E u \in User, o \in Organization : BeginUser(q, u, o)
           \/ RouteStep(q)
  BY <1>3, BeginEffect, RouteEffect DEF Writes
<1>4. CASE Insert(q) \/ InsertWindow(q) \/ DeleteRow(q)
  BY <1>0, <1>4 DEF Insert, InsertWindow, DeleteRow, Written, Writes, Requests
<1> QED
  BY <1>0, <1>1, <1>2, <1>3, <1>4, StepShape

LEMMA NewHolds ==
  ASSUME ApiInv, [Next]_vars, ~\E r \in Request : Commit(r),
         NEW q \in Request, req'[q].touched
  PROVE  \/ req[q].touched /\ req'[q].key = req[q].key
         \/ TouchKey(q) /\ req'[q].key = req[q].key
<1> USE DEF ApiInv
<1>0. req \in [Request -> Requests] /\ ContextFits(q)
  BY DEF TypeOK
<1>2. CASE TouchKey(q) \/ Rollback(q)
  BY <1>0, <1>2 DEF TouchKey, Rollback, Idle, Requests
<1>3. CASE \/ \E k \in Key : BeginKey(q, k)
           \/ \E u \in User, o \in Organization : BeginUser(q, u, o)
           \/ RouteStep(q)
  BY <1>3, BeginEffect, RouteEffect
<1>4. CASE Insert(q) \/ InsertWindow(q) \/ DeleteRow(q)
  BY <1>0, <1>4 DEF Insert, InsertWindow, DeleteRow, Written, Requests
<1>5. CASE req'[q] = req[q]
  BY <1>5
<1> QED
  BY <1>0, <1>2, <1>3, <1>4, <1>5, StepShape

(* DELETE waits for the others, and they wait for it. *)
LEMMA KeepsDeletesAlone ==
  ASSUME ApiInv, [Next]_vars, NEW r \in Request
  PROVE  DeletesAreAlone(r)'
<1> USE DEF ApiInv
<1>0. req \in [Request -> Requests] /\ \A p \in Request : DeletesAreAlone(p)
  BY DEF TypeOK
<1>1. ASSUME NEW p \in Request, Commit(p) PROVE DeletesAreAlone(r)'
  <2>1. \A q \in Request : req'[q] = Idle \/ req'[q] = req[q]
    BY <1>0, <1>1 DEF Commit
  <2>2. \A x : \A q \in Request, op \in {"create", "delete"} :
          Writes(q, op, x)' => Writes(q, op, x)
    BY <2>1 DEF Writes, Idle
  <2>3. \A q \in Request : req'[q].touched => req[q].touched /\ req'[q].key = req[q].key
    BY <2>1 DEF Idle
  <2> QED
    BY <1>0, <2>2, <2>3 DEF DeletesAreAlone
<1>2. ASSUME ~\E p \in Request : Commit(p), NEW q \in Request \ {r}, NEW x \in Row,
             Writes(r, "delete", x)'
      PROVE  /\ ~Writes(q, "delete", x)'
             /\ ~(req'[q].touched /\ req'[q].key = x)
             /\ \A w \in Window : Parent[w] = x => ~Writes(q, "create", w)'
  <2>1. Writes(r, "delete", x) \/ (DeleteRow(r) /\ x = req[r].target)
    BY <1>2, NewWrites
  <2>2. UNCHANGED req \/ \E p \in Request, new \in Requests : req' = [req EXCEPT ![p] = new]
    BY <1>2, StepShape
  <2>3. CASE DeleteRow(r) /\ x = req[r].target
    <3>1. req'[q] = req[q] /\ Free(r, x)
      BY <1>0, <2>3 DEF DeleteRow, Written
    <3>2. /\ ~Writes(q, "delete", x) /\ ~(req[q].touched /\ req[q].key = x)
          /\ \A w \in Window : Parent[w] = x => ~Writes(q, "create", w)
      BY <3>1 DEF Free
    <3> QED
      BY <3>1, <3>2 DEF Writes
  <2>4. CASE Writes(r, "delete", x)
    <3>1. /\ ~Writes(q, "delete", x) /\ ~(req[q].touched /\ req[q].key = x)
          /\ \A w \in Window : Parent[w] = x => ~Writes(q, "create", w)
      BY <1>0, <2>4 DEF DeletesAreAlone
    <3>2. ~Writes(q, "delete", x)'
      <4>1. DeleteRow(q) /\ x = req[q].target => FALSE
        BY <2>4 DEF DeleteRow, Free
      <4> QED
        BY <1>2, <3>1, <4>1, NewWrites
    <3>3. ~(req'[q].touched /\ req'[q].key = x)
      <4>1. TouchKey(q) /\ req[q].key = x => FALSE
        BY <2>4 DEF TouchKey, Free
      <4> QED
        BY <1>2, <3>1, <4>1, NewHolds
    <3>4. ASSUME NEW w \in Window, Parent[w] = x PROVE ~Writes(q, "create", w)'
      <4>1. InsertWindow(q) /\ w = req[q].target => FALSE
        BY <2>4, <3>4 DEF InsertWindow
      <4>2. w \notin Owned
        BY OwnedIsNoWindow
      <4> QED
        BY <1>2, <3>1, <3>4, <4>1, <4>2, NewWrites
    <3> QED
      BY <3>2, <3>3, <3>4
  <2> QED
    BY <2>1, <2>3, <2>4
<1> QED
  BY <1>1, <1>2 DEF DeletesAreAlone

(* What a route is about to make nobody else makes, and it is not there yet. *)
LEMMA KeepsTargets ==
  ASSUME ApiInv, [Next]_vars, NEW r \in Request, req'[r].op = "create"
  PROVE  /\ row'[req'[r].target] = "unborn"
         /\ \A q \in Request \ {r} : req'[q].target # req'[r].target
<1> USE DEF ApiInv
<1>0. /\ req \in [Request -> Requests] /\ TypeOK
      /\ \A p \in Request : NewRowsFit(p) /\ ContextFits(p)
  BY DEF TypeOK
<1>a. NoOne \notin Row
  BY KindsAssumption
<1>1. ASSUME req'[r] = req[r],
             \A q \in Request \ {r} : req'[q].target \in {req[q].target, NoOne},
             row'[req[r].target] = row[req[r].target]
      PROVE  /\ row'[req'[r].target] = "unborn"
             /\ \A q \in Request \ {r} : req'[q].target # req'[r].target
  <2>1. /\ row[req[r].target] = "unborn" /\ req[r].target \in Row
        /\ \A q \in Request \ {r} : req[q].target # req[r].target
    BY <1>0, <1>1 DEF NewRowsFit, ContextFits
  <2> QED
    BY <1>1, <1>a, <2>1
<1>2. ASSUME NEW p \in Request, Commit(p)
      PROVE  /\ row'[req'[r].target] = "unborn"
             /\ \A q \in Request \ {r} : req'[q].target # req'[r].target
  <2>1. p # r /\ req'[r] = req[r]
    BY <1>0, <1>2 DEF Commit, Idle
  <2>2. req[r].target \in Row /\ req[r].op = "create"
    BY <1>0, <2>1 DEF ContextFits
  <2>3. row[req[r].target] = "unborn" /\ req[p].target # req[r].target
    BY <1>0, <2>1, <2>2 DEF NewRowsFit
  <2>4. req[p].op \in {"none", "create", "delete"}
    BY <1>0 DEF Requests
  <2>5. row'[req[r].target] = row[req[r].target]
    BY <1>0, <1>2, <2>2, <2>3, <2>4, CommitRows
  <2>6. \A q \in Request \ {r} : req'[q].target \in {req[q].target, NoOne}
    BY <1>0, <1>2 DEF Commit, Idle
  <2> QED
    BY <1>1, <2>1, <2>5, <2>6
<1>3. ASSUME NEW p \in Request, UNCHANGED row,
             \/ \E k \in Key : BeginKey(p, k)
             \/ TouchKey(p)
             \/ \E u \in User, o \in Organization : BeginUser(p, u, o)
             \/ Insert(p) \/ InsertWindow(p) \/ DeleteRow(p) \/ Rollback(p)
             \/ req' = [req EXCEPT ![p].pc = "written"]
      PROVE  /\ row'[req'[r].target] = "unborn"
             /\ \A q \in Request \ {r} : req'[q].target # req'[r].target
  <2>1. /\ \A q \in Request : req'[q].target \in {req[q].target, NoOne}
        /\ \A q \in Request \ {p} : req'[q] = req[q]
        /\ req'[p].op = "create" => req[p].op = "create" /\ req'[p].target = req[p].target
    <3>1. CASE Rollback(p)
      BY <1>0, <3>1 DEF Rollback, Idle
    <3>2. CASE TouchKey(p) \/ req' = [req EXCEPT ![p].pc = "written"]
      BY <1>0, <3>2 DEF TouchKey, Requests
    <3>3. CASE Insert(p) \/ InsertWindow(p) \/ DeleteRow(p)
      BY <1>0, <3>3 DEF Insert, InsertWindow, DeleteRow, Written, Requests
    <3>4. ASSUME NEW k \in Key, BeginKey(p, k)
          PROVE  req'[p].target = req[p].target /\ req'[p].op = req[p].op
      BY <1>0, <3>4 DEF BeginKey, Requests
    <3>5. ASSUME NEW u \in User, NEW o \in Organization, BeginUser(p, u, o)
          PROVE  req'[p].target = req[p].target /\ req'[p].op = req[p].op
      BY <1>0, <3>5 DEF BeginUser, Requests
    <3>6. \A q \in Request \ {p} :
            (\E k \in Key : BeginKey(p, k))
              \/ (\E u \in User, o \in Organization : BeginUser(p, u, o))
              => req'[q] = req[q]
      BY <1>0 DEF BeginKey, BeginUser
    <3> QED
      BY <1>3, <3>1, <3>2, <3>3, <3>4, <3>5, <3>6
  <2>2. /\ req[r].op = "create" /\ req'[r].target = req[r].target
    BY <2>1
  <2>3. /\ row[req[r].target] = "unborn" /\ req[r].target \in Row
        /\ \A q \in Request \ {r} : req[q].target # req[r].target
    BY <1>0, <2>2 DEF NewRowsFit, ContextFits
  <2> QED
    BY <1>3, <1>a, <2>1, <2>2, <2>3
<1>4. ASSUME NEW p \in Request, NEW op, NEW x, Fitting(p, op, x), UNCHANGED row,
             req' = [req EXCEPT ![p] = [@ EXCEPT
                       !.pc = "checked", !.op = op, !.target = x]]
      PROVE  /\ row'[req'[r].target] = "unborn"
             /\ \A q \in Request \ {r} : req'[q].target # req'[r].target
  <2>1. req'[p].op = op /\ req'[p].target = x /\ \A q \in Request \ {p} : req'[q] = req[q]
    BY <1>0, <1>4 DEF Requests
  <2>2. CASE p = r
    BY <1>4, <2>1, <2>2 DEF Fitting
  <2>3. CASE p # r
    <3>1. /\ req[r].op = "create" /\ row[req[r].target] = "unborn"
          /\ \A q \in Request \ {r} : req[q].target # req[r].target
      BY <1>0, <2>1, <2>3 DEF NewRowsFit
    <3>2. x # req[r].target
      BY <1>4, <3>1 DEF Fitting
    <3> QED
      BY <1>4, <2>1, <2>3, <3>1, <3>2
  <2> QED
    BY <2>2, <2>3
<1>5. CASE UNCHANGED <<row, req>>
  BY <1>0, <1>5 DEF NewRowsFit
<1>6. ASSUME NEW p \in Request, RouteStep(p), UNCHANGED row
      PROVE  /\ row'[req'[r].target] = "unborn"
             /\ \A q \in Request \ {r} : req'[q].target # req'[r].target
  BY <1>0, <1>3, <1>4, <1>6, RoutesPlan
<1> QED
  BY <1>2, <1>3, <1>5, <1>6, StepShape

(* The monitor of a window that is about to be committed is not deleted. *)
LEMMA KeepsNewRows ==
  ASSUME ApiInv, [Next]_vars, NEW r \in Request
  PROVE  NewRowsFit(r)'
<1> USE DEF ApiInv
<1>0. /\ req \in [Request -> Requests] /\ TypeOK
      /\ \A p \in Request : NewRowsFit(p) /\ ContextFits(p) /\ DeletesAreAlone(p)
  BY DEF TypeOK
<1>1. SUFFICES ASSUME NEW w \in Window, req'[r].op = "create",
                      req'[r].target = w, req'[r].pc = "written"
               PROVE  row'[Parent[w]] = "live"
  BY KeepsTargets DEF NewRowsFit
<1>2. Parent[w] \in Row /\ Parent[w] \notin Window
  BY <1>1, ParentAssumption, KindsAssumption DEF Row, Owned
<1>3. CASE \E p \in Request : Commit(p)
  <2>1. PICK p \in Request : Commit(p)
    BY <1>3
  <2>2. p # r /\ req'[r] = req[r]
    BY <1>0, <1>1, <2>1 DEF Commit, Idle
  <2>3. row[Parent[w]] = "live" /\ Writes(r, "create", w)
    BY <1>0, <1>1, <2>2 DEF NewRowsFit, Writes
  <2>4. ~Writes(p, "delete", Parent[w])
    BY <1>0, <1>1, <1>2, <2>2, <2>3 DEF DeletesAreAlone
  <2>5. req[p].op = "delete" => Parent[w] \notin Cascade(req[p].target)
    BY <1>2, <2>1, <2>4 DEF Cascade, Writes, Commit
  <2>6. req[p].op \in {"none", "create", "delete"}
    BY <1>0 DEF Requests
  <2> QED
    BY <1>0, <1>2, <2>1, <2>3, <2>5, <2>6, CommitRows
<1>4. CASE ~\E p \in Request : Commit(p)
  <2>1. Writes(r, "create", w)'
    BY <1>1 DEF Writes
  <2>2. w \notin Owned
    BY <1>1, OwnedIsNoWindow
  <2>3. Writes(r, "create", w) \/ (InsertWindow(r) /\ w = req[r].target)
    BY <1>4, <2>1, <2>2, NewWrites
  <2>4. row[Parent[w]] = "live"
    BY <1>0, <1>1, <2>3 DEF NewRowsFit, Writes, InsertWindow
  <2> QED
    BY <1>4, <2>4, StepShape
<1> QED
  BY <1>3, <1>4

LEMMA KeepsWindows ==
  ASSUME ApiInv, [Next]_vars
  PROVE  WindowsHaveMonitors'
<1> USE DEF ApiInv
<1>0. /\ req \in [Request -> Requests] /\ TypeOK /\ WindowsHaveMonitors
      /\ \A p \in Request : NewRowsFit(p) /\ ContextFits(p)
  BY DEF TypeOK
<1>1. CASE ~\E p \in Request : Commit(p)
  BY <1>0, <1>1, StepShape DEF WindowsHaveMonitors
<1>2. ASSUME NEW p \in Request, Commit(p), NEW w \in Window, row'[w] = "live"
      PROVE  row'[Parent[w]] = "live"
  <2>1. w \in Row /\ Parent[w] \in Row /\ Parent[w] \notin Window
    BY ParentAssumption, KindsAssumption DEF Row, Owned
  <2>2. req[p].op \in {"none", "create", "delete"}
    BY <1>0 DEF Requests
  <2>3. CASE req[p].op = "create"
    <3>1. row'[Parent[w]] = "live" \/ row'[Parent[w]] = row[Parent[w]]
      BY <1>0, <1>2, <2>1, <2>3, CommitRows
    <3>2. row[w] = "live" \/ w = req[p].target
      BY <1>0, <1>2, <2>1, <2>3, CommitRows
    <3>3. row[Parent[w]] = "live"
      BY <1>0, <1>2, <2>3, <3>2 DEF WindowsHaveMonitors, NewRowsFit, Commit
    <3> QED
      BY <3>1, <3>3
  <2>4. CASE req[p].op = "delete"
    <3>1. row[w] = "live" /\ w \notin Cascade(req[p].target)
      BY <1>0, <1>2, <2>1, <2>4, CommitRows
    <3>2. Parent[w] \notin Cascade(req[p].target)
      BY <2>1, <3>1 DEF Cascade
    <3> QED
      BY <1>0, <1>2, <2>1, <2>4, <3>1, <3>2, CommitRows DEF WindowsHaveMonitors
  <2>5. CASE req[p].op = "none"
    BY <1>0, <1>2, <2>1, <2>5, CommitRows DEF WindowsHaveMonitors
  <2> QED
    BY <2>2, <2>3, <2>4, <2>5
<1> QED
  BY <1>1, <1>2 DEF WindowsHaveMonitors

-----------------------------------------------------------------------------
(* ApiInv holds always: of what a request has found, what its commit depends
   on is locked by then. *)
THEOREM ApiInvariant == Spec => []ApiInv
<1>1. Init => ApiInv
  <2> SUFFICES ASSUME Init PROVE ApiInv
    OBVIOUS
  <2>1. \A r \in Request : req[r] = Idle
    BY DEF Init
  <2>2. Idle \in Requests /\ NoOne \notin Key
    BY KindsAssumption DEF Idle, Requests, Roles, RoleLevel, Row, Owned
  <2>3. TypeOK
    BY <2>2 DEF Init, TypeOK
  <2>4. WindowsHaveMonitors
    BY DEF Init, WindowsHaveMonitors, Row
  <2>5. KeysTakeTurns
    BY <2>1 DEF KeysTakeTurns, Idle
  <2>6. ASSUME NEW r \in Request
        PROVE  ContextFits(r) /\ NewRowsFit(r) /\ DeletesAreAlone(r)
    <3>1. req[r].pc = "idle" /\ req[r].op = "none" /\ req[r].key = NoOne
      BY <2>1 DEF Idle
    <3>2. ContextFits(r)
      BY <2>1, <2>2, <3>1 DEF ContextFits
    <3>3. NewRowsFit(r)
      BY <3>1 DEF NewRowsFit
    <3>4. DeletesAreAlone(r)
      BY <3>1 DEF DeletesAreAlone, Writes
    <3> QED
      BY <3>2, <3>3, <3>4
  <2> QED
    BY <2>3, <2>4, <2>5, <2>6 DEF ApiInv
<1>2. ApiInv /\ [Next]_vars => ApiInv'
  BY TypeStep, KeepsWindows, KeepsKeys, KeepsContext, KeepsNewRows, KeepsDeletesAlone
     DEF ApiInv
<1> QED
  BY <1>1, <1>2, PTL DEF Spec

(* The rows of API keys are held for the whole of a request: update_last_used
   and the request commit together. *)
THEOREM KeysWait == Spec => []KeysTakeTurns
<1>1. ApiInv => KeysTakeTurns
  BY DEF ApiInv
<1> QED
  BY <1>1, ApiInvariant, PTL

(* The routes' checks of the role and of organization_id hold for what is
   finally written, the windows that a monitor takes with it included. *)
THEOREM ChangesInside == Spec => ChangesStayInside
<1>1. ASSUME ApiInv, [Next]_vars
      PROVE  [\A x \in Row : row'[x] # row[x] => \E r \in Request : Entitled(r, x)]_vars
  <2>0. /\ req \in [Request -> Requests] /\ TypeOK
        /\ \A p \in Request : NewRowsFit(p) /\ ContextFits(p)
    BY <1>1 DEF ApiInv, TypeOK
  <2>1. SUFFICES ASSUME NEW x \in Row, row'[x] # row[x]
                 PROVE  \E r \in Request : Entitled(r, x)
    OBVIOUS
  <2>2. PICK r \in Request : Commit(r)
    BY <1>1, <2>1, StepShape
  <2>3. req[r].op \in {"create", "delete"} /\ x \in Cascade(req[r].target)
    <3>1. req[r].op \in {"none", "create", "delete"}
      BY <2>0 DEF Requests
    <3> QED
      BY <2>0, <2>1, <2>2, <3>1, CommitRows DEF Cascade
  <2>4. /\ HomeOf(req[r].target) = req[r].org /\ req[r].target \in Row
        /\ RoleLevel[req[r].role] >= 20
        /\ req[r].target \in Destination \cup Key => RoleLevel[req[r].role] >= 30
        /\ req[r].key \in Key => req[r].role = KeyRole
    BY <2>0, <2>3, Levels DEF ContextFits
  <2>5. x = req[r].target \/ (x \in Window /\ Parent[x] = req[r].target)
    BY <2>3 DEF Cascade
  <2>6. HomeOf(x) = req[r].org
    BY <2>4, <2>5, KindsAssumption, ParentAssumption DEF HomeOf
  <2>7. x \in Destination \cup Key => x = req[r].target
    BY <2>5, KindsAssumption
  <2>8. x \in Destination \cup Key => req[r].key = NoOne
    <3>1. ~(RoleLevel[KeyRole] >= 30)
      BY Levels DEF KeyRole
    <3>2. req[r].key \in Key \cup {NoOne}
      BY <2>0 DEF Requests
    <3> QED
      BY <2>4, <2>7, <3>1, <3>2
  <2>9. req[r].pc = "written"
    BY <2>2 DEF Commit
  <2> QED
    BY <2>4, <2>6, <2>7, <2>8, <2>9 DEF Entitled
<1> QED
  BY <1>1, ApiInvariant, PTL DEF Spec, ChangesStayInside
=============================================================================
