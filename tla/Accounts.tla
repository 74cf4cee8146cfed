------------------------------ MODULE Accounts ------------------------------
(***************************************************************************)
(* Users, organizations and memberships: registration, the command that    *)
(* creates the first administrator, new organizations, and the requests of *)
(* owners and admins that add, change and remove members.  Each request is *)
(* one READ COMMITTED transaction; the actor's role is read when it starts.*)
(***************************************************************************)
EXTENDS Naturals, FiniteSets

CONSTANTS User,          \* email addresses; users holds those registered
          Organization,  \* ids; the ones nobody has founded are not in use
          Default,       \* DEFAULT_ORGANIZATION_ID
          Request,       \* API requests and commands under way at a time
          NoOne          \* holder of a free lock, user of an idle request

ASSUME DefaultAssumption == Default \in Organization
ASSUME NoOneAssumption == NoOne \notin Request \cup User

(* A viewer's rights over members are those of a member: none. *)
Roles   == {"member", "admin", "owner"}
Kinds   == {"add", "change", "remove", "register", "bootstrap"}
Phases  == {"idle", "start", "insert", "locked", "write", "command", "adopt",
            "create"}

(* What a request knows: the role its actor had, and whom it gives which role. *)
Tx == [kind : Kinds, pc : Phases, org : Organization, who : User \cup {NoOne},
       new : Roles \cup {"none"}, actor : Roles \cup {"none"}]

VARIABLES users,     \* registered users
          role,      \* memberships: the role of each user, "none" without one
          founders,  \* history: who became OWNER of an organization by founding it
          boots,     \* history: users created by bootstrap-admin
          hasDefault,\* older installations have a default organization
          lock,      \* row locks (FOR UPDATE) on organizations
          advisory,  \* pg_advisory_xact_lock of bootstrap-admin
          req        \* what each request knows

vars == <<users, role, founders, boots, hasDefault, lock, advisory, req>>

Idle == [kind |-> "add", pc |-> "idle", org |-> Default, who |-> NoOne,
         new |-> "none", actor |-> "none"]

Init ==
  /\ users = {} /\ boots = {}
  /\ role = [o \in Organization |-> [u \in User |-> "none"]]
  /\ founders = [o \in Organization |-> {}]
  /\ hasDefault \in BOOLEAN
  /\ lock = [o \in Organization |-> NoOne]
  /\ advisory = NoOne
  /\ req = [r \in Request |-> Idle]

Members(o)  == {u \in User : role[o][u] # "none"}
Owners(o)   == {u \in User : role[o][u] = "owner"}

(* Ids that no organization has and no registration has drawn. *)
FreshIds ==
  {o \in Organization \ {Default} :
     founders[o] = {} /\ \A r \in Request : req[r].pc = "create" => req[r].org # o}

(* What the transaction of r holds is free when it ends. *)
Release(r) ==
  /\ lock' = [o \in Organization |-> IF lock[o] = r THEN NoOne ELSE lock[o]]
  /\ advisory' = IF advisory = r THEN NoOne ELSE advisory
  /\ req' = [req EXCEPT ![r] = Idle]

-----------------------------------------------------------------------------
(* Members *)

(* get_organization_context and require_admin. *)
BeginMember(r) ==
  /\ req[r].pc = "idle"
  /\ \E kind \in {"add", "change", "remove"}, o \in Organization,
        actor \in users, who \in User, new \in Roles \cup {"none"} :
       /\ role[o][actor] \in {"admin", "owner"}
       /\ kind = "remove" <=> new = "none"
       /\ req' = [req EXCEPT ![r] = [kind |-> kind, pc |-> "start", org |-> o,
                    who |-> who, new |-> new, actor |-> role[o][actor]]]
  /\ UNCHANGED <<users, role, founders, boots, hasDefault, lock, advisory>>

(* _ensure_role_can_be_assigned and _ensure_can_manage let an owner do
   everything and an admin deal with those below him. *)
Covers(actor, x) == actor = "owner" \/ (actor = "admin" /\ x \in {"none", "member"})

AddCheck(r) ==
  /\ req[r].pc = "start" /\ req[r].kind = "add"
  /\ Covers(req[r].actor, req[r].new)
  /\ req[r].who \in users /\ role[req[r].org][req[r].who] = "none"
  /\ req' = [req EXCEPT ![r].pc = "insert"]
  /\ UNCHANGED <<users, role, founders, boots, hasDefault, lock, advisory>>

(* Mutant: an upsert in place of the insert. *)
AddInsert_Upsert(r) ==
  /\ req[r].pc = "insert"
  /\ lock[req[r].org] = NoOne
  /\ role' = [role EXCEPT ![req[r].org][req[r].who] = req[r].new]
  /\ Release(r)
  /\ UNCHANGED <<users, founders, boots, hasDefault>>

(* The foreign key waits for the organization's row; the unique constraint
   refuses a second membership. *)
AddInsert(r) ==
  /\ req[r].pc = "insert"
  /\ lock[req[r].org] = NoOne
  /\ role[req[r].org][req[r].who] = "none"
  /\ role' = [role EXCEPT ![req[r].org][req[r].who] = req[r].new]
  /\ Release(r)
  /\ UNCHANGED <<users, founders, boots, hasDefault>>

(* Mutant: no lock. *)
LockOrganization_Plain(r) ==
  /\ req[r].pc = "start" /\ req[r].kind \in {"change", "remove"}
  /\ req' = [req EXCEPT ![r].pc = "locked"]
  /\ UNCHANGED <<users, role, founders, boots, hasDefault, lock, advisory>>

LockOrganization(r) ==
  /\ req[r].pc = "start" /\ req[r].kind \in {"change", "remove"}
  /\ lock[req[r].org] = NoOne
  /\ lock' = [lock EXCEPT ![req[r].org] = r]
  /\ req' = [req EXCEPT ![r].pc = "locked"]
  /\ UNCHANGED <<users, role, founders, boots, hasDefault, advisory>>

(* What update_role and delete ask of the membership they have read. *)
Permitted(r, old) ==
  /\ old # "none" /\ Covers(req[r].actor, old)
  /\ Covers(req[r].actor, req[r].new)
  /\ old = "owner" /\ req[r].new # "owner" => Cardinality(Owners(req[r].org)) > 1

Decide(r) ==
  /\ req[r].pc = "locked"
  /\ Permitted(r, role[req[r].org][req[r].who])
  /\ req' = [req EXCEPT ![r].pc = "write"]
  /\ UNCHANGED <<users, role, founders, boots, hasDefault, lock, advisory>>

Write(r) ==
  /\ req[r].pc = "write"
  /\ role[req[r].org][req[r].who] # "none"
  /\ role' = [role EXCEPT ![req[r].org][req[r].who] = req[r].new]
  /\ Release(r)
  /\ UNCHANGED <<users, founders, boots, hasDefault>>

-----------------------------------------------------------------------------
(* Registration *)

BeginRegister(r, u) ==
  /\ req[r].pc = "idle"
  /\ u \notin users
  /\ req' = [req EXCEPT ![r] = [Idle EXCEPT !.kind = "register", !.pc = "adopt",
                                            !.who = u]]
  /\ UNCHANGED <<users, role, founders, boots, hasDefault, lock, advisory>>

BeginBootstrap(r, u) ==
  /\ req[r].pc = "idle"
  /\ advisory = NoOne
  /\ advisory' = r
  /\ req' = [req EXCEPT ![r] = [Idle EXCEPT !.kind = "bootstrap",
                                            !.pc = "command", !.who = u]]
  /\ UNCHANGED <<users, role, founders, boots, hasDefault, lock>>

BootstrapCheck(r) ==
  /\ req[r].pc = "command"
  /\ users = {}
  /\ req' = [req EXCEPT ![r].pc = "adopt"]
  /\ UNCHANGED <<users, role, founders, boots, hasDefault, lock, advisory>>

(* Mutant: the default organization is read without a lock. *)
Adopt_Plain(r) ==
  /\ req[r].pc = "adopt"
  /\ IF hasDefault /\ Members(Default) = {}
       THEN req' = [req EXCEPT ![r].pc = "create", ![r].org = Default]
       ELSE \E o \in FreshIds :
              req' = [req EXCEPT ![r].pc = "create", ![r].org = o]
  /\ UNCHANGED <<users, role, founders, boots, hasDefault, lock, advisory>>

(* A default organization without members is taken over, otherwise a new one
   is created; its lock is held to the end in either case. *)
Adopt(r) ==
  /\ req[r].pc = "adopt"
  /\ IF hasDefault
       THEN lock[Default] = NoOne /\ lock' = [lock EXCEPT ![Default] = r]
       ELSE UNCHANGED lock
  /\ IF hasDefault /\ Members(Default) = {}
       THEN req' = [req EXCEPT ![r].pc = "create", ![r].org = Default]
       ELSE \E o \in FreshIds :
              req' = [req EXCEPT ![r].pc = "create", ![r].org = o]
  /\ UNCHANGED <<users, role, founders, boots, hasDefault, advisory>>

Found(o, u) ==
  /\ role' = [role EXCEPT ![o][u] = "owner"]
  /\ founders' = [founders EXCEPT ![o] = @ \cup {u}]

(* The unique constraint on the email refuses a second user. *)
CreateUser(r) ==
  /\ req[r].pc = "create"
  /\ req[r].who \notin users
  /\ users' = users \cup {req[r].who}
  /\ boots' = IF req[r].kind = "bootstrap" THEN boots \cup {req[r].who} ELSE boots
  /\ Found(req[r].org, req[r].who)
  /\ Release(r)
  /\ UNCHANGED hasDefault

CreateOrganization(u) ==
  /\ u \in users
  /\ \E o \in FreshIds : Found(o, u)
  /\ UNCHANGED <<users, boots, hasDefault, lock, advisory, req>>

(* Any error, refusal, cancelled request or crash rolls back. *)
Fail(r) ==
  /\ req[r].pc # "idle"
  /\ Release(r)
  /\ UNCHANGED <<users, role, founders, boots, hasDefault>>

-----------------------------------------------------------------------------
MemberStep(r) ==
  \/ BeginMember(r) \/ AddCheck(r) \/ AddInsert(r)
  \/ LockOrganization(r) \/ Decide(r) \/ Write(r)

RegisterStep(r) ==
  \/ \E u \in User : BeginRegister(r, u) \/ BeginBootstrap(r, u)
  \/ BootstrapCheck(r) \/ Adopt(r) \/ CreateUser(r)

Next ==
  \/ \E r \in Request : MemberStep(r) \/ RegisterStep(r) \/ Fail(r)
  \/ \E u \in User : CreateOrganization(u)

Spec == Init /\ [][Next]_vars

-----------------------------------------------------------------------------
TypeOK ==
  /\ users \subseteq User /\ boots \subseteq User
  /\ role \in [Organization -> [User -> Roles \cup {"none"}]]
  /\ founders \in [Organization -> SUBSET User]
  /\ hasDefault \in BOOLEAN
  /\ lock \in [Organization -> Request \cup {NoOne}]
  /\ advisory \in Request \cup {NoOne}
  /\ req \in [Request -> Tx]

(* An organization that was founded never loses its last owner, whoever
   demotes and removes whom at the same time (_ensure_not_last_owner). *)
OwnerRemains == \A o \in Organization : founders[o] # {} => Owners(o) # {}

(* No two registrations become owner of one organization: the default
   organization is taken over once. *)
OneFounder ==
  \A o \in Organization : \A u, v \in founders[o] : u = v

(* Commands that run together create one administrator. *)
OneAdministrator == \A u, v \in boots : u = v

(* What a transaction has read still holds when it commits, because it holds
   the lock that whoever could change it would need.  With TypeOK and the three
   invariants above this is inductive. *)
MemberHeld(r) ==
  /\ req[r].pc \in {"start", "insert", "locked", "write"} =>
       /\ req[r].who \in User /\ founders[req[r].org] # {}
       /\ req[r].kind \in {"add", "change", "remove"}
  /\ req[r].pc = "insert" => Covers(req[r].actor, req[r].new)
  /\ req[r].pc \in {"locked", "write"} => lock[req[r].org] = r
  /\ req[r].pc = "write" => Permitted(r, role[req[r].org][req[r].who])

FounderHeld(r) ==
  /\ req[r].pc \in {"command", "adopt", "create"} => req[r].who \in User
  /\ req[r].pc \in {"adopt", "create"} /\ req[r].kind = "bootstrap" =>
       advisory = r /\ boots = {}
  /\ req[r].pc = "command" => req[r].kind = "bootstrap" /\ advisory = r
  /\ req[r].pc = "create" =>
       /\ founders[req[r].org] = {}
       /\ \A q \in Request \ {r} : req[q].pc = "create" => req[q].org # req[r].org
       /\ req[r].org = Default => hasDefault /\ lock[Default] = r

WhatIsReadHolds ==
  /\ boots \subseteq users
  /\ \A o \in Organization : founders[o] = {} => Members(o) = {}
  /\ \A r \in Request : MemberHeld(r) /\ FounderHeld(r)

AccountsInv ==
  TypeOK /\ OwnerRemains /\ OneFounder /\ OneAdministrator /\ WhatIsReadHolds

(* What r is about to commit is covered by the role its actor had, both for
   the role a member loses and for the one he gets. *)
Entitled(r, o, u) ==
  /\ req[r].org = o /\ req[r].who = u
  /\ Covers(req[r].actor, role[o][u]) /\ Covers(req[r].actor, role'[o][u])

(* Admins never touch an admin or an owner nor make one, although the member
   may be promoted by somebody else while their request is under way. *)
ChangesAreCovered ==
  [][\A o \in Organization, u \in User : role'[o][u] # role[o][u] =>
       founders'[o] # founders[o] \/ \E r \in Request : Entitled(r, o, u)]_vars
=============================================================================
