--------------------------- MODULE Accounts_proofs ---------------------------
(* What holds of Accounts for every set of users, organizations and requests,
   proved with TLAPS. *)
EXTENDS Accounts, FiniteSetTheorems, TLAPS

LEMMA IdleType == Idle \in Tx /\ Idle.pc = "idle"
BY DefaultAssumption DEF Idle, Kinds, Phases, Tx

(* A request that goes on keeps its type. *)
LEMMA PhaseType ==
  ASSUME TypeOK, NEW r \in Request, NEW pc \in Phases,
         req' = [req EXCEPT ![r].pc = pc]
  PROVE  req' \in [Request -> Tx]
<1>1. [req[r] EXCEPT !.pc = pc] \in Tx
  BY DEF TypeOK, Tx
<1> QED
  BY <1>1 DEF TypeOK

(* The end of a transaction leaves what others hold to them. *)
LEMMA ReleaseEffect ==
  ASSUME TypeOK, NEW r \in Request, Release(r)
  PROVE  /\ req' \in [Request -> Tx]
         /\ lock' \in [Organization -> Request \cup {NoOne}]
         /\ advisory' \in Request \cup {NoOne}
         /\ req'[r].pc = "idle"
         /\ \A q \in Request \ {r} :
              /\ req'[q] = req[q]
              /\ advisory = q => advisory' = q
              /\ \A o \in Organization : lock[o] = q => lock'[o] = q
BY IdleType, NoOneAssumption DEF TypeOK, Release

(* A user becomes owner of the organization that he founds. *)
LEMMA FoundEffect ==
  ASSUME TypeOK, NEW o \in Organization, NEW u \in User, Found(o, u)
  PROVE  /\ role' \in [Organization -> [User -> Roles \cup {"none"}]]
         /\ founders' \in [Organization -> SUBSET User]
         /\ role'[o][u] = "owner"
         /\ founders'[o] = founders[o] \cup {u}
         /\ \A n \in Organization \ {o} :
              role'[n] = role[n] /\ founders'[n] = founders[n]
BY DEF TypeOK, Found, Roles

(* The organizations that registrations and requests found or enter. *)
LEMMA AdoptEffect ==
  ASSUME TypeOK, NEW r \in Request, Adopt(r)
  PROVE  /\ req' \in [Request -> Tx]
         /\ lock' \in [Organization -> Request \cup {NoOne}]
         /\ req'[r].pc = "create"
         /\ req'[r].who = req[r].who /\ req'[r].kind = req[r].kind
         /\ \/ /\ req'[r].org = Default
               /\ hasDefault /\ Members(Default) = {}
               /\ lock[Default] = NoOne /\ lock'[Default] = r
            \/ req'[r].org \in FreshIds
         /\ \A q \in Request \ {r} :
              /\ req'[q] = req[q]
              /\ \A o \in Organization : lock[o] = q => lock'[o] = q
<1>1. PICK o \in Organization :
        /\ req' = [req EXCEPT ![r].pc = "create", ![r].org = o]
        /\ \/ o = Default /\ hasDefault /\ Members(Default) = {}
           \/ o \in FreshIds
  BY DefaultAssumption DEF Adopt, FreshIds
<1>2. [req[r] EXCEPT !.pc = "create", !.org = o] \in Tx
  BY DEF TypeOK, Tx, Phases
<1>3. req' \in [Request -> Tx] /\ req'[r] = [req[r] EXCEPT !.pc = "create", !.org = o]
  BY <1>1, <1>2 DEF TypeOK
<1>4. /\ lock' \in [Organization -> Request \cup {NoOne}]
      /\ hasDefault => lock[Default] = NoOne /\ lock'[Default] = r
      /\ \A q \in Request \ {r} : \A n \in Organization :
           lock[n] = q => lock'[n] = q
  BY NoOneAssumption, DefaultAssumption DEF Adopt, TypeOK
<1>5. /\ req'[r].pc = "create" /\ req'[r].org = o
      /\ req'[r].who = req[r].who /\ req'[r].kind = req[r].kind
  BY <1>3 DEF TypeOK, Tx
<1>6. \A q \in Request \ {r} : req'[q] = req[q]
  BY <1>1 DEF TypeOK
<1> QED
  BY <1>1, <1>3, <1>4, <1>5, <1>6

(* A change of a membership, and nothing else. *)
LEMMA WriteEffect ==
  ASSUME TypeOK, WhatIsReadHolds, NEW r \in Request, AddInsert(r) \/ Write(r)
  PROVE  /\ req[r].who \in User /\ req[r].org \in Organization
         /\ role' \in [Organization -> [User -> Roles \cup {"none"}]]
         /\ role'[req[r].org][req[r].who] = req[r].new
         /\ \A o \in Organization, u \in User :
              o # req[r].org \/ u # req[r].who => role'[o][u] = role[o][u]
         /\ \A o \in Organization \ {req[r].org} : role'[o] = role[o]
<1>1. req[r].who \in User
  BY DEF AddInsert, Write, WhatIsReadHolds, MemberHeld
<1>2. req[r].org \in Organization /\ req[r].new \in Roles \cup {"none"}
  BY DEF TypeOK, Tx
<1>3. role' = [role EXCEPT ![req[r].org][req[r].who] = req[r].new]
  BY DEF AddInsert, Write
<1> QED
  BY <1>1, <1>2, <1>3 DEF TypeOK

(* Every step keeps the types. *)
LEMMA TypeStep == AccountsInv /\ [Next]_vars => TypeOK'
<1> SUFFICES ASSUME AccountsInv, [Next]_vars PROVE TypeOK'
  OBVIOUS
<1>0. TypeOK /\ WhatIsReadHolds
  BY DEF AccountsInv
<1>1. ASSUME NEW r \in Request, BeginMember(r) PROVE TypeOK'
  <2>1. PICK kind \in {"add", "change", "remove"}, o \in Organization,
             actor \in users, who \in User, new \in Roles \cup {"none"} :
          /\ role[o][actor] \in {"admin", "owner"}
          /\ kind = "remove" <=> new = "none"
          /\ req' = [req EXCEPT ![r] = [kind |-> kind, pc |-> "start", org |-> o,
                       who |-> who, new |-> new, actor |-> role[o][actor]]]
    BY <1>1, Zenon DEF BeginMember
  <2>2. [kind |-> kind, pc |-> "start", org |-> o,
         who |-> who, new |-> new, actor |-> role[o][actor]] \in Tx
    BY <2>1 DEF Tx, Kinds, Phases, Roles
  <2> QED
    BY <1>0, <1>1, <2>1, <2>2 DEF BeginMember, TypeOK
<1>2. ASSUME NEW r \in Request, AddCheck(r) PROVE TypeOK'
  BY <1>0, <1>2, PhaseType DEF AddCheck, Phases, TypeOK
<1>3. ASSUME NEW r \in Request, LockOrganization(r) PROVE TypeOK'
  BY <1>0, <1>3, PhaseType DEF LockOrganization, Phases, TypeOK
<1>4. ASSUME NEW r \in Request, Decide(r) PROVE TypeOK'
  BY <1>0, <1>4, PhaseType DEF Decide, Phases, TypeOK
<1>5. ASSUME NEW r \in Request, AddInsert(r) \/ Write(r) PROVE TypeOK'
  BY <1>0, <1>5, WriteEffect, ReleaseEffect DEF AddInsert, Write, TypeOK
<1>6. ASSUME NEW r \in Request, NEW u \in User,
             BeginRegister(r, u) \/ BeginBootstrap(r, u)
      PROVE  TypeOK'
  <2>1. /\ [Idle EXCEPT !.kind = "register", !.pc = "adopt", !.who = u] \in Tx
        /\ [Idle EXCEPT !.kind = "bootstrap", !.pc = "command", !.who = u] \in Tx
    BY IdleType DEF Tx, Kinds, Phases
  <2> QED
    BY <1>0, <1>6, <2>1 DEF BeginRegister, BeginBootstrap, TypeOK
<1>7. ASSUME NEW r \in Request, BootstrapCheck(r) PROVE TypeOK'
  BY <1>0, <1>7, PhaseType DEF BootstrapCheck, Phases, TypeOK
<1>8. ASSUME NEW r \in Request, Adopt(r) PROVE TypeOK'
  BY <1>0, <1>8, AdoptEffect DEF Adopt, TypeOK
<1>9. ASSUME NEW r \in Request, CreateUser(r) PROVE TypeOK'
  <2>1. req[r].who \in User /\ req[r].org \in Organization
    BY <1>0, <1>9 DEF CreateUser, WhatIsReadHolds, FounderHeld, TypeOK, Tx
  <2> QED
    BY <1>0, <1>9, <2>1, FoundEffect, ReleaseEffect DEF CreateUser, TypeOK
<1>10. ASSUME NEW u \in User, CreateOrganization(u) PROVE TypeOK'
  BY <1>0, <1>10, FoundEffect DEF CreateOrganization, FreshIds, TypeOK
<1>11. ASSUME NEW r \in Request, Fail(r) PROVE TypeOK'
  BY <1>0, <1>11, ReleaseEffect DEF Fail, TypeOK
<1>12. CASE UNCHANGED vars
  BY <1>0, <1>12 DEF vars, TypeOK
<1> QED
  BY <1>1, <1>2, <1>3, <1>4, <1>5, <1>6, <1>7, <1>8, <1>9, <1>10, <1>11, <1>12
  DEF Next, MemberStep, RegisterStep

-----------------------------------------------------------------------------
(* An owner who is one of several can go, and another one remains. *)
LEMMA AnotherOwner ==
  ASSUME TypeOK, NEW r \in Request, Permitted(r, "owner"), req[r].new # "owner"
  PROVE  \E u \in Owners(req[r].org) : u # req[r].who
<1> SUFFICES ASSUME Owners(req[r].org) \subseteq {req[r].who} PROVE FALSE
  OBVIOUS
<1>1. IsFiniteSet({req[r].who}) /\ Cardinality({req[r].who}) = 1
  BY FS_Singleton
<1>2. /\ IsFiniteSet(Owners(req[r].org))
      /\ Cardinality(Owners(req[r].org)) <= 1
  BY <1>1, FS_Subset
<1>3. Cardinality(Owners(req[r].org)) \in Nat
  BY <1>2, FS_CardinalityType
<1> QED
  BY <1>2, <1>3 DEF Permitted

(* What a request has read holds on as long as nobody changes the memberships
   and founders that its locks protect. *)
LEMMA Frame ==
  ASSUME AccountsInv, NEW q \in Request, req'[q] = req[q],
         \A o \in Organization : lock[o] = q => lock'[o] = q,
         \A o \in Organization : founders[o] # {} => founders'[o] # {},
         advisory = q => advisory' = q,
         advisory = q => boots' = boots,
         hasDefault' = hasDefault,
         req[q].pc = "write" => role'[req[q].org] = role[req[q].org],
         req[q].pc = "create" =>
           /\ founders'[req[q].org] = founders[req[q].org]
           /\ \A p \in Request \ {q} :
                req'[p].pc = "create" => req'[p].org # req[q].org
  PROVE  MemberHeld(q)' /\ FounderHeld(q)'
<1>1. MemberHeld(q) /\ FounderHeld(q) /\ req[q].org \in Organization
  BY DEF AccountsInv, WhatIsReadHolds, TypeOK, Tx
<1>2. MemberHeld(q)'
  <2>1. /\ req[q].pc \in {"start", "insert", "locked", "write"} =>
             /\ req'[q].who \in User /\ founders'[req'[q].org] # {}
             /\ req'[q].kind \in {"add", "change", "remove"}
        /\ req[q].pc = "insert" => Covers(req'[q].actor, req'[q].new)
        /\ req[q].pc \in {"locked", "write"} => lock'[req'[q].org] = q
    BY <1>1 DEF MemberHeld
  <2>2. ASSUME req[q].pc = "write"
        PROVE  Permitted(q, role[req[q].org][req[q].who])'
    BY <1>1, <2>2 DEF MemberHeld, Permitted, Owners, Covers
  <2> QED
    BY <2>1, <2>2 DEF MemberHeld, Covers
<1>3. FounderHeld(q)'
  BY <1>1, DefaultAssumption DEF FounderHeld
<1> QED
  BY <1>2, <1>3

(* A step that changes no membership, founder or user keeps what it has not
   read itself. *)
LEMMA QuietStep ==
  ASSUME AccountsInv, NEW r \in Request,
         UNCHANGED <<users, role, founders, boots, hasDefault>>,
         \A q \in Request \ {r} :
           /\ req'[q] = req[q]
           /\ advisory = q => advisory' = q
           /\ \A o \in Organization : lock[o] = q => lock'[o] = q,
         req'[r].pc = "create" =>
           \A q \in Request \ {r} : req[q].pc = "create" => req[q].org # req'[r].org,
         MemberHeld(r)' /\ FounderHeld(r)', TypeOK'
  PROVE  AccountsInv'
<1>1. \A q \in Request \ {r} : MemberHeld(q)' /\ FounderHeld(q)'
  <2> SUFFICES ASSUME NEW q \in Request \ {r} PROVE MemberHeld(q)' /\ FounderHeld(q)'
    OBVIOUS
  <2>1. req[q].pc = "create" =>
          \A p \in Request \ {q} :
            req'[p].pc = "create" => req'[p].org # req[q].org
    BY DEF AccountsInv, WhatIsReadHolds, FounderHeld
  <2> QED
    BY <2>1, Frame
<1> QED
  BY <1>1 DEF AccountsInv, OwnerRemains, OneFounder, OneAdministrator,
              WhatIsReadHolds, Owners, Members

(* The steps of a request that commit nothing. *)
LEMMA BeginMemberKeeps ==
  ASSUME AccountsInv, TypeOK', NEW r \in Request, BeginMember(r)
  PROVE  AccountsInv'
<1>1. PICK kind \in {"add", "change", "remove"}, o \in Organization,
           actor \in users, who \in User, new \in Roles \cup {"none"} :
        /\ role[o][actor] \in {"admin", "owner"}
        /\ kind = "remove" <=> new = "none"
        /\ req' = [req EXCEPT ![r] = [kind |-> kind, pc |-> "start", org |-> o,
                     who |-> who, new |-> new, actor |-> role[o][actor]]]
  BY Zenon DEF BeginMember
<1>2. req'[r] = [kind |-> kind, pc |-> "start", org |-> o, who |-> who,
                 new |-> new, actor |-> role[o][actor]]
      /\ \A q \in Request \ {r} : req'[q] = req[q]
  BY <1>1 DEF AccountsInv, TypeOK
<1>3. founders[o] # {}
  BY <1>1 DEF AccountsInv, TypeOK, WhatIsReadHolds, Members
<1>4. MemberHeld(r)' /\ FounderHeld(r)'
  BY <1>2, <1>3 DEF MemberHeld, FounderHeld, BeginMember
<1> QED
  BY <1>2, <1>4, QuietStep DEF BeginMember

LEMMA MemberKeeps ==
  ASSUME AccountsInv, TypeOK', NEW r \in Request,
         AddCheck(r) \/ LockOrganization(r) \/ Decide(r)
  PROVE  AccountsInv'
<1>1. MemberHeld(r) /\ req[r] \in Tx /\ TypeOK
  BY DEF AccountsInv, WhatIsReadHolds, TypeOK
<1>2. \A q \in Request \ {r} : req'[q] = req[q]
  BY <1>1 DEF TypeOK, AddCheck, LockOrganization, Decide
<1>3. PICK pc \in {"insert", "locked", "write"} :
        req'[r] = [req[r] EXCEPT !.pc = pc]
  BY <1>1 DEF TypeOK, AddCheck, LockOrganization, Decide
<1>4. /\ req'[r].pc = pc /\ req'[r].org = req[r].org /\ req'[r].who = req[r].who
      /\ req'[r].kind = req[r].kind /\ req'[r].new = req[r].new
      /\ req'[r].actor = req[r].actor
  BY <1>1, <1>3 DEF Tx
<1>5. \A q \in Request \ {r} : \A o \in Organization :
        lock[o] = q => lock'[o] = q
  BY <1>1, NoOneAssumption DEF TypeOK, AddCheck, LockOrganization, Decide
<1>6. MemberHeld(r)'
  <2>1. CASE AddCheck(r)
    BY <1>1, <1>4, <2>1 DEF AddCheck, MemberHeld, TypeOK, Covers
  <2>2. CASE LockOrganization(r)
    BY <1>1, <1>4, <2>2 DEF LockOrganization, MemberHeld, TypeOK, Tx
  <2>3. CASE Decide(r)
    <3>1. Permitted(r, role[req[r].org][req[r].who])'
      BY <1>4, <2>3 DEF Decide, Permitted, Owners, Covers
    <3> QED
      BY <1>1, <1>4, <2>3, <3>1 DEF Decide, MemberHeld, TypeOK
  <2> QED
    BY <2>1, <2>2, <2>3
<1>7. FounderHeld(r)'
  BY <1>4 DEF FounderHeld
<1> QED
  BY <1>2, <1>4, <1>5, <1>6, <1>7, QuietStep DEF AddCheck, LockOrganization, Decide

LEMMA RegisterKeeps ==
  ASSUME AccountsInv, TypeOK', NEW r \in Request,
         \/ \E u \in User : BeginRegister(r, u) \/ BeginBootstrap(r, u)
         \/ BootstrapCheck(r)
  PROVE  AccountsInv'
<1>1. TypeOK /\ FounderHeld(r) /\ boots \subseteq users /\ req[r] \in Tx
  BY DEF AccountsInv, WhatIsReadHolds, TypeOK
<1>2. /\ \A q \in Request \ {r} : req'[q] = req[q] /\ (advisory = q => advisory' = q)
      /\ UNCHANGED <<users, role, founders, boots, hasDefault, lock>>
  BY <1>1, NoOneAssumption DEF TypeOK, BeginRegister, BeginBootstrap, BootstrapCheck
<1> DEFINE Goes ==
      /\ req'[r].pc \in {"adopt", "command"} /\ req'[r].who \in User
      /\ req'[r].kind = "bootstrap" =>
           advisory' = r /\ (req'[r].pc = "adopt" => users = {})
      /\ req'[r].pc = "command" => req'[r].kind = "bootstrap"
<1>3. Goes
  <2>1. ASSUME NEW u \in User, BeginRegister(r, u) PROVE Goes
    <3>1. req'[r] = [Idle EXCEPT !.kind = "register", !.pc = "adopt", !.who = u]
      BY <1>1, <2>1 DEF TypeOK, BeginRegister
    <3> QED
      BY <3>1 DEF Idle
  <2>2. ASSUME NEW u \in User, BeginBootstrap(r, u) PROVE Goes
    <3>1. req'[r] = [Idle EXCEPT !.kind = "bootstrap", !.pc = "command", !.who = u]
      BY <1>1, <2>2 DEF TypeOK, BeginBootstrap
    <3>2. advisory' = r
      BY <2>2 DEF BeginBootstrap
    <3> QED
      BY <3>1, <3>2 DEF Idle
  <2>3. ASSUME BootstrapCheck(r) PROVE Goes
    BY <1>1, <2>3 DEF TypeOK, Tx, BootstrapCheck, FounderHeld
  <2> QED
    BY <2>1, <2>2, <2>3
<1>4. MemberHeld(r)' /\ FounderHeld(r)'
  BY <1>1, <1>2, <1>3 DEF MemberHeld, FounderHeld
<1> QED
  BY <1>2, <1>3, <1>4, QuietStep

LEMMA AdoptKeeps ==
  ASSUME AccountsInv, TypeOK', NEW r \in Request, Adopt(r)
  PROVE  AccountsInv'
<1>1. TypeOK /\ FounderHeld(r) /\ req[r].pc = "adopt"
  BY DEF AccountsInv, WhatIsReadHolds, Adopt
<1>2. Members(Default) = {} => founders[Default] = {}
  BY DefaultAssumption DEF AccountsInv, OwnerRemains, Owners, Members
<1>3. founders[req'[r].org] = {}
  BY <1>1, <1>2, AdoptEffect DEF FreshIds
<1>4. \A q \in Request \ {r} : req[q].pc = "create" => req[q].org # req'[r].org
  BY <1>1, AdoptEffect, NoOneAssumption DEF AccountsInv, WhatIsReadHolds, FounderHeld, FreshIds
<1>5. MemberHeld(r)'
  BY <1>1, AdoptEffect DEF MemberHeld
<1>6. FounderHeld(r)'
  BY <1>1, <1>3, <1>4, AdoptEffect DEF FounderHeld, Adopt, FreshIds
<1> QED
  BY <1>1, <1>4, <1>5, <1>6, AdoptEffect, QuietStep DEF Adopt

LEMMA FailKeeps ==
  ASSUME AccountsInv, TypeOK', NEW r \in Request, Fail(r)
  PROVE  AccountsInv'
<1>1. TypeOK /\ Release(r)
  BY DEF AccountsInv, Fail
<1>2. MemberHeld(r)' /\ FounderHeld(r)'
  BY <1>1, ReleaseEffect DEF MemberHeld, FounderHeld
<1> QED
  BY <1>1, <1>2, ReleaseEffect, QuietStep DEF Fail

-----------------------------------------------------------------------------
(* The steps that commit. *)
LEMMA WriteKeeps ==
  ASSUME AccountsInv, TypeOK', NEW r \in Request, AddInsert(r) \/ Write(r)
  PROVE  AccountsInv'
<1> DEFINE o == req[r].org
           u == req[r].who
<1>1. /\ TypeOK /\ WhatIsReadHolds /\ MemberHeld(r)
      /\ o \in Organization /\ u \in User /\ Release(r)
      /\ UNCHANGED <<users, founders, boots, hasDefault>>
  BY DEF AccountsInv, WhatIsReadHolds, MemberHeld, AddInsert, Write, TypeOK, Tx
<1>2. founders[o] # {}
  BY DEF AccountsInv, WhatIsReadHolds, MemberHeld, AddInsert, Write
<1>3. OwnerRemains'
  <2> SUFFICES ASSUME NEW n \in Organization, founders[n] # {}
               PROVE  \E v \in User : role'[n][v] = "owner"
    BY <1>1 DEF OwnerRemains, Owners
  <2>1. PICK v \in User : role[n][v] = "owner"
    BY DEF AccountsInv, OwnerRemains, Owners
  <2>2. CASE n # o \/ v # u \/ req[r].new = "owner"
    BY <1>1, <2>1, <2>2, WriteEffect
  <2>3. CASE n = o /\ v = u /\ req[r].new # "owner"
    <3>1. Permitted(r, "owner")
      BY <1>1, <2>1, <2>3 DEF MemberHeld, AddInsert, Write
    <3>2. PICK w \in Owners(o) : w # u
      BY <1>1, <2>3, <3>1, AnotherOwner
    <3> QED
      BY <1>1, <2>3, <3>2, WriteEffect DEF Owners
  <2> QED
    BY <2>2, <2>3
<1>4. ASSUME NEW q \in Request \ {r} PROVE MemberHeld(q)' /\ FounderHeld(q)'
  <2>1. MemberHeld(q) /\ FounderHeld(q) /\ req[q].org \in Organization
    BY <1>1 DEF WhatIsReadHolds, TypeOK, Tx
  <2>2. ASSUME req[q].pc = "write" PROVE role'[req[q].org] = role[req[q].org]
    <3>1. req[q].org # o
      BY <1>1, <2>1, <2>2, NoOneAssumption DEF MemberHeld, AddInsert, Write
    <3> QED
      BY <1>1, <2>1, <3>1, WriteEffect
  <2>3. req[q].pc = "create" =>
          \A p \in Request \ {q} : req'[p].pc = "create" => req'[p].org # req[q].org
    BY <1>1, <2>1, ReleaseEffect DEF FounderHeld
  <2> QED
    BY <1>1, <2>2, <2>3, Frame, ReleaseEffect
<1>5. MemberHeld(r)' /\ FounderHeld(r)'
  BY <1>1, ReleaseEffect DEF MemberHeld, FounderHeld
<1>6. ASSUME NEW n \in Organization, founders[n] = {} PROVE Members(n)' = {}
  <2>1. n # o
    BY <1>2, <1>6
  <2> QED
    BY <1>1, <1>6, <2>1, WriteEffect DEF Members, WhatIsReadHolds
<1> QED
  BY <1>1, <1>3, <1>4, <1>5, <1>6
  DEF AccountsInv, OneFounder, OneAdministrator, WhatIsReadHolds

(* An organization that nobody has founded gets its founder and owner. *)
LEMMA FoundKeeps ==
  ASSUME AccountsInv, TypeOK', NEW o \in Organization, NEW u \in User,
         Found(o, u), founders[o] = {}
  PROVE  /\ OwnerRemains' /\ OneFounder'
         /\ \A n \in Organization : founders'[n] = {} => Members(n)' = {}
         /\ \A n \in Organization : founders[n] # {} =>
              n # o /\ role'[n] = role[n] /\ founders'[n] # {}
<1>1. TypeOK /\ OwnerRemains /\ OneFounder /\ WhatIsReadHolds
  BY DEF AccountsInv
<1>2. OwnerRemains'
  <2> SUFFICES ASSUME NEW n \in Organization, founders'[n] # {}
               PROVE  \E v \in User : role'[n][v] = "owner"
    BY DEF OwnerRemains, Owners
  <2>1. CASE n = o
    BY <1>1, <2>1, FoundEffect
  <2>2. CASE n # o
    BY <1>1, <2>2, FoundEffect DEF OwnerRemains, Owners
  <2> QED
    BY <2>1, <2>2
<1>3. OneFounder'
  BY <1>1, FoundEffect DEF OneFounder
<1>4. ASSUME NEW n \in Organization, founders'[n] = {} PROVE Members(n)' = {}
  <2>1. n # o /\ founders[n] = {} /\ role'[n] = role[n]
    BY <1>1, <1>4, FoundEffect
  <2> QED
    BY <1>1, <2>1 DEF WhatIsReadHolds, Members
<1> QED
  BY <1>1, <1>2, <1>3, <1>4, FoundEffect

LEMMA CreateUserKeeps ==
  ASSUME AccountsInv, TypeOK', NEW r \in Request, CreateUser(r)
  PROVE  AccountsInv'
<1> DEFINE o == req[r].org
           u == req[r].who
<1>1. /\ TypeOK /\ WhatIsReadHolds /\ FounderHeld(r)
      /\ o \in Organization /\ u \in User /\ founders[o] = {}
      /\ Found(o, u) /\ Release(r) /\ hasDefault' = hasDefault
  BY DEF AccountsInv, WhatIsReadHolds, FounderHeld, CreateUser, TypeOK, Tx
<1>2. ASSUME NEW q \in Request \ {r} PROVE MemberHeld(q)' /\ FounderHeld(q)'
  <2>1. MemberHeld(q) /\ FounderHeld(q) /\ req[q].org \in Organization
    BY <1>1 DEF WhatIsReadHolds, TypeOK, Tx
  <2>2. advisory = q => boots' = boots
    BY <1>1 DEF FounderHeld, CreateUser
  <2>3. req[q].pc = "write" => role'[req[q].org] = role[req[q].org]
    BY <1>1, <2>1, FoundKeeps DEF MemberHeld
  <2>4. req[q].pc = "create" =>
          /\ founders'[req[q].org] = founders[req[q].org]
          /\ \A p \in Request \ {q} :
               req'[p].pc = "create" => req'[p].org # req[q].org
    BY <1>1, <2>1, ReleaseEffect, FoundEffect DEF FounderHeld, CreateUser
  <2> QED
    BY <1>1, <2>2, <2>3, <2>4, Frame, ReleaseEffect, FoundKeeps
<1>3. MemberHeld(r)' /\ FounderHeld(r)'
  BY <1>1, ReleaseEffect DEF MemberHeld, FounderHeld
<1>4. OneAdministrator' /\ boots' \subseteq users'
  BY <1>1 DEF AccountsInv, OneAdministrator, WhatIsReadHolds, FounderHeld, CreateUser
<1> QED
  BY <1>1, <1>2, <1>3, <1>4, FoundKeeps DEF AccountsInv, WhatIsReadHolds

LEMMA CreateOrganizationKeeps ==
  ASSUME AccountsInv, TypeOK', NEW u \in User, CreateOrganization(u)
  PROVE  AccountsInv'
<1>1. PICK o \in FreshIds : Found(o, u)
  BY DEF CreateOrganization
<1>2. /\ TypeOK /\ WhatIsReadHolds /\ o \in Organization /\ founders[o] = {}
      /\ UNCHANGED <<users, boots, hasDefault, lock, advisory, req>>
  BY <1>1 DEF AccountsInv, FreshIds, CreateOrganization
<1>3. ASSUME NEW q \in Request PROVE MemberHeld(q)' /\ FounderHeld(q)'
  <2>1. MemberHeld(q) /\ FounderHeld(q) /\ req[q].org \in Organization
    BY <1>2 DEF WhatIsReadHolds, TypeOK, Tx
  <2>2. req[q].pc = "write" => role'[req[q].org] = role[req[q].org]
    BY <1>1, <1>2, <2>1, FoundKeeps DEF MemberHeld
  <2>3. req[q].pc = "create" =>
          /\ founders'[req[q].org] = founders[req[q].org]
          /\ \A p \in Request \ {q} :
               req'[p].pc = "create" => req'[p].org # req[q].org
    BY <1>1, <1>2, <2>1, FoundEffect DEF FounderHeld, FreshIds
  <2> QED
    BY <1>1, <1>2, <2>2, <2>3, Frame, FoundKeeps
<1> QED
  BY <1>1, <1>2, <1>3, FoundKeeps DEF AccountsInv, OneAdministrator, WhatIsReadHolds

(* Every step keeps the inductive invariant. *)
LEMMA InvStep == AccountsInv /\ [Next]_vars => AccountsInv'
<1> SUFFICES ASSUME AccountsInv, [Next]_vars PROVE AccountsInv'
  OBVIOUS
<1>1. TypeOK'
  BY TypeStep
<1>2. CASE UNCHANGED vars
  <2>1. UNCHANGED <<OwnerRemains, OneFounder, OneAdministrator>>
    BY <1>2 DEF vars, OwnerRemains, OneFounder, OneAdministrator, Owners
  <2>2. ASSUME NEW r \in Request PROVE MemberHeld(r)' /\ FounderHeld(r)'
    BY <1>2, <2>2, Frame DEF vars, AccountsInv, WhatIsReadHolds, FounderHeld
  <2> QED
    BY <1>1, <1>2, <2>1, <2>2 DEF vars, AccountsInv, WhatIsReadHolds, Members
<1> QED
  BY <1>1, <1>2, BeginMemberKeeps, MemberKeeps, RegisterKeeps, AdoptKeeps, FailKeeps,
     WriteKeeps, CreateUserKeeps, CreateOrganizationKeeps
  DEF Next, MemberStep, RegisterStep

(* Every variable keeps its type, and what a request has read and locked in
   member_service.py, auth/service.py and cli.py holds until it commits. *)
THEOREM ReadsHold == Spec => []AccountsInv
<1>1. Init => AccountsInv
  BY IdleType DEF Init, AccountsInv, TypeOK, OwnerRemains, OneFounder, OneAdministrator,
     WhatIsReadHolds, MemberHeld, FounderHeld, Members
<1> QED
  BY <1>1, InvStep, PTL DEF Spec

(* _ensure_not_last_owner: a founded organization always has an owner. *)
THEOREM OwnersRemain == Spec => []OwnerRemains
<1>1. AccountsInv => OwnerRemains
  BY DEF AccountsInv
<1> QED
  BY <1>1, ReadsHold, PTL

(* register: an organization is founded once. *)
THEOREM FoundersAreAlone == Spec => []OneFounder
<1>1. AccountsInv => OneFounder
  BY DEF AccountsInv
<1> QED
  BY <1>1, ReadsHold, PTL

(* bootstrap_admin: its advisory lock makes one administrator. *)
THEOREM AdministratorIsAlone == Spec => []OneAdministrator
<1>1. AccountsInv => OneAdministrator
  BY DEF AccountsInv
<1> QED
  BY <1>1, ReadsHold, PTL

(* _ensure_can_manage: whatever a membership was when the request began, at its
   commit the actor's role covers what it takes away and what it gives. *)
THEOREM CommitsAreCovered == Spec => ChangesAreCovered
<1> DEFINE Covered ==
      \A o \in Organization, u \in User : role'[o][u] # role[o][u] =>
        founders'[o] # founders[o] \/ \E r \in Request : Entitled(r, o, u)
<1>1. AccountsInv /\ [Next]_vars => [Covered]_vars
  <2> SUFFICES ASSUME AccountsInv, Next, NEW o \in Organization, NEW u \in User,
                      role'[o][u] # role[o][u], founders'[o] = founders[o]
               PROVE  \E r \in Request : Entitled(r, o, u)
    OBVIOUS
  <2>1. TypeOK /\ WhatIsReadHolds
    BY DEF AccountsInv
  <2>2. ASSUME NEW r \in Request, AddInsert(r) \/ Write(r) PROVE Entitled(r, o, u)
    <3>1. o = req[r].org /\ u = req[r].who /\ role'[o][u] = req[r].new
      BY <2>1, <2>2, WriteEffect
    <3>2. Covers(req[r].actor, role[o][u]) /\ Covers(req[r].actor, req[r].new)
      BY <2>1, <2>2, <3>1
      DEF WhatIsReadHolds, MemberHeld, AddInsert, Write, Permitted, Covers
    <3> QED
      BY <3>1, <3>2 DEF Entitled, Covers
  <2>3. ASSUME NEW r \in Request, CreateUser(r) PROVE FALSE
    <3>1. /\ req[r].org \in Organization /\ req[r].who \in User
          /\ founders[req[r].org] = {} /\ Found(req[r].org, req[r].who)
      BY <2>1, <2>3 DEF WhatIsReadHolds, FounderHeld, CreateUser, TypeOK, Tx
    <3>2. founders'[req[r].org] = founders[req[r].org] \cup {req[r].who}
      BY <2>1, <3>1, FoundEffect, Zenon
    <3>3. founders'[req[r].org] # founders[req[r].org]
      BY <3>1, <3>2
    <3> QED
      BY <2>1, <3>1, <3>3, FoundEffect
  <2>4. ASSUME NEW v \in User, CreateOrganization(v) PROVE FALSE
    <3>1. PICK n \in FreshIds : Found(n, v)
      BY <2>4 DEF CreateOrganization
    <3>2. n \in Organization /\ founders[n] = {}
      BY <3>1 DEF FreshIds
    <3> QED
      BY <2>1, <3>1, <3>2, FoundEffect
  <2> QED
    BY <2>2, <2>3, <2>4
    DEF Next, MemberStep, RegisterStep, BeginMember, AddCheck, LockOrganization,
        Decide, BeginRegister, BeginBootstrap, BootstrapCheck, Adopt, Fail
<1> QED
  BY <1>1, ReadsHold, PTL DEF Spec, ChangesAreCovered
=============================================================================
