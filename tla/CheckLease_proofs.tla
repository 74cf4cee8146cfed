------------------------- MODULE CheckLease_proofs -------------------------
(* What holds of CheckLease for every set of processes, monitors and tokens
   and for every limit, proved with TLAPS. *)
EXTENDS CheckLease, FiniteSetTheorems, TLAPS

(* What a claim transaction writes, row by row: it locks eligible rows only, and
   each of them gets a token that no row or process knows of. *)
LEMMA ClaimSelectEffect ==
  ASSUME TypeOK, NEW s \in Scheduler, ClaimSelect(s)
  PROVE  /\ claim' \in [Scheduler -> [Monitor -> Tokens]]
         /\ probeLeft' \in [Scheduler -> [Monitor -> Nat]]
         /\ rowLock' \in [Monitor -> Scheduler \cup {Api, NoOne}]
         /\ \A t \in Scheduler :
              t # s => claim'[t] = claim[t] /\ probeLeft'[t] = probeLeft[t]
         /\ \A m \in Monitor :
              \/ /\ claim'[s][m] = NoToken
                 /\ rowLock'[m] = rowLock[m]
              \/ /\ claim'[s][m] # NoToken
                 /\ claim'[s][m] \in Fresh(m)
                 /\ m \in Eligible(s)
                 /\ rowLock'[m] = s
<1> USE TokenAssumption, LimitsAssumption DEF TypeOK, Tokens
<1>1. PICK w \in FirstDue(s) :
        /\ \E tok \in [w -> Token], t \in [w -> Timeouts] :
             /\ \A m \in w : tok[m] \in Fresh(m)
             /\ claim' = [claim EXCEPT ![s] = [m \in Monitor |->
                            IF m \in w THEN tok[m] ELSE NoToken]]
             /\ probeLeft' = [probeLeft EXCEPT ![s] = [m \in Monitor |->
                                IF m \in w THEN t[m] ELSE 0]]
        /\ rowLock' = [m \in Monitor |-> IF m \in w THEN s ELSE rowLock[m]]
  BY Zenon DEF ClaimSelect
<1>2. PICK tok \in [w -> Token], t \in [w -> Timeouts] :
        /\ \A m \in w : tok[m] \in Fresh(m)
        /\ claim' = [claim EXCEPT ![s] = [m \in Monitor |->
                       IF m \in w THEN tok[m] ELSE NoToken]]
        /\ probeLeft' = [probeLeft EXCEPT ![s] = [m \in Monitor |->
                           IF m \in w THEN t[m] ELSE 0]]
  BY <1>1, Zenon
<1>3. w \subseteq Eligible(s)
  BY DEF FirstDue
<1>4. /\ claim' \in [Scheduler -> [Monitor -> Tokens]]
      /\ \A r \in Scheduler : r # s => claim'[r] = claim[r]
  BY <1>2
<1>5. /\ probeLeft' \in [Scheduler -> [Monitor -> Nat]]
      /\ \A r \in Scheduler : r # s => probeLeft'[r] = probeLeft[r]
  BY <1>2
<1>6. rowLock' \in [Monitor -> Scheduler \cup {Api, NoOne}]
  BY <1>1
<1>7. ASSUME NEW m \in Monitor, m \in w
      PROVE  claim'[s][m] # NoToken /\ claim'[s][m] \in Fresh(m)
  BY <1>2, <1>7
<1>8. ASSUME NEW m \in Monitor, m \notin w
      PROVE  claim'[s][m] = NoToken
  BY <1>2, <1>8
<1> QED
  BY <1>1, <1>3, <1>4, <1>5, <1>6, <1>7, <1>8

(* Every variable of CheckLease keeps its type; in particular no countdown of a
   lease becomes negative, whatever is left of a claim transaction's time. *)
THEOREM TypeCorrect == Spec => []TypeOK
<1> USE SchedulerAssumption, TokenAssumption, LimitsAssumption
        DEF Tokens, Phases, Tasks
<1>1. Init => TypeOK
  BY DEF Init, TypeOK
<1>2. TypeOK /\ [Next]_vars => TypeOK'
  <2> SUFFICES ASSUME TypeOK, [Next]_vars PROVE TypeOK'
    OBVIOUS
  <2> USE DEF TypeOK, rows, procs
  <2>1. ASSUME NEW s \in Scheduler, Poll(s) PROVE TypeOK'
    BY <2>1 DEF Poll
  <2>2. ASSUME NEW s \in Scheduler, ClaimSelect(s) PROVE TypeOK'
    <3>1. /\ claim' \in [Scheduler -> [Monitor -> Tokens]]
          /\ probeLeft' \in [Scheduler -> [Monitor -> Nat]]
          /\ rowLock' \in [Monitor -> Scheduler \cup {Api, NoOne}]
      BY <2>2, ClaimSelectEffect
    <3>2. /\ claimAge' \in [Scheduler -> 0 .. Grace]
          /\ phase' \in [Scheduler -> Phases]
          /\ UNCHANGED <<row, dueIn, leaseToken, leaseLeft, attempted, task,
                         recordedBy>>
      BY <2>2 DEF ClaimSelect
    <3> QED
      BY <3>1, <3>2
  <2>3. ASSUME NEW s \in Scheduler, EndCycle(s) PROVE TypeOK'
    BY <2>3 DEF EndCycle, CycleOver
  <2>4. ASSUME NEW s \in Scheduler, ClaimCommit(s) PROVE TypeOK'
    BY <2>4 DEF ClaimCommit, ClaimsReachRows, LeaseTime, Wave
  <2>5. ASSUME NEW s \in Scheduler, ClaimFail(s) PROVE TypeOK'
    BY <2>5 DEF ClaimFail, ClaimsReachRows, LeaseTime, Wave, Rollback, Forget,
                CycleOver
  <2>6. ASSUME NEW s \in Scheduler, WaveDone(s) PROVE TypeOK'
    BY <2>6 DEF WaveDone
  <2>7. ASSUME NEW s \in Scheduler, Release(s) PROVE TypeOK'
    <3>1. attempted' = [attempted EXCEPT ![s] = {}] \/ attempted' = attempted
      BY <2>7 DEF Release, AfterRelease, CycleOver
    <3>2. attempted' \in [Scheduler -> SUBSET Monitor]
      BY <3>1
    <3>3. Forget(s) /\ phase' \in [Scheduler -> Phases]
      BY <2>7 DEF Release, AfterRelease
    <3>4. /\ leaseToken' \in [Monitor -> Tokens]
          /\ leaseLeft' \in [Monitor -> Nat]
          /\ UNCHANGED <<row, dueIn, rowLock, recordedBy>>
      BY <2>7 DEF Release
    <3> QED
      BY <3>2, <3>3, <3>4 DEF Forget
  <2>8. ASSUME NEW s \in Scheduler, ReleaseFail(s) PROVE TypeOK'
    <3>1. attempted' = [attempted EXCEPT ![s] = {}] \/ attempted' = attempted
      BY <2>8 DEF ReleaseFail, AfterRelease, CycleOver
    <3>2. attempted' \in [Scheduler -> SUBSET Monitor]
      BY <3>1
    <3>3. Forget(s) /\ phase' \in [Scheduler -> Phases]
      BY <2>8 DEF ReleaseFail, AfterRelease
    <3>4. /\ leaseToken' \in [Monitor -> Tokens]
          /\ leaseLeft' \in [Monitor -> Nat]
          /\ UNCHANGED <<row, dueIn, rowLock, recordedBy>>
      BY <2>8 DEF ReleaseFail
    <3> QED
      BY <3>2, <3>3, <3>4 DEF Forget
  <2>9. ASSUME NEW s \in Scheduler, Cancel(s) PROVE TypeOK'
    <3>1. CASE phase[s] = "wave"
      <4>1. /\ phase' = [phase EXCEPT ![s] = "stopping"]
            /\ task' = [task EXCEPT ![s] = [m \in Monitor |->
                          IF m \in Wave(s) THEN "done" ELSE "none"]]
            /\ probeLeft' = [probeLeft EXCEPT ![s] = [m \in Monitor |-> 0]]
            /\ Rollback(s) /\ UNCHANGED <<attempted, claim, claimAge>>
        BY <2>9, <3>1 DEF Cancel
      <4>2. task' \in [Scheduler -> [Monitor -> Tasks]]
        BY <4>1
      <4> QED
        BY <4>1, <4>2 DEF Rollback
    <3>2. CASE phase[s] # "wave"
      <4>1. /\ Forget(s) /\ CycleOver(s)
            /\ phase' \in [Scheduler -> Phases]
            /\ Rollback(s) \/ ClaimsReachRows(s)
        BY <2>9, <3>2 DEF Cancel
      <4>2. CASE Rollback(s)
        BY <4>1, <4>2 DEF Rollback, Forget, CycleOver
      <4>3. CASE ClaimsReachRows(s)
        BY <4>1, <4>3 DEF ClaimsReachRows, LeaseTime, Wave, Forget, CycleOver
      <4> QED
        BY <4>1, <4>2, <4>3
    <3> QED
      BY <3>1, <3>2
  <2>10. ASSUME NEW s \in Scheduler, Crash(s) PROVE TypeOK'
    BY <2>10 DEF Crash, Rollback, Forget, CycleOver
  <2>11. ASSUME NEW s \in Scheduler, Restart(s) PROVE TypeOK'
    BY <2>11 DEF Restart
  <2>12. ASSUME NEW s \in Scheduler, NEW m \in Monitor, ProbeEnd(s, m) PROVE TypeOK'
    BY <2>12 DEF ProbeEnd
  <2>13. ASSUME NEW s \in Scheduler, NEW m \in Monitor, TaskFail(s, m) PROVE TypeOK'
    BY <2>13 DEF TaskFail, TaskEnds
  <2>14. ASSUME NEW s \in Scheduler, NEW m \in Monitor, RecordLock(s, m) PROVE TypeOK'
    BY <2>14 DEF RecordLock
  <2>15. ASSUME NEW s \in Scheduler, NEW m \in Monitor, RecordGone(s, m) PROVE TypeOK'
    BY <2>15 DEF RecordGone
  <2>16. ASSUME NEW s \in Scheduler, NEW m \in Monitor, RecordVerify(s, m) PROVE TypeOK'
    BY <2>16 DEF RecordVerify
  <2>17. ASSUME NEW s \in Scheduler, NEW m \in Monitor, RecordDiscard(s, m) PROVE TypeOK'
    BY <2>17 DEF RecordDiscard, TaskEnds
  <2>18. ASSUME NEW s \in Scheduler, NEW m \in Monitor, RecordCommit(s, m) PROVE TypeOK'
    BY <2>18 DEF RecordCommit, TaskEnds, Released, NextDue
  <2>19. ASSUME NEW m \in Monitor, ApiCreate(m) PROVE TypeOK'
    BY <2>19 DEF ApiCreate
  <2>20. ASSUME NEW m \in Monitor, ApiLock(m) PROVE TypeOK'
    BY <2>20 DEF ApiLock
  <2>21. ASSUME NEW m \in Monitor, ApiEdit(m) PROVE TypeOK'
    BY <2>21 DEF ApiEdit, ApiUnlock
  <2>22. ASSUME NEW m \in Monitor, ApiManual(m) PROVE TypeOK'
    BY <2>22 DEF ApiManual, ApiUnlock, NextDue
  <2>23. ASSUME NEW m \in Monitor, ApiDelete(m) PROVE TypeOK'
    BY <2>23 DEF ApiDelete, ApiUnlock
  <2>24. CASE Tick
    BY <2>24 DEF Tick, Later, Lower
  <2>25. CASE UNCHANGED vars
    BY <2>25 DEF vars
  <2> QED
    BY <2>1, <2>2, <2>3, <2>4, <2>5, <2>6, <2>7, <2>8, <2>9, <2>10, <2>11, <2>12, <2>13, <2>14, <2>15, <2>16, <2>17, <2>18, <2>19, <2>20, <2>21, <2>22, <2>23, <2>24, <2>25
       DEF Next, CycleStep, FaultStep, TaskStep, ApiStep
<1> QED
  BY <1>1, <1>2, PTL DEF Spec

(* The bookkeeping of tasks, locks and tokens that makes results fenced. *)
THEOREM Fencing == Spec => []FencingInv
<1> USE SchedulerAssumption, TokenAssumption, LimitsAssumption
        DEF Tokens, Phases, Tasks
<1>1. Init => FencingInv
  BY DEF Init, FencingInv, TasksFitClaims, TransactionsHoldLocks, ClaimsAreFree,
         TokensAreUnique, VerifiedHoldsLease, Claiming, Recording
<1>2. TypeOK /\ TypeOK' /\ FencingInv /\ [Next]_vars => FencingInv'
  <2> SUFFICES ASSUME TypeOK, TypeOK', FencingInv, [Next]_vars PROVE FencingInv'
    OBVIOUS
  <2> USE DEF TypeOK, rows, procs, FencingInv, TasksFitClaims,
              TransactionsHoldLocks, ClaimsAreFree, TokensAreUnique,
              VerifiedHoldsLease, Claiming, Recording
  <2>1. ASSUME NEW s \in Scheduler, Poll(s) PROVE FencingInv'
    BY <2>1 DEF Poll
  <2>2. ASSUME NEW s \in Scheduler, ClaimSelect(s) PROVE FencingInv'
    <3>1. /\ phase[s] = "polling" /\ phase' = [phase EXCEPT ![s] = "claiming"]
          /\ UNCHANGED <<row, leaseToken, leaseLeft, task>>
      BY <2>2 DEF ClaimSelect
    <3>2. /\ \A t \in Scheduler : t # s => claim'[t] = claim[t]
          /\ \A m \in Monitor :
               \/ claim'[s][m] = NoToken /\ rowLock'[m] = rowLock[m]
               \/ /\ claim'[s][m] # NoToken /\ claim'[s][m] \in Fresh(m)
                  /\ m \in Eligible(s) /\ rowLock'[m] = s
      BY <2>2, ClaimSelectEffect
    <3>3. \A m \in Monitor : task[s][m] = "none"
      BY <3>1
    <3>4. TasksFitClaims'
      BY <3>1, <3>2, <3>3 DEF Eligible
    <3>5. TransactionsHoldLocks'
      BY <3>1, <3>2, <3>3 DEF Eligible
    <3>6. ClaimsAreFree'
      BY <3>1, <3>2 DEF Eligible, Fresh
    <3>7. TokensAreUnique'
      <4>1. \A m \in Monitor, t \in Scheduler :
              t # s /\ claim'[s][m] # NoToken => claim'[s][m] # claim'[t][m]
        BY <3>2 DEF Fresh
      <4>2. SUFFICES ASSUME NEW m \in Monitor, NEW r \in Scheduler,
                            NEW t \in Scheduler, r # t,
                            claim'[r][m] = claim'[t][m], claim'[r][m] # NoToken
                     PROVE  FALSE
        OBVIOUS
      <4>3. r # s /\ t # s
        BY <4>1, <4>2
      <4> QED
        BY <3>2, <4>2, <4>3
    <3>8. VerifiedHoldsLease'
      <4> SUFFICES ASSUME NEW t \in Scheduler, NEW m \in Monitor,
                          task'[t][m] = "verified"
                   PROVE  row'[m] = "live" /\ leaseToken'[m] = claim'[t][m]
        OBVIOUS
      <4>1. task[t][m] = "verified" /\ t # s
        BY <3>1, <3>3
      <4> QED
        BY <3>1, <3>2, <4>1
    <3> QED
      BY <3>4, <3>5, <3>6, <3>7, <3>8
  <2>3. ASSUME NEW s \in Scheduler, EndCycle(s) PROVE FencingInv'
    BY <2>3 DEF EndCycle
  <2>4. ASSUME NEW s \in Scheduler, ClaimCommit(s) PROVE FencingInv'
    BY <2>4 DEF ClaimCommit, ClaimsReachRows, LeaseTime, Wave
  <2>5. ASSUME NEW s \in Scheduler, ClaimFail(s) PROVE FencingInv'
    BY <2>5 DEF ClaimFail, ClaimsReachRows, LeaseTime, Wave, Rollback, Forget
  <2>6. ASSUME NEW s \in Scheduler, WaveDone(s) PROVE FencingInv'
    BY <2>6 DEF WaveDone, Wave
  <2>7. ASSUME NEW s \in Scheduler, Release(s) PROVE FencingInv'
    BY <2>7 DEF Release, AfterRelease, Forget
  <2>8. ASSUME NEW s \in Scheduler, ReleaseFail(s) PROVE FencingInv'
    BY <2>8 DEF ReleaseFail, AfterRelease, Forget
  <2>9. ASSUME NEW s \in Scheduler, Cancel(s) PROVE FencingInv'
    <3>1. CASE phase[s] = "wave"
      <4>1. /\ phase' = [phase EXCEPT ![s] = "stopping"]
            /\ task' = [task EXCEPT ![s] = [m \in Monitor |->
                          IF m \in Wave(s) THEN "done" ELSE "none"]]
            /\ Rollback(s) /\ UNCHANGED claim
        BY <2>9, <3>1 DEF Cancel
      <4> QED
        BY <3>1, <4>1 DEF Rollback, Wave
    <3>2. CASE phase[s] # "wave"
      <4>1. /\ Forget(s) /\ phase' = [phase EXCEPT ![s] = "stopped"]
            /\ \/ Rollback(s)
               \/ phase[s] = "claiming" /\ ClaimsReachRows(s)
        BY <2>9, <3>2 DEF Cancel
      <4>2. CASE Rollback(s)
        BY <4>1, <4>2 DEF Rollback, Forget
      <4>3. CASE phase[s] = "claiming" /\ ClaimsReachRows(s)
        BY <4>1, <4>3 DEF ClaimsReachRows, Wave, Forget
      <4> QED
        BY <4>1, <4>2, <4>3
    <3> QED
      BY <3>1, <3>2
  <2>10. ASSUME NEW s \in Scheduler, Crash(s) PROVE FencingInv'
    BY <2>10 DEF Crash, Rollback, Forget
  <2>11. ASSUME NEW s \in Scheduler, Restart(s) PROVE FencingInv'
    BY <2>11 DEF Restart
  <2>12. ASSUME NEW s \in Scheduler, NEW m \in Monitor, ProbeEnd(s, m) PROVE FencingInv'
    BY <2>12 DEF ProbeEnd
  <2>13. ASSUME NEW s \in Scheduler, NEW m \in Monitor, TaskFail(s, m) PROVE FencingInv'
    <3>1. /\ task[s][m] # "none"
          /\ task' = [task EXCEPT ![s][m] = "done"]
          /\ rowLock' = [rowLock EXCEPT ![m] = IF @ = s THEN NoOne ELSE @]
          /\ UNCHANGED <<row, leaseToken, leaseLeft, phase, claim>>
      BY <2>13 DEF TaskFail, TaskEnds
    <3>2. TasksFitClaims'
      BY <3>1
    <3>3. TransactionsHoldLocks'
      BY <3>1
    <3>4. ClaimsAreFree' /\ TokensAreUnique' /\ VerifiedHoldsLease'
      BY <3>1
    <3> QED
      BY <3>2, <3>3, <3>4
  <2>14. ASSUME NEW s \in Scheduler, NEW m \in Monitor, RecordLock(s, m) PROVE FencingInv'
    BY <2>14 DEF RecordLock
  <2>15. ASSUME NEW s \in Scheduler, NEW m \in Monitor, RecordGone(s, m) PROVE FencingInv'
    BY <2>15 DEF RecordGone
  <2>16. ASSUME NEW s \in Scheduler, NEW m \in Monitor, RecordVerify(s, m) PROVE FencingInv'
    BY <2>16 DEF RecordVerify, LeaseHolds
  <2>17. ASSUME NEW s \in Scheduler, NEW m \in Monitor, RecordDiscard(s, m) PROVE FencingInv'
    <3>1. /\ task[s][m] # "none"
          /\ task' = [task EXCEPT ![s][m] = "done"]
          /\ rowLock' = [rowLock EXCEPT ![m] = IF @ = s THEN NoOne ELSE @]
          /\ UNCHANGED <<row, leaseToken, leaseLeft, phase, claim>>
      BY <2>17 DEF RecordDiscard, TaskEnds
    <3>2. TasksFitClaims'
      BY <3>1
    <3>3. TransactionsHoldLocks'
      BY <3>1
    <3>4. ClaimsAreFree' /\ TokensAreUnique' /\ VerifiedHoldsLease'
      BY <3>1
    <3> QED
      BY <3>2, <3>3, <3>4
  <2>18. ASSUME NEW s \in Scheduler, NEW m \in Monitor, RecordCommit(s, m) PROVE FencingInv'
    BY <2>18 DEF RecordCommit, TaskEnds, Released, NextDue
  <2>19. ASSUME NEW m \in Monitor, ApiCreate(m) PROVE FencingInv'
    BY <2>19 DEF ApiCreate
  <2>20. ASSUME NEW m \in Monitor, ApiLock(m) PROVE FencingInv'
    BY <2>20 DEF ApiLock
  <2>21. ASSUME NEW m \in Monitor, ApiEdit(m) PROVE FencingInv'
    BY <2>21 DEF ApiEdit, ApiUnlock
  <2>22. ASSUME NEW m \in Monitor, ApiManual(m) PROVE FencingInv'
    BY <2>22 DEF ApiManual, ApiUnlock, NextDue
  <2>23. ASSUME NEW m \in Monitor, ApiDelete(m) PROVE FencingInv'
    BY <2>23 DEF ApiDelete, ApiUnlock
  <2>24. CASE Tick
    BY <2>24 DEF Tick, Later, Lower
  <2>25. CASE UNCHANGED vars
    BY <2>25 DEF vars
  <2> QED
    BY <2>1, <2>2, <2>3, <2>4, <2>5, <2>6, <2>7, <2>8, <2>9, <2>10, <2>11, <2>12, <2>13, <2>14, <2>15, <2>16, <2>17, <2>18, <2>19, <2>20, <2>21, <2>22, <2>23, <2>24, <2>25
       DEF Next, CycleStep, FaultStep, TaskStep, ApiStep
<1> QED
  BY <1>1, <1>2, TypeCorrect, PTL DEF Spec

(* The result of a check is committed only while the row still has the lease it
   was probed under: what "Discard results from expired or replaced owners" in
   docs/scheduler.md comes to once the transaction is under way. *)
THEOREM ResultsHoldTheirLease == Spec => []VerifiedHoldsLease
<1>1. FencingInv => VerifiedHoldsLease
  BY DEF FencingInv
<1> QED
  BY <1>1, Fencing, PTL

(* All that a step can do to the lease of one row. *)
LeaseStep(m) ==
  \/ leaseToken'[m] = leaseToken[m] /\ recordedBy'[m] = recordedBy[m]
  \/ /\ leaseLeft[m] = 0
     /\ leaseToken'[m] \in Token \ {leaseToken[m]}
     /\ recordedBy'[m] = NoToken
  \/ /\ leaseToken[m] # NoToken /\ leaseToken'[m] = NoToken
     /\ \E s \in Scheduler : GivenUp(s, m)
     /\ recordedBy'[m] \in {leaseToken[m], recordedBy[m]}
  \/ /\ leaseToken[m] # NoToken /\ leaseToken'[m] = NoToken
     /\ row'[m] = "deleted"
     /\ recordedBy'[m] = recordedBy[m]

LEMMA OnlyLeaseSteps ==
  ASSUME TypeOK, FencingInv, [Next]_vars, NEW i \in Monitor
  PROVE  LeaseStep(i)
<1> USE SchedulerAssumption, TokenAssumption
    DEF TypeOK, Tokens, rows, procs
<1>1. CASE /\ leaseToken' = leaseToken \/ leaseToken'[i] = leaseToken[i]
           /\ recordedBy' = recordedBy
  BY <1>1 DEF LeaseStep
<1>2. ASSUME NEW s \in Scheduler, phase[s] = "claiming", ClaimsReachRows(s)
      PROVE  LeaseStep(i)
  <2>1. CASE i \in Wave(s)
    <3>1. leaseLeft[i] = 0 /\ leaseToken[i] # claim[s][i] /\ claim[s][i] \in Token
      BY <1>2, <2>1 DEF FencingInv, ClaimsAreFree, Claiming, Wave
    <3> QED
      BY <1>2, <2>1, <3>1 DEF ClaimsReachRows, LeaseStep
  <2>2. CASE i \notin Wave(s)
    BY <1>2, <2>2 DEF ClaimsReachRows, LeaseStep
  <2> QED
    BY <2>1, <2>2
<1>3. ASSUME NEW s \in Scheduler, NEW m \in Monitor, RecordCommit(s, m)
      PROVE  LeaseStep(i)
  <2>1. /\ task[s][m] = "verified" /\ leaseToken[m] = claim[s][m]
        /\ claim[s][m] # NoToken
    BY <1>3 DEF RecordCommit, FencingInv, VerifiedHoldsLease, TasksFitClaims
  <2>2. GivenUp(s, m)
    BY <2>1 DEF GivenUp
  <2>3. CASE i = m
    BY <1>3, <2>1, <2>2, <2>3 DEF RecordCommit, Released, LeaseStep
  <2>4. CASE i # m
    BY <1>3, <2>4 DEF RecordCommit, Released, LeaseStep
  <2> QED
    BY <2>3, <2>4
<1>4. ASSUME NEW s \in Scheduler, Release(s) PROVE LeaseStep(i)
  <2>1. CASE i \in Wave(s) /\ leaseToken[i] = claim[s][i]
    <3>1. claim[s][i] # NoToken /\ task[s][i] = "done"
      BY <1>4, <2>1 DEF Release, Wave, FencingInv, TasksFitClaims
    <3>2. GivenUp(s, i)
      BY <2>1, <3>1 DEF GivenUp
    <3> QED
      BY <1>4, <2>1, <3>1, <3>2 DEF Release, LeaseStep
  <2>2. CASE ~(i \in Wave(s) /\ leaseToken[i] = claim[s][i])
    BY <1>4, <2>2 DEF Release, LeaseStep
  <2> QED
    BY <2>1, <2>2
<1>5. ASSUME NEW m \in Monitor, ApiDelete(m) PROVE LeaseStep(i)
  BY <1>5 DEF ApiDelete, ApiUnlock, LeaseStep
<1>6. ASSUME NEW s \in Scheduler, CycleStep(s) PROVE LeaseStep(i)
  BY <1>1, <1>2, <1>4, <1>6
     DEF CycleStep, Poll, ClaimSelect, EndCycle, ClaimCommit, WaveDone
<1>7. ASSUME NEW s \in Scheduler, FaultStep(s) PROVE LeaseStep(i)
  BY <1>1, <1>2, <1>7
     DEF FaultStep, ClaimFail, ReleaseFail, Cancel, Crash, Rollback
<1>8. ASSUME NEW s \in Scheduler, NEW m \in Monitor, TaskStep(s, m)
      PROVE  LeaseStep(i)
  BY <1>1, <1>3, <1>8
     DEF TaskStep, ProbeEnd, TaskFail, RecordLock, RecordGone, RecordVerify,
         RecordDiscard
<1>9. ASSUME NEW m \in Monitor, ApiStep(m) PROVE LeaseStep(i)
  BY <1>1, <1>5, <1>9
     DEF ApiStep, ApiCreate, ApiLock, ApiEdit, ApiManual, ApiUnlock
<1>10. CASE Tick
  BY <1>1, <1>10 DEF Tick
<1>11. CASE \E s \in Scheduler : Restart(s)
  BY <1>1, <1>11 DEF Restart
<1>12. CASE UNCHANGED vars
  BY <1>1, <1>12 DEF vars
<1> QED
  BY <1>6, <1>7, <1>8, <1>9, <1>10, <1>11, <1>12 DEF Next

(* "An old process cannot clear a replacement's lease": an unexpired lease of a
   row that stays is given up by its owner only. *)
THEOREM LeaseIsLeftByOwner == Spec => LeaseLeftOnlyByOwner
<1>1. TypeOK /\ FencingInv /\ [Next]_vars =>
        [\A m \in Monitor :
           (/\ leaseToken[m] # NoToken /\ leaseLeft[m] > 0
            /\ leaseToken'[m] # leaseToken[m] /\ row'[m] = "live")
             => \E s \in Scheduler : GivenUp(s, m)]_vars
  <2> SUFFICES ASSUME TypeOK, FencingInv, [Next]_vars, NEW m \in Monitor,
                      leaseLeft[m] > 0, leaseToken'[m] # leaseToken[m],
                      row'[m] = "live"
               PROVE  \E s \in Scheduler : GivenUp(s, m)
    OBVIOUS
  <2>1. LeaseStep(m)
    BY OnlyLeaseSteps
  <2> QED
    BY <2>1 DEF LeaseStep
<1> QED
  BY <1>1, TypeCorrect, Fencing, PTL DEF Spec, LeaseLeftOnlyByOwner

(* CheckLease implements FencedLease: no claim has two accepted results, and
   none is accepted from a claim that has been replaced. *)
THEOREM RowsAreFenced == Spec => EveryRowIsFenced
<1>1. Init => Lease!Init
  BY DEF Init, Lease!Init
<1>2. TypeOK /\ TypeOK' /\ FencingInv /\ [Next]_vars => [Lease!Next]_(Lease!vars)
  <2> SUFFICES ASSUME TypeOK, TypeOK', FencingInv, [Next]_vars
               PROVE  Lease!Next
    OBVIOUS
  <2>1. leaseToken' \in Lease!Tables /\ recordedBy' \in Lease!Tables
    BY DEF TypeOK, Tokens, Lease!Tables
  <2>2. ASSUME NEW m \in Monitor
        PROVE  Lease!Keep(m) \/ Lease!Claim(m) \/ Lease!Accept(m) \/ Lease!Drop(m)
    <3>1. LeaseStep(m)
      BY OnlyLeaseSteps
    <3> QED
      BY <3>1 DEF LeaseStep, Lease!Keep, Lease!Claim, Lease!Accept, Lease!Drop
  <2> QED
    BY <2>1, <2>2 DEF Lease!Next
<1> QED
  BY <1>1, <1>2, TypeCorrect, Fencing, PTL
     DEF Spec, EveryRowIsFenced, Lease!Spec

(* With prompt timeouts the lease of a running probe lasts longer than the
   probe: the claim transaction takes less than grace, which the lease adds to
   timeout_seconds, and no other process can give the lease away. *)
THEOREM LeasesOutliveProbes == Spec => []LeaseOutlivesProbe
<1> USE SchedulerAssumption, TokenAssumption, LimitsAssumption
        DEF TypeOK, Tokens, rows, procs
<1>1. Init => LeaseOutlivesProbe
  BY DEF Init, LeaseOutlivesProbe
<1>2. TypeOK /\ TypeOK' /\ FencingInv /\ LeaseOutlivesProbe /\ [Next]_vars
        => LeaseOutlivesProbe'
  <2> SUFFICES ASSUME TypeOK, TypeOK', FencingInv, LeaseOutlivesProbe,
                      [Next]_vars, Prompt,
                      NEW r \in Scheduler, NEW i \in Monitor,
                      task'[r][i] = "probing", row'[i] = "live"
               PROVE  leaseToken'[i] = claim'[r][i] /\ leaseLeft'[i] > probeLeft'[r][i]
    BY DEF LeaseOutlivesProbe
  <2> DEFINE Holds  == leaseToken[i] = claim[r][i] /\ leaseLeft[i] > probeLeft[r][i]
             Holds2 == leaseToken'[i] = claim'[r][i] /\ leaseLeft'[i] > probeLeft'[r][i]
  <2>1. task[r][i] = "probing" /\ row[i] = "live" => Holds
    BY DEF LeaseOutlivesProbe
  <2>2. task[r][i] = "probing" => phase[r] = "wave" /\ claim[r][i] # NoToken
    BY DEF FencingInv, TasksFitClaims, Phases, Tasks
  <2>3. ASSUME NEW s \in Scheduler, ClaimsReachRows(s), phase[s] = "claiming",
               task[r][i] = "probing", row[i] = "live"
        PROVE  leaseToken'[i] = leaseToken[i] /\ leaseLeft'[i] = leaseLeft[i]
    <3>1. leaseLeft[i] # 0
      BY <2>1, <2>3
    <3>2. i \notin Wave(s)
      BY <2>3, <3>1 DEF Wave, FencingInv, ClaimsAreFree, Claiming
    <3> QED
      BY <2>3, <3>2 DEF ClaimsReachRows
  <2>4. ASSUME NEW s \in Scheduler, ClaimCommit(s) PROVE Holds2
    <3>1. CASE r = s
      <4>1. i \in Wave(s)
        BY <2>4, <3>1 DEF ClaimCommit
      <4>2. leaseToken'[i] = claim'[r][i]
        BY <2>4, <3>1, <4>1 DEF ClaimCommit, ClaimsReachRows
      <4>3. leaseLeft'[i] = probeLeft'[r][i] + Grace - claimAge[s]
        BY <2>4, <3>1, <4>1 DEF ClaimCommit, ClaimsReachRows, LeaseTime
      <4>4. claimAge[s] < Grace
        BY <2>4 DEF ClaimCommit
      <4> QED
        BY <4>2, <4>3, <4>4
    <3>2. CASE r # s
      BY <2>1, <2>3, <2>4, <3>2 DEF ClaimCommit, ClaimsReachRows
    <3> QED
      BY <3>1, <3>2
  <2>5. ASSUME NEW s \in Scheduler, Release(s) PROVE Holds2
    <3>1. r # s /\ task[r][i] = "probing" /\ row[i] = "live"
      BY <2>5, <2>2 DEF Release, AfterRelease, Forget
    <3>2. claim[s][i] # leaseToken[i]
      BY <2>1, <2>2, <3>1 DEF FencingInv, TokensAreUnique
    <3> QED
      BY <2>1, <2>5, <3>1, <3>2 DEF Release, AfterRelease, Forget
  <2>6. ASSUME NEW s \in Scheduler, NEW m \in Monitor, RecordCommit(s, m)
        PROVE  Holds2
    <3>1. /\ task[r][i] = "probing" /\ row[i] = "live"
          /\ claim' = claim /\ probeLeft' = probeLeft
          /\ task[s][m] = "verified"
      BY <2>6 DEF RecordCommit, TaskEnds
    <3>2. CASE m # i
      BY <2>1, <2>6, <3>1, <3>2 DEF RecordCommit, Released
    <3>3. CASE m = i
      <4>1. leaseToken[i] = claim[s][i] /\ leaseToken[i] = claim[r][i]
        BY <2>1, <3>1, <3>3 DEF FencingInv, VerifiedHoldsLease
      <4>2. r = s
        <5>1. claim[s][i] = claim[r][i] /\ claim[s][i] # NoToken
          BY <2>2, <3>1, <4>1
        <5>2. TokensAreUnique
          BY DEF FencingInv
        <5> QED
          BY <5>1, <5>2, Zenon DEF TokensAreUnique
      <4> QED
        BY <3>1, <3>3, <4>2
    <3> QED
      BY <3>2, <3>3
  <2>7. ASSUME NEW s \in Scheduler, CycleStep(s) PROVE Holds2
    <3>1. CASE ClaimSelect(s)
      <4>1. r # s /\ task[r][i] = "probing" /\ row[i] = "live"
        BY <2>2, <3>1 DEF ClaimSelect
      <4>2. claim'[r] = claim[r] /\ probeLeft'[r] = probeLeft[r]
        BY <3>1, <4>1, ClaimSelectEffect
      <4> QED
        BY <2>1, <3>1, <4>1, <4>2 DEF ClaimSelect
    <3>2. CASE Poll(s) \/ EndCycle(s) \/ WaveDone(s)
      BY <2>1, <3>2 DEF Poll, EndCycle, WaveDone
    <3> QED
      BY <2>4, <2>5, <2>7, <3>1, <3>2 DEF CycleStep
  <2>8. ASSUME NEW s \in Scheduler, FaultStep(s) PROVE Holds2
    <3>1. row' = row
      BY <2>8 DEF FaultStep, ClaimFail, ReleaseFail, Cancel, Crash, Rollback,
                  ClaimsReachRows
    <3>2. CASE Forget(s)
      <4>1. r # s
        BY <3>2 DEF Forget
      <4>2. task[r][i] = "probing"
        BY <3>2, <4>1 DEF Forget
      <4>3. claim'[r] = claim[r] /\ probeLeft'[r] = probeLeft[r]
        BY <3>2, <4>1 DEF Forget
      <4>4. leaseToken'[i] = leaseToken[i] /\ leaseLeft'[i] = leaseLeft[i]
        BY <2>3, <2>8, <3>1, <4>2 DEF FaultStep, ClaimFail, ReleaseFail, Cancel,
                                      Crash, Rollback
      <4> QED
        BY <2>1, <3>1, <4>2, <4>3, <4>4
    <3>3. CASE Cancel(s) /\ phase[s] = "wave"
      <4>1. /\ task' = [task EXCEPT ![s] = [m \in Monitor |->
                          IF m \in Wave(s) THEN "done" ELSE "none"]]
            /\ probeLeft' = [probeLeft EXCEPT ![s] = [m \in Monitor |-> 0]]
            /\ UNCHANGED <<claim, leaseToken, leaseLeft>>
        BY <3>3 DEF Cancel, Rollback
      <4>2. r # s /\ task[r][i] = "probing"
        BY <4>1
      <4> QED
        BY <2>1, <3>1, <4>1, <4>2
    <3> QED
      BY <2>8, <3>2, <3>3
         DEF FaultStep, ClaimFail, ReleaseFail, AfterRelease, Cancel, Crash
  <2>9. ASSUME NEW s \in Scheduler, NEW m \in Monitor, TaskStep(s, m)
        PROVE  Holds2
    <3>1. CASE RecordCommit(s, m)
      BY <2>6, <3>1
    <3>2. CASE ProbeEnd(s, m) \/ TaskFail(s, m)
      <4>1. /\ task[r][i] = "probing" /\ ~(r = s /\ i = m)
            /\ probeLeft' = [probeLeft EXCEPT ![s][m] = 0]
            /\ UNCHANGED <<row, claim, leaseToken, leaseLeft>>
        BY <3>2 DEF ProbeEnd, TaskFail, TaskEnds
      <4> QED
        BY <2>1, <4>1
    <3>3. CASE \/ RecordLock(s, m) \/ RecordGone(s, m)
               \/ RecordVerify(s, m) \/ RecordDiscard(s, m)
      <4>1. /\ task[r][i] = "probing"
            /\ UNCHANGED <<row, claim, leaseToken, leaseLeft, probeLeft>>
        <5>1. \E x \in {"locked", "verified", "done"} :
                task' = [task EXCEPT ![s][m] = x]
          BY <3>3
             DEF RecordLock, RecordGone, RecordVerify, RecordDiscard, TaskEnds
        <5>2. UNCHANGED <<row, claim, leaseToken, leaseLeft, probeLeft>>
          BY <3>3
             DEF RecordLock, RecordGone, RecordVerify, RecordDiscard
        <5> QED
          BY <5>1, <5>2
      <4> QED
        BY <2>1, <4>1
    <3> QED
      BY <2>9, <3>1, <3>2, <3>3 DEF TaskStep
  <2>10. ASSUME NEW m \in Monitor, ApiStep(m) PROVE Holds2
    BY <2>1, <2>2, <2>10
       DEF FencingInv, TasksFitClaims, ApiStep, ApiCreate, ApiLock, ApiEdit, ApiManual, ApiDelete, ApiUnlock
  <2>11. CASE Tick
    BY <2>1, <2>11 DEF Tick, Later
  <2>12. CASE \E s \in Scheduler : Restart(s)
    BY <2>1, <2>12 DEF Restart
  <2>13. CASE UNCHANGED vars
    BY <2>1, <2>13 DEF vars
  <2> QED
    BY <2>7, <2>8, <2>9, <2>10, <2>11, <2>12, <2>13 DEF Next
<1> QED
  BY <1>1, <1>2, TypeCorrect, Fencing, PTL DEF Spec

(* A probe starts only when its process commits the claim. *)
LEMMA ProbesStartWithClaims ==
  ASSUME TypeOK, [Next]_vars, NEW r \in Scheduler, NEW i \in Monitor,
         task'[r][i] = "probing", task[r][i] # "probing"
  PROVE  ClaimCommit(r) /\ i \in Wave(r)
<1> USE DEF TypeOK, rows, procs
<1>1. CASE task' = task
  BY <1>1
<1>2. ASSUME NEW s \in Scheduler, ClaimCommit(s)
      PROVE  ClaimCommit(r) /\ i \in Wave(r)
  BY <1>2 DEF ClaimCommit
<1>3. ASSUME NEW s \in Scheduler, CycleStep(s)
      PROVE  ClaimCommit(r) /\ i \in Wave(r)
  <2>1. CASE Release(s)
    BY <2>1 DEF Release, AfterRelease, Forget
  <2>2. CASE Poll(s) \/ ClaimSelect(s) \/ EndCycle(s) \/ WaveDone(s)
    BY <1>1, <2>2 DEF Poll, ClaimSelect, EndCycle, WaveDone
  <2> QED
    BY <1>2, <1>3, <2>1, <2>2 DEF CycleStep
<1>4. ASSUME NEW s \in Scheduler, FaultStep(s) PROVE FALSE
  <2>1. CASE Forget(s)
    BY <2>1 DEF Forget
  <2>2. CASE Cancel(s) /\ phase[s] = "wave"
    <3>1. task' = [task EXCEPT ![s] = [m \in Monitor |->
                     IF m \in Wave(s) THEN "done" ELSE "none"]]
      BY <2>2 DEF Cancel
    <3> QED
      BY <3>1
  <2> QED
    BY <1>4, <2>1, <2>2
       DEF FaultStep, ClaimFail, ReleaseFail, AfterRelease, Cancel, Crash
<1>5. ASSUME NEW s \in Scheduler, NEW m \in Monitor, TaskStep(s, m) PROVE FALSE
  <2>1. \E x \in {"probed", "locked", "verified", "done"} :
          task' = [task EXCEPT ![s][m] = x]
    BY <1>5 DEF TaskStep, ProbeEnd, TaskFail, RecordLock, RecordGone,
                RecordVerify, RecordDiscard, RecordCommit, TaskEnds
  <2> QED
    BY <2>1
<1>6. ASSUME NEW m \in Monitor, ApiStep(m) PROVE FALSE
  BY <1>1, <1>6 DEF ApiStep, ApiCreate, ApiLock, ApiEdit, ApiManual, ApiDelete,
                    ApiUnlock
<1>7. CASE Tick \/ UNCHANGED vars \/ \E s \in Scheduler : Restart(s)
  BY <1>1, <1>7 DEF Tick, vars, Restart
<1> QED
  BY <1>3, <1>4, <1>5, <1>6, <1>7 DEF Next

(* As long as timeouts fire when they are due, at most one process probes a
   monitor at any time. *)
THEOREM ProbesDoNotOverlap == Spec => []NoOverlappingProbes
<1>1. Init => NoOverlappingProbes
  BY DEF Init, NoOverlappingProbes
<1>2. TypeOK /\ FencingInv /\ LeaseOutlivesProbe /\ NoOverlappingProbes
        /\ [Next]_vars => NoOverlappingProbes'
  <2> SUFFICES ASSUME TypeOK, FencingInv, LeaseOutlivesProbe, [Next]_vars,
                      NoOverlappingProbes, Prompt, NEW i \in Monitor,
                      NEW s \in Scheduler, NEW t \in Scheduler,
                      task'[s][i] = "probing", task'[t][i] = "probing"
               PROVE  s = t
    BY DEF NoOverlappingProbes
  <2>1. ASSUME NEW r \in Scheduler, task'[r][i] = "probing",
               NEW u \in Scheduler, task'[u][i] = "probing",
               r # u, task[r][i] # "probing"
        PROVE  FALSE
    <3>1. ClaimCommit(r) /\ i \in Wave(r)
      BY <2>1, ProbesStartWithClaims
    <3>2. row[i] = "live" /\ leaseLeft[i] = 0
      BY <3>1 DEF FencingInv, TransactionsHoldLocks, ClaimsAreFree, Claiming,
                  ClaimCommit, Wave
    <3>3. task[u][i] = "probing"
      BY <2>1, <3>1 DEF ClaimCommit, TypeOK
    <3>4. leaseLeft[i] > probeLeft[u][i] /\ probeLeft[u][i] \in Nat
      BY <3>2, <3>3 DEF LeaseOutlivesProbe, TypeOK
    <3> QED
      BY <3>2, <3>4
  <2>2. CASE task[s][i] = "probing" /\ task[t][i] = "probing"
    BY <2>2 DEF NoOverlappingProbes
  <2> QED
    BY <2>1, <2>2
<1> QED
  BY <1>1, <1>2, TypeCorrect, Fencing, LeasesOutliveProbes, PTL DEF Spec
(* The inductive form of CycleIsBounded: a claim transaction that is open has
   left room for its wave in the batch. *)
WithinBatch(s) ==
  /\ Cardinality(attempted[s]) <= BatchSize
  /\ Cardinality(Wave(s)) <= Concurrency
  /\ phase[s] = "claiming" =>
       Cardinality(attempted[s]) + Cardinality(Wave(s)) <= BatchSize

LEMMA SetsAreFinite ==
  ASSUME TypeOK, NEW s \in Scheduler
  PROVE  /\ IsFiniteSet(attempted[s]) /\ Cardinality(attempted[s]) \in Nat
         /\ IsFiniteSet(Wave(s)) /\ Cardinality(Wave(s)) \in Nat
<1>1. attempted[s] \in SUBSET Monitor /\ Wave(s) \in SUBSET Monitor
  BY DEF TypeOK, Wave
<1>2. IsFiniteSet(attempted[s]) /\ IsFiniteSet(Wave(s))
  BY <1>1, SchedulerAssumption, FS_Subset
<1> QED
  BY <1>2, FS_CardinalityType

(* A claim takes no more than concurrency and what is left of the batch. *)
LEMMA SelectFits ==
  ASSUME TypeOK, NEW s \in Scheduler, ClaimSelect(s)
  PROVE  /\ Cardinality(Wave(s)') <= Concurrency
         /\ Cardinality(attempted[s]) + Cardinality(Wave(s)') <= BatchSize
<1>1. PICK w \in FirstDue(s) :
        \E tok \in [w -> Token], t \in [w -> Timeouts] :
          /\ \A m \in w : tok[m] \in Fresh(m)
          /\ claim' = [claim EXCEPT ![s] = [m \in Monitor |->
                         IF m \in w THEN tok[m] ELSE NoToken]]
          /\ probeLeft' = [probeLeft EXCEPT ![s] = [m \in Monitor |->
                             IF m \in w THEN t[m] ELSE 0]]
  BY Zenon DEF ClaimSelect
<1>2. PICK tok \in [w -> Token] :
        claim' = [claim EXCEPT ![s] = [m \in Monitor |->
                    IF m \in w THEN tok[m] ELSE NoToken]]
  BY <1>1, Zenon
<1>3. w \subseteq Eligible(s) /\ Eligible(s) \subseteq Monitor
      /\ Cardinality(w) = Lower(Limit(s), Cardinality(Eligible(s)))
  BY DEF FirstDue, Eligible
<1>4. \A m \in Monitor :
        claim'[s][m] = IF m \in w THEN tok[m] ELSE NoToken
  BY <1>2 DEF TypeOK
<1>5. Wave(s)' = w
  BY <1>2, <1>3, <1>4, TokenAssumption DEF Wave
<1>6. IsFiniteSet(Eligible(s))
  BY <1>3, SchedulerAssumption, FS_Subset
<1>7. Cardinality(Eligible(s)) \in Nat
  BY <1>6, FS_CardinalityType
<1>8. Cardinality(attempted[s]) \in Nat
  BY SetsAreFinite
<1> QED
  BY <1>3, <1>5, <1>7, <1>8, LimitsAssumption DEF Lower, Limit

(* The batch after a wave is what it was, and the wave. *)
LEMMA CommitFits ==
  ASSUME TypeOK, NEW s \in Scheduler, WithinBatch(s), phase[s] = "claiming"
  PROVE  Cardinality(attempted[s] \cup Wave(s)) <= BatchSize
<1>1. IsFiniteSet(attempted[s] \cap Wave(s))
  BY SetsAreFinite, FS_Subset
<1>2. Cardinality(attempted[s] \cap Wave(s)) \in Nat
  BY <1>1, FS_CardinalityType
<1>3. Cardinality(attempted[s] \cup Wave(s)) =
        Cardinality(attempted[s]) + Cardinality(Wave(s))
          - Cardinality(attempted[s] \cap Wave(s))
  BY SetsAreFinite, FS_Union
<1> QED
  BY <1>2, <1>3, SetsAreFinite, LimitsAssumption DEF WithinBatch

(* No cycle exceeds batch_size monitors, no wave exceeds concurrency tasks. *)
THEOREM CyclesAreBounded == Spec => []CycleIsBounded
<1> DEFINE Inv == \A s \in Scheduler : WithinBatch(s)
<1>1. Init => Inv
  <2> SUFFICES ASSUME Init, NEW s \in Scheduler PROVE WithinBatch(s)
    OBVIOUS
  <2>1. attempted[s] = {} /\ Wave(s) = {} /\ phase[s] = "idle"
    BY DEF Init, Wave
  <2> QED
    BY <2>1, FS_EmptySet, LimitsAssumption DEF WithinBatch
<1>2. TypeOK /\ Inv /\ [Next]_vars => Inv'
  <2> SUFFICES ASSUME TypeOK, Inv, [Next]_vars, NEW s \in Scheduler
               PROVE  WithinBatch(s)'
    OBVIOUS
  <2>0. WithinBatch(s)
    OBVIOUS
  <2>1. ASSUME attempted'[s] = attempted[s] \/ attempted'[s] = {},
               claim'[s] = claim[s] \/ \A m \in Monitor : claim'[s][m] = NoToken,
               phase'[s] # "claiming"
        PROVE  WithinBatch(s)'
    <3>1. Cardinality(attempted'[s]) <= BatchSize
      BY <2>0, <2>1, FS_EmptySet, LimitsAssumption DEF WithinBatch
    <3>2. Wave(s)' = Wave(s) \/ Wave(s)' = {}
      BY <2>1 DEF Wave
    <3>3. Cardinality(Wave(s)') <= Concurrency
      <4>1. CASE Wave(s)' = Wave(s)
        <5>1. Cardinality(Wave(s)) <= Concurrency
          BY <2>0 DEF WithinBatch
        <5> QED
          BY <4>1, <5>1, Zenon
      <4>2. CASE Wave(s)' = {}
        BY <4>2, FS_EmptySet, LimitsAssumption
      <4> QED
        BY <3>2, <4>1, <4>2
    <3> QED
      BY <2>1, <3>1, <3>3 DEF WithinBatch
  <2>2. ASSUME attempted'[s] = attempted[s], claim'[s] = claim[s],
               phase'[s] = phase[s]
        PROVE  WithinBatch(s)'
    <3>1. Wave(s)' = Wave(s)
      BY <2>2 DEF Wave
    <3> QED
      BY <2>0, <2>2, <3>1 DEF WithinBatch
  <2>3. ASSUME NEW r \in Scheduler, CycleStep(r) PROVE WithinBatch(s)'
    <3>1. CASE r = s /\ ClaimSelect(s)
      <4>1. attempted' = attempted
        BY <3>1 DEF ClaimSelect
      <4> QED
        BY <2>0, <3>1, <4>1, SelectFits DEF WithinBatch
    <3>2. CASE r = s /\ ClaimCommit(s)
      <4>1. /\ attempted'[s] = attempted[s] \cup Wave(s)
            /\ claim' = claim /\ phase'[s] = "wave" /\ phase[s] = "claiming"
        BY <3>2 DEF ClaimCommit, TypeOK
      <4>2. Wave(s)' = Wave(s)
        BY <4>1 DEF Wave
      <4> QED
        BY <2>0, <4>1, <4>2, CommitFits DEF WithinBatch
    <3>3. CASE r = s /\ (Poll(s) \/ EndCycle(s) \/ WaveDone(s))
      BY <2>1, <3>3 DEF Poll, EndCycle, WaveDone, CycleOver, TypeOK
    <3>4. CASE r = s /\ Release(s)
      BY <2>1, <3>4 DEF Release, AfterRelease, Forget, CycleOver, TypeOK
    <3>5. CASE r # s
      <4>1. CASE ClaimSelect(r)
        <5>1. claim'[s] = claim[s]
          BY <3>5, <4>1, ClaimSelectEffect
        <5> QED
          BY <2>2, <3>5, <4>1, <5>1 DEF ClaimSelect, TypeOK
      <4>2. CASE ~ClaimSelect(r)
        BY <2>2, <2>3, <3>5, <4>2
           DEF CycleStep, Poll, EndCycle, ClaimCommit, WaveDone, Release,
               AfterRelease, Forget, CycleOver, TypeOK
      <4> QED
        BY <4>1, <4>2
    <3> QED
      BY <2>3, <3>1, <3>2, <3>3, <3>4, <3>5 DEF CycleStep
  <2>4. ASSUME NEW r \in Scheduler, FaultStep(r) \/ Restart(r)
        PROVE  WithinBatch(s)'
    <3>1. CASE r = s
      BY <2>1, <2>4, <3>1
         DEF FaultStep, ClaimFail, ReleaseFail, AfterRelease, Cancel, Crash,
             Restart, Forget, CycleOver, TypeOK
    <3>2. CASE r # s
      BY <2>2, <2>4, <3>2
         DEF FaultStep, ClaimFail, ReleaseFail, AfterRelease, Cancel, Crash,
             Restart, Forget, CycleOver, TypeOK
    <3> QED
      BY <3>1, <3>2
  <2>5. ASSUME NEW r \in Scheduler, NEW m \in Monitor, TaskStep(r, m)
        PROVE  UNCHANGED <<attempted, claim, phase>>
    BY <2>5 DEF TaskStep, ProbeEnd, TaskFail, RecordLock, RecordGone,
                RecordVerify, RecordDiscard, RecordCommit
  <2>6. ASSUME NEW m \in Monitor, ApiStep(m)
        PROVE  UNCHANGED <<attempted, claim, phase>>
    BY <2>6 DEF ApiStep, ApiCreate, ApiLock, ApiEdit, ApiManual, ApiDelete,
                ApiUnlock, procs
  <2>7. ASSUME Tick \/ UNCHANGED vars
        PROVE  UNCHANGED <<attempted, claim, phase>>
    BY <2>7 DEF Tick, vars
  <2> QED
    BY <2>2, <2>3, <2>4, <2>5, <2>6, <2>7 DEF Next
<1>3. Inv => CycleIsBounded
  BY DEF WithinBatch, CycleIsBounded
<1> QED
  BY <1>1, <1>2, <1>3, TypeCorrect, PTL DEF Spec

(* The inductive invariant of the scheduler holds for any number of processes,
   monitors and tokens and any limits. *)
THEOREM LeasesHold == Spec => []LeaseInv
BY TypeCorrect, Fencing, PTL DEF LeaseInv

=============================================================================
