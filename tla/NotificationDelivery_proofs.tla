--------------------- MODULE NotificationDelivery_proofs ---------------------
(* What holds of NotificationDelivery for every set of workers, deliveries and
   tokens and for every limit, proved with TLAPS. *)
EXTENDS NotificationDelivery, TLAPS

(* What a claim transaction writes, row by row: it locks eligible rows only,
   reads their attempts, and gives each a token that nobody knows of. *)
LEMMA ClaimSelectEffect ==
  ASSUME TypeOK, NEW w \in Worker, ClaimSelect(w)
  PROVE  /\ claim' \in [Worker -> [Delivery -> Tokens]]
         /\ seen' \in [Worker -> [Delivery -> 0 .. MaxAttempts - 1]]
         /\ rowLock' \in [Delivery -> Worker \cup {NoOne}]
         /\ \A v \in Worker :
              v # w => claim'[v] = claim[v] /\ seen'[v] = seen[v]
         /\ \A d \in Delivery :
              \/ /\ claim'[w][d] = NoToken
                 /\ rowLock'[d] = rowLock[d]
              \/ /\ claim'[w][d] # NoToken
                 /\ claim'[w][d] \in Fresh(d)
                 /\ seen'[w][d] = attempts[d]
                 /\ d \in Eligible(w)
                 /\ rowLock'[d] = w
<1> USE TokenAssumption, LimitsAssumption DEF TypeOK, Tokens
<1>1. PICK e \in FirstDue(w) :
        /\ \E tok \in [e -> Token] :
             /\ \A d \in e : tok[d] \in Fresh(d)
             /\ claim' = [claim EXCEPT ![w] = [d \in Delivery |->
                            IF d \in e THEN tok[d] ELSE NoToken]]
        /\ seen' = [seen EXCEPT ![w] = [d \in Delivery |->
                      IF d \in e THEN attempts[d] ELSE 0]]
        /\ rowLock' = [d \in Delivery |-> IF d \in e THEN w ELSE rowLock[d]]
  BY Zenon DEF ClaimSelect
<1>2. PICK tok \in [e -> Token] :
        /\ \A d \in e : tok[d] \in Fresh(d)
        /\ claim' = [claim EXCEPT ![w] = [d \in Delivery |->
                       IF d \in e THEN tok[d] ELSE NoToken]]
  BY <1>1, Zenon
<1>3. e \subseteq Eligible(w)
  BY DEF FirstDue
<1>4. /\ claim' \in [Worker -> [Delivery -> Tokens]]
      /\ \A v \in Worker : v # w => claim'[v] = claim[v]
  BY <1>2
<1>5. \A d \in Delivery : d \in e => attempts[d] \in 0 .. MaxAttempts - 1
  BY <1>3 DEF Eligible
<1>6. /\ seen' \in [Worker -> [Delivery -> 0 .. MaxAttempts - 1]]
      /\ \A v \in Worker : v # w => seen'[v] = seen[v]
      /\ \A d \in Delivery : d \in e => seen'[w][d] = attempts[d]
  BY <1>1, <1>5
<1>7. rowLock' \in [Delivery -> Worker \cup {NoOne}]
  BY <1>1
<1>8. ASSUME NEW d \in Delivery, d \in e
      PROVE  claim'[w][d] # NoToken /\ claim'[w][d] \in Fresh(d)
  BY <1>2, <1>8 DEF Fresh
<1>9. ASSUME NEW d \in Delivery, d \notin e
      PROVE  claim'[w][d] = NoToken
  BY <1>2, <1>9
<1> QED
  BY <1>1, <1>3, <1>4, <1>6, <1>7, <1>8, <1>9

(* Whatever is abandoned, receipts stay counts and losses stay flags. *)
LEMMA AbandonTypes ==
  ASSUME TypeOK, NEW w \in Worker, NEW ds, Abandon(w, ds)
  PROVE  /\ received' \in [Delivery -> 0 .. MaxReceived]
         /\ lost' \in [Delivery -> BOOLEAN]
<1>1. PICK r \in SUBSET {d \in ds : task[w][d] = "sending"} :
        /\ received' = [d \in Delivery |->
             IF d \in r THEN OneMore(received[d]) ELSE received[d]]
        /\ lost' = [d \in Delivery |->
             lost[d] \/ d \in r \/ (d \in ds /\ outcome[w][d] = "ok")]
  BY Zenon DEF Abandon
<1>2. received' \in [Delivery -> 0 .. MaxReceived]
  BY <1>1, LimitsAssumption DEF TypeOK, OneMore, Lower
<1>3. lost' \in [Delivery -> BOOLEAN]
  BY <1>1
<1> QED
  BY <1>2, <1>3

(* The times at which a failed send is tried again are numbers. *)
LEMMA NextDueIsInt ==
  ASSUME TypeOK, NEW w \in Worker, NEW d \in Delivery
  PROVE  NextDue(w, d) \subseteq Int
<1>1. seen[w][d] + 1 \in 1 .. MaxAttempts /\ timer[w][d] \in Nat
  BY LimitsAssumption DEF TypeOK
<1>2. RetryDelay(seen[w][d] + 1) \in Nat
  BY <1>1, RetryAssumption
<1> DEFINE delay == RetryDelay(seen[w][d] + 1)
<1>3. SUFFICES ASSUME NEW k \in (-Skew) .. Skew
      PROVE  Higher(delay + k - (DbTimeout - timer[w][d]), -MaxLate) \in Int
  BY DEF NextDue
<1>4. delay \in Nat
  BY <1>2
<1> HIDE DEF delay
<1> QED
  BY <1>1, <1>4, LimitsAssumption DEF Higher

(* What the end of a task leaves behind. *)
LEMMA TaskEndsTypes ==
  ASSUME TypeOK, NEW w \in Worker, NEW d \in Delivery, TaskEnds(w, d)
  PROVE  /\ task' \in [Worker -> [Delivery -> Tasks]]
         /\ timer' \in [Worker -> [Delivery -> Nat]]
         /\ outcome' \in [Worker -> [Delivery -> Outcomes]]
         /\ rowLock' \in [Delivery -> Worker \cup {NoOne}]
BY DEF TypeOK, TaskEnds, TaskGoes, Tasks, Outcomes

(* Every variable keeps its type; in particular no lease gets a negative time,
   and no claim has read attempts that are used up. *)
THEOREM TypeCorrect == Spec => []TypeOK
<1> USE WorkerAssumption, TokenAssumption, LimitsAssumption
        DEF Tokens, Phases, Tasks, Outcomes
<1>1. Init => TypeOK
  BY DEF Init, TypeOK
<1>2. TypeOK /\ [Next]_vars => TypeOK'
  <2> SUFFICES ASSUME TypeOK, [Next]_vars PROVE TypeOK'
    OBVIOUS
  <2> USE DEF TypeOK, rows, tasks, mem, aux
  <2>1. ASSUME NEW w \in Worker, Poll(w) \/ FanOutFail(w) \/ WaveDone(w) \/ Restart(w)
        PROVE  TypeOK'
    BY <2>1 DEF Poll, FanOutFail, WaveDone, Restart
  <2>2. ASSUME NEW w \in Worker, FanOut(w) PROVE TypeOK'
    <3>1. PICK ds \in SUBSET {d \in Delivery : row[d] = "unborn"},
               k \in (-Skew) .. Skew :
            /\ row' = [d \in Delivery |-> IF d \in ds THEN "live" ELSE row[d]]
            /\ dueIn' = [d \in Delivery |->
                           IF d \in ds THEN Higher(k, -MaxLate) ELSE dueIn[d]]
      BY <2>2, Zenon DEF FanOut
    <3>2. /\ row' \in [Delivery -> {"unborn", "live", "deleted"}]
          /\ dueIn' \in [Delivery -> Int]
      BY <3>1 DEF Higher
    <3> QED
      BY <2>2, <3>2 DEF FanOut
  <2>3. ASSUME NEW w \in Worker, ClaimSelect(w) PROVE TypeOK'
    <3>1. /\ claim' \in [Worker -> [Delivery -> Tokens]]
          /\ seen' \in [Worker -> [Delivery -> 0 .. MaxAttempts - 1]]
          /\ rowLock' \in [Delivery -> Worker \cup {NoOne}]
      BY <2>3, ClaimSelectEffect
    <3>2. /\ claimAge' \in [Worker -> 0 .. DbTimeout]
          /\ phase' \in [Worker -> Phases]
          /\ UNCHANGED <<row, done, attempts, dueIn, leaseToken, leaseLeft,
                         attempted, tasks, aux, recordedBy>>
      BY <2>3 DEF ClaimSelect
    <3> QED
      BY <3>1, <3>2
  <2>4. ASSUME NEW w \in Worker, EndCycle(w) PROVE TypeOK'
    BY <2>4 DEF EndCycle, CycleOver
  <2>5. ASSUME NEW w \in Worker, ClaimsReachRows(w)
        PROVE  /\ leaseToken' \in [Delivery -> Tokens]
               /\ leaseLeft' \in [Delivery -> Nat]
               /\ recordedBy' \in [Delivery -> Tokens]
               /\ rowLock' \in [Delivery -> Worker \cup {NoOne}]
               /\ UNCHANGED <<row, done, attempts, dueIn>>
    <3>1. Lease - claimAge[w] \in Nat
      BY DEF Lease, Higher
    <3> QED
      BY <2>5, <3>1 DEF ClaimsReachRows, Unlocked, Wave
  <2>6. ASSUME NEW w \in Worker, Rollback(w)
        PROVE  /\ rowLock' \in [Delivery -> Worker \cup {NoOne}]
               /\ UNCHANGED <<row, done, attempts, dueIn, leaseToken, leaseLeft,
                              recordedBy>>
    BY <2>6 DEF Rollback, Unlocked
  <2>7. ASSUME NEW w \in Worker, Forget(w)
        PROVE  /\ claim' \in [Worker -> [Delivery -> Tokens]]
               /\ seen' \in [Worker -> [Delivery -> 0 .. MaxAttempts - 1]]
               /\ claimAge' \in [Worker -> 0 .. DbTimeout]
               /\ task' \in [Worker -> [Delivery -> Tasks]]
               /\ timer' \in [Worker -> [Delivery -> Nat]]
               /\ outcome' \in [Worker -> [Delivery -> Outcomes]]
    BY <2>7 DEF Forget
  <2>8. ASSUME NEW w \in Worker, ClaimCommit(w) PROVE TypeOK'
    <3>1. /\ attempted' \in [Worker -> SUBSET Delivery]
          /\ task' \in [Worker -> [Delivery -> Tasks]]
          /\ timer' \in [Worker -> [Delivery -> Nat]]
          /\ claimAge' \in [Worker -> 0 .. DbTimeout]
          /\ phase' \in [Worker -> Phases]
          /\ UNCHANGED <<claim, seen, outcome, aux>>
      BY <2>8 DEF ClaimCommit, Wave
    <3>2. ClaimsReachRows(w)
      BY <2>8 DEF ClaimCommit
    <3> QED
      BY <2>5, <3>1, <3>2
  <2>9. ASSUME NEW w \in Worker, ClaimFail(w) PROVE TypeOK'
    <3>1. /\ Forget(w) /\ attempted' \in [Worker -> SUBSET Delivery]
          /\ phase' \in [Worker -> Phases] /\ UNCHANGED aux
          /\ ClaimsReachRows(w) \/ Rollback(w)
      BY <2>9 DEF ClaimFail, CycleOver
    <3> QED
      BY <2>5, <2>6, <2>7, <3>1
  <2>10. ASSUME NEW w \in Worker, Release(w) \/ ReleaseFail(w) PROVE TypeOK'
    <3>1. attempted' = [attempted EXCEPT ![w] = {}] \/ attempted' = attempted
      BY <2>10 DEF Release, ReleaseFail, AfterRelease, CycleOver
    <3>2. attempted' \in [Worker -> SUBSET Delivery]
      BY <3>1
    <3>3. Forget(w) /\ phase' \in [Worker -> Phases] /\ UNCHANGED aux
      BY <2>10 DEF Release, ReleaseFail, AfterRelease
    <3>4. /\ leaseToken' \in [Delivery -> Tokens]
          /\ leaseLeft' \in [Delivery -> Nat]
          /\ UNCHANGED <<row, done, attempts, dueIn, rowLock, recordedBy>>
      <4>1. CASE Release(w)
        BY <4>1 DEF Release
      <4>2. CASE ReleaseFail(w)
        BY <4>2 DEF ReleaseFail
      <4> QED
        BY <2>10, <4>1, <4>2
    <3> QED
      BY <2>7, <3>2, <3>3, <3>4
  <2>11. ASSUME NEW w \in Worker, Cancel(w) PROVE TypeOK'
    <3>1. CASE phase[w] = "wave"
      <4>1. /\ phase' \in [Worker -> Phases]
            /\ Abandon(w, Wave(w)) /\ Rollback(w)
            /\ task' = [task EXCEPT ![w] = [d \in Delivery |->
                          IF d \in Wave(w) THEN "done" ELSE "none"]]
            /\ timer' = [timer EXCEPT ![w] = [d \in Delivery |-> 0]]
            /\ outcome' = [outcome EXCEPT ![w] = [d \in Delivery |-> "none"]]
            /\ UNCHANGED <<attempted, claim, seen, claimAge>>
        BY <2>11, <3>1 DEF Cancel
      <4>2. task' \in [Worker -> [Delivery -> Tasks]]
        BY <4>1
      <4>3. /\ timer' \in [Worker -> [Delivery -> Nat]]
            /\ outcome' \in [Worker -> [Delivery -> Outcomes]]
        BY <4>1
      <4> QED
        BY <2>6, <4>1, <4>2, <4>3, AbandonTypes
    <3>2. CASE phase[w] # "wave"
      <4>1. /\ Forget(w) /\ attempted' \in [Worker -> SUBSET Delivery]
            /\ phase' \in [Worker -> Phases] /\ UNCHANGED aux
            /\ ClaimsReachRows(w) \/ Rollback(w)
        BY <2>11, <3>2 DEF Cancel, CycleOver
      <4> QED
        BY <2>5, <2>6, <2>7, <4>1
    <3> QED
      BY <3>1, <3>2
  <2>12. ASSUME NEW w \in Worker, Crash(w) PROVE TypeOK'
    <3>1. /\ Forget(w) /\ attempted' \in [Worker -> SUBSET Delivery]
          /\ phase' \in [Worker -> Phases]
          /\ Rollback(w) /\ Abandon(w, Wave(w))
      BY <2>12 DEF Crash, CycleOver
    <3> QED
      BY <2>6, <2>7, <3>1, AbandonTypes
  <2>13. ASSUME NEW w \in Worker, NEW d \in Delivery, NEW to \in Tasks,
                NEW time \in Nat, TaskGoes(w, d, to, time)
         PROVE  /\ task' \in [Worker -> [Delivery -> Tasks]]
                /\ timer' \in [Worker -> [Delivery -> Nat]]
    BY <2>13 DEF TaskGoes
  <2>14. ASSUME NEW w \in Worker, NEW d \in Delivery, LoadData(w, d)
         PROVE  TypeOK'
    <3>1. UNCHANGED <<rows, mem, outcome, aux, recordedBy>>
      BY <2>14 DEF LoadData
    <3>2. TaskGoes(w, d, "checking", DbTimeout) \/ TaskGoes(w, d, "done", 0)
      BY <2>14 DEF LoadData
    <3> QED
      BY <2>13, <3>1, <3>2
  <2>15. ASSUME NEW w \in Worker, NEW d \in Delivery,
                StartSend(w, d) \/ SkipSend(w, d)
         PROVE  TypeOK'
    <3>1. UNCHANGED <<rows, mem, outcome, aux, recordedBy>>
      BY <2>15 DEF StartSend, SkipSend
    <3>2. CASE SkipSend(w, d)
      BY <2>13, <3>1, <3>2 DEF SkipSend
    <3>3. CASE StartSend(w, d)
      <4>1. PICK elapsed \in 0 .. DbTimeout - timer[w][d] :
              /\ SendTime(d, elapsed) > 0
              /\ TaskGoes(w, d, "sending", SendTime(d, elapsed))
        BY <3>3, Zenon DEF StartSend
      <4>2. SendTime(d, elapsed) \in Nat
        BY <4>1 DEF SendTime, Lower
      <4> QED
        BY <2>13, <3>1, <4>1, <4>2
    <3> QED
      BY <2>15, <3>2, <3>3
  <2>16. ASSUME NEW w \in Worker, NEW d \in Delivery, SendOk(w, d)
         PROVE  TypeOK'
    <3>1. /\ outcome' \in [Worker -> [Delivery -> Outcomes]]
          /\ received' \in [Delivery -> 0 .. MaxReceived]
          /\ UNCHANGED <<rows, mem, lost, recordedBy>>
      BY <2>16 DEF SendOk, OneMore, Lower
    <3>2. TaskGoes(w, d, "recording", DbTimeout)
      BY <2>16 DEF SendOk
    <3> QED
      BY <2>13, <3>1, <3>2
  <2>17. ASSUME NEW w \in Worker, NEW d \in Delivery, SendError(w, d)
         PROVE  TypeOK'
    <3>1. /\ outcome' \in [Worker -> [Delivery -> Outcomes]]
          /\ Abandon(w, {d})
          /\ UNCHANGED <<rows, mem, recordedBy>>
      BY <2>17 DEF SendError
    <3>2. TaskGoes(w, d, "recording", DbTimeout)
      BY <2>17 DEF SendError
    <3> QED
      BY <2>13, <3>1, <3>2, AbandonTypes
  <2>18. ASSUME NEW w \in Worker, NEW d \in Delivery,
                TaskFail(w, d) \/ RecordGone(w, d) \/ RecordDiscard(w, d)
         PROVE  TypeOK'
    <3>1. /\ Abandon(w, {d}) /\ TaskEnds(w, d)
          /\ UNCHANGED <<row, done, attempts, dueIn, leaseToken, leaseLeft, mem,
                         recordedBy>>
      BY <2>18 DEF TaskFail, RecordGone, RecordDiscard
    <3>2. /\ received' \in [Delivery -> 0 .. MaxReceived]
          /\ lost' \in [Delivery -> BOOLEAN]
      BY <3>1, AbandonTypes
    <3> QED
      BY <3>1, <3>2, TaskEndsTypes
  <2>19. ASSUME NEW w \in Worker, NEW d \in Delivery,
                RecordLock(w, d) \/ RecordVerify(w, d)
         PROVE  TypeOK'
    <3>1. \E to \in {"locked", "verified"} :
            task' = [task EXCEPT ![w][d] = to]
      BY <2>19 DEF RecordLock, RecordVerify
    <3>2. task' \in [Worker -> [Delivery -> Tasks]]
      BY <3>1
    <3>3. rowLock' = [rowLock EXCEPT ![d] = w] \/ rowLock' = rowLock
      BY <2>19 DEF RecordLock, RecordVerify
    <3>4. rowLock' \in [Delivery -> Worker \cup {NoOne}]
      BY <3>3
    <3>5. UNCHANGED <<row, done, attempts, dueIn, leaseToken, leaseLeft, mem,
                      timer, outcome, aux, recordedBy>>
      BY <2>19 DEF RecordLock, RecordVerify
    <3> QED
      BY <3>2, <3>4, <3>5
  <2>20. ASSUME NEW w \in Worker, NEW d \in Delivery, RecordCommit(w, d)
         PROVE  TypeOK'
    <3>1. /\ attempts' = [attempts EXCEPT ![d] = seen[w][d] + 1]
          /\ TaskEnds(w, d) /\ Released(d, claim[w][d])
          /\ recordedBy' = [recordedBy EXCEPT ![d] = claim[w][d]]
          /\ UNCHANGED <<row, mem, aux>>
      BY <2>20 DEF RecordCommit
    <3>2. /\ done' = [done EXCEPT ![d] = TRUE] \/ done' = done
          /\ \/ dueIn' = dueIn
             \/ \E due \in NextDue(w, d) : dueIn' = [dueIn EXCEPT ![d] = due]
      BY <2>20 DEF RecordCommit
    <3>3. dueIn' \in [Delivery -> Int]
      <4>1. ASSUME NEW due \in NextDue(w, d), dueIn' = [dueIn EXCEPT ![d] = due]
            PROVE  dueIn' \in [Delivery -> Int]
        <5>1. due \in Int
          BY NextDueIsInt
        <5> QED
          BY <4>1, <5>1
      <4> QED
        BY <3>2, <4>1
    <3>4. done' \in [Delivery -> BOOLEAN]
      BY <3>2
    <3>5. seen[w][d] + 1 \in 0 .. MaxAttempts
      OBVIOUS
    <3>6. /\ attempts' \in [Delivery -> 0 .. MaxAttempts]
          /\ leaseToken' \in [Delivery -> Tokens]
          /\ leaseLeft' \in [Delivery -> Nat]
          /\ recordedBy' \in [Delivery -> Tokens]
      BY <3>1, <3>5 DEF Released
    <3> QED
      BY <3>1, <3>3, <3>4, <3>6, TaskEndsTypes
  <2>21. ASSUME NEW d \in Delivery, DeleteRow(d) PROVE TypeOK'
    BY <2>21 DEF DeleteRow
  <2>22. CASE Tick
    BY <2>22 DEF Tick, Later, Lower
  <2>23. CASE UNCHANGED vars
    BY <2>23 DEF vars
  <2> QED
    BY <2>1, <2>2, <2>3, <2>4, <2>8, <2>9, <2>10, <2>11, <2>12, <2>14, <2>15,
       <2>16, <2>17, <2>18, <2>19, <2>20, <2>21, <2>22, <2>23
       DEF Next, CycleStep, FaultStep, TaskStep
<1> QED
  BY <1>1, <1>2, PTL DEF Spec

(* Forgetting what a worker knew does no harm wherever its locks are gone. *)
LEMMA ForgetKeepsFencing ==
  ASSUME TypeOK, FencingInv, NEW w \in Worker, Forget(w),
         phase'[w] # "claiming",
         \A v \in Worker : v # w => phase'[v] = phase[v],
         \A d \in Delivery : rowLock'[d] = rowLock[d] \/ rowLock[d] = w,
         \A v \in Worker, d \in Delivery :
           v # w /\ Claiming(v, d) =>
             leaseLeft'[d] = 0 /\ leaseToken'[d] # claim[v][d],
         \A v \in Worker, d \in Delivery :
           v # w /\ task[v][d] = "verified" => leaseToken'[d] = leaseToken[d],
         \A v \in Worker, d \in Delivery :
           v # w /\ claim[v][d] # NoToken /\ leaseToken'[d] = claim[v][d]
             => leaseToken[d] = claim[v][d],
         \A d \in Delivery : leaseToken'[d] # NoToken =>
           leaseToken[d] # NoToken \/ ~Closed(d),
         UNCHANGED <<row, done, attempts>>
  PROVE  FencingInv'
<1> USE WorkerAssumption, TokenAssumption, LimitsAssumption
        DEF TypeOK, FencingInv, Tokens, Forget
<1>1. \A v \in Worker, d \in Delivery :
        v # w => /\ claim'[v][d] = claim[v][d] /\ seen'[v][d] = seen[v][d]
                 /\ task'[v][d] = task[v][d] /\ outcome'[v][d] = outcome[v][d]
  OBVIOUS
<1>2. \A d \in Delivery :
        claim'[w][d] = NoToken /\ task'[w][d] = "none" /\ outcome'[w][d] = "none"
  OBVIOUS
<1>3. TasksFitClaims'
  BY <1>1, <1>2 DEF TasksFitClaims
<1>4. TransactionsHoldLocks'
  BY <1>1, <1>2 DEF TransactionsHoldLocks, Claiming, Recording
<1>5. ClaimsAreFree'
  BY <1>1, <1>2 DEF ClaimsAreFree, Claiming
<1>6. TokensAreUnique'
  BY <1>1, <1>2 DEF TokensAreUnique
<1>7. VerifiedHoldsLease'
  BY <1>1, <1>2 DEF VerifiedHoldsLease
<1>8. HolderSeesAttempts'
  BY <1>1, <1>2 DEF HolderSeesAttempts
<1>9. ClosedHasNoLease'
  BY DEF ClosedHasNoLease, Closed
<1> QED
  BY <1>3, <1>4, <1>5, <1>6, <1>7, <1>8, <1>9

(* The end of a task does no harm: it loses a lock, and no claim. *)
LEMMA TaskEndsKeepsFencing ==
  ASSUME TypeOK, FencingInv, NEW w \in Worker, NEW d \in Delivery,
         task[w][d] # "none", TaskEnds(w, d),
         UNCHANGED <<row, done, attempts, leaseToken, leaseLeft, mem>>
  PROVE  FencingInv'
<1> USE WorkerAssumption, TokenAssumption, LimitsAssumption
        DEF TypeOK, FencingInv, TaskEnds, TaskGoes, mem
<1>1. TasksFitClaims'
  BY DEF TasksFitClaims
<1>2. TransactionsHoldLocks'
  BY DEF TransactionsHoldLocks, Claiming, Recording, TasksFitClaims
<1>3. ClaimsAreFree' /\ TokensAreUnique' /\ VerifiedHoldsLease'
  BY DEF ClaimsAreFree, TokensAreUnique, VerifiedHoldsLease, Claiming
<1>4. HolderSeesAttempts' /\ ClosedHasNoLease'
  BY DEF HolderSeesAttempts, ClosedHasNoLease, Closed
<1> QED
  BY <1>1, <1>2, <1>3, <1>4

(* The bookkeeping of tasks, locks, tokens and attempts that fences results. *)
THEOREM Fencing == Spec => []FencingInv
<1> USE WorkerAssumption, TokenAssumption, LimitsAssumption
        DEF Tokens, Phases, Tasks, Outcomes
<1>1. Init => FencingInv
  BY DEF Init, FencingInv, TasksFitClaims, TransactionsHoldLocks, ClaimsAreFree,
         TokensAreUnique, VerifiedHoldsLease, HolderSeesAttempts,
         ClosedHasNoLease, Closed, Claiming, Recording
<1>2. TypeOK /\ TypeOK' /\ FencingInv /\ [Next]_vars => FencingInv'
  <2> SUFFICES ASSUME TypeOK, TypeOK', FencingInv, [Next]_vars PROVE FencingInv'
    OBVIOUS
  <2> USE DEF TypeOK, rows, tasks, mem, aux, FencingInv
  <2> DEFINE Locks == TransactionsHoldLocks' /\ ClaimsAreFree'
             Tok   == TokensAreUnique' /\ VerifiedHoldsLease'
             Att   == HolderSeesAttempts' /\ ClosedHasNoLease'
  <2>1. ASSUME UNCHANGED <<row, done, attempts, leaseToken, leaseLeft, rowLock,
                           phase, claim, seen, task, outcome>>
        PROVE  FencingInv'
    BY <2>1 DEF TasksFitClaims, TransactionsHoldLocks, ClaimsAreFree,
                TokensAreUnique, VerifiedHoldsLease, HolderSeesAttempts,
                ClosedHasNoLease, Closed, Claiming, Recording
  <2>2. ASSUME NEW w \in Worker,
               phase'[w] \notin {"claiming"}, phase[w] \notin {"claiming"},
               \A v \in Worker : v # w => phase'[v] = phase[v],
               \A d \in Delivery :
                 task[w][d] = "none" \/ phase'[w] \in {"wave", "releasing"},
               \A d \in Delivery :
                 phase'[w] = "releasing" => task[w][d] \in {"none", "done"},
               phase'[w] # "stopping",
               \A d \in Delivery : row[d] = "unborn" \/ row'[d] = row[d],
               \A d \in Delivery : row[d] = "unborn" \/ row'[d] # "unborn",
               UNCHANGED <<done, attempts, leaseToken, leaseLeft,
                           rowLock, claim, seen, task, outcome>>
        PROVE  FencingInv'
    <3>1. TasksFitClaims'
      BY <2>2 DEF TasksFitClaims
    <3>2. Locks
      BY <2>2 DEF TransactionsHoldLocks, ClaimsAreFree, Claiming, Recording
    <3>3. Tok /\ Att
      BY <2>2 DEF TokensAreUnique, VerifiedHoldsLease, HolderSeesAttempts,
                  ClosedHasNoLease, Closed
    <3> QED
      BY <3>1, <3>2, <3>3
  <2>3. ASSUME NEW w \in Worker, Poll(w) \/ FanOutFail(w) \/ Restart(w) \/ EndCycle(w)
        PROVE  FencingInv'
    <3>1. \A d \in Delivery : task[w][d] = "none"
      BY <2>3 DEF TasksFitClaims, Poll, FanOutFail, Restart, EndCycle
    <3> QED
      BY <2>2, <2>3, <3>1 DEF Poll, FanOutFail, Restart, EndCycle
  <2>4. ASSUME NEW w \in Worker, FanOut(w) PROVE FencingInv'
    <3>1. \A d \in Delivery : row[d] = "unborn" \/ row'[d] = row[d]
      BY <2>4 DEF FanOut
    <3>2. \A d \in Delivery : row[d] = "unborn" \/ row'[d] # "unborn"
      BY <2>4 DEF FanOut
    <3>3. \A d \in Delivery : task[w][d] = "none"
      BY <2>4 DEF TasksFitClaims, FanOut
    <3>4. /\ phase[w] = "fanout" /\ phase' = [phase EXCEPT ![w] = "polling"]
          /\ UNCHANGED <<done, attempts, leaseToken, leaseLeft, rowLock, claim,
                         seen, task, outcome>>
      BY <2>4 DEF FanOut
    <3> QED
      BY <2>2, <3>1, <3>2, <3>3, <3>4
  <2>5. ASSUME NEW w \in Worker, ClaimSelect(w) PROVE FencingInv'
    <3>1. /\ phase[w] = "polling" /\ phase' = [phase EXCEPT ![w] = "claiming"]
          /\ UNCHANGED <<row, done, attempts, leaseToken, leaseLeft, task, outcome>>
      BY <2>5 DEF ClaimSelect
    <3>2. /\ \A v \in Worker :
               v # w => claim'[v] = claim[v] /\ seen'[v] = seen[v]
          /\ \A d \in Delivery :
               \/ /\ claim'[w][d] = NoToken
                  /\ rowLock'[d] = rowLock[d]
               \/ /\ claim'[w][d] # NoToken
                  /\ claim'[w][d] \in Fresh(d)
                  /\ seen'[w][d] = attempts[d]
                  /\ d \in Eligible(w)
                  /\ rowLock'[d] = w
      BY <2>5, ClaimSelectEffect
    <3>3. \A d \in Delivery : task[w][d] = "none" /\ outcome[w][d] = "none"
      BY <3>1 DEF TasksFitClaims
    <3>4. TasksFitClaims'
      BY <3>1, <3>2, <3>3 DEF TasksFitClaims, Eligible
    <3>5. TransactionsHoldLocks'
      BY <3>1, <3>2, <3>3
         DEF TransactionsHoldLocks, Claiming, Recording, Eligible
    <3>6. ClaimsAreFree'
      BY <3>1, <3>2 DEF ClaimsAreFree, Claiming, Eligible, Fresh
    <3>7. TokensAreUnique'
      <4>1. \A d \in Delivery, v \in Worker :
              v # w /\ claim'[w][d] # NoToken => claim'[w][d] # claim'[v][d]
        BY <3>2 DEF Fresh
      <4>2. SUFFICES ASSUME NEW d \in Delivery, NEW u \in Worker,
                            NEW v \in Worker, u # v,
                            claim'[u][d] = claim'[v][d], claim'[u][d] # NoToken
                     PROVE  FALSE
        BY DEF TokensAreUnique
      <4>3. u # w /\ v # w
        BY <4>1, <4>2
      <4> QED
        BY <3>2, <4>2, <4>3 DEF TokensAreUnique
    <3>8. VerifiedHoldsLease'
      <4>1. ASSUME NEW v \in Worker, NEW d \in Delivery, task'[v][d] = "verified"
            PROVE  leaseToken'[d] = claim'[v][d]
        <5>1. v # w /\ task[v][d] = "verified"
          BY <3>1, <3>3, <4>1
        <5> QED
          BY <3>1, <3>2, <5>1 DEF VerifiedHoldsLease
      <4> QED
        BY <4>1 DEF VerifiedHoldsLease
    <3>9. HolderSeesAttempts'
      <4>1. ASSUME NEW v \in Worker, NEW d \in Delivery, claim'[v][d] # NoToken,
                   leaseToken'[d] = claim'[v][d]
            PROVE  ~done'[d] /\ attempts'[d] = seen'[v][d]
        <5>1. v # w
          BY <3>1, <3>2, <4>1 DEF Fresh
        <5>2. claim'[v][d] = claim[v][d] /\ seen'[v][d] = seen[v][d]
          BY <3>2, <5>1
        <5> QED
          BY <3>1, <4>1, <5>2 DEF HolderSeesAttempts
      <4> QED
        BY <4>1 DEF HolderSeesAttempts
    <3>10. ClosedHasNoLease'
      BY <3>1 DEF ClosedHasNoLease, Closed
    <3> QED
      BY <3>4, <3>5, <3>6, <3>7, <3>8, <3>9, <3>10
  <2>6. ASSUME NEW w \in Worker, phase[w] = "claiming", ClaimsReachRows(w)
        PROVE  /\ \A d \in Delivery :
                    d \in Wave(w) => /\ leaseToken'[d] = claim[w][d] /\ ~Closed(d)
                                     /\ attempts[d] = seen[w][d]
                                     /\ rowLock[d] = w /\ rowLock'[d] = NoOne
               /\ \A d \in Delivery :
                    d \notin Wave(w) => /\ leaseToken'[d] = leaseToken[d]
                                        /\ leaseLeft'[d] = leaseLeft[d]
               /\ \A d \in Delivery : rowLock'[d] = rowLock[d] \/ rowLock[d] = w
               /\ UNCHANGED <<row, done, attempts>>
    <3>1. \A d \in Delivery :
            d \in Wave(w) => /\ leaseToken'[d] = claim[w][d]
                             /\ rowLock[d] = w /\ rowLock'[d] = NoOne
                             /\ ~done[d] /\ attempts[d] = seen[w][d]
      BY <2>6 DEF ClaimsReachRows, Unlocked, Wave, Claiming, ClaimsAreFree,
                  TransactionsHoldLocks
    <3>2. \A d \in Delivery : d \in Wave(w) => ~Closed(d)
      BY <3>1 DEF Closed
    <3>3. \A d \in Delivery :
            d \notin Wave(w) => /\ leaseToken'[d] = leaseToken[d]
                                /\ leaseLeft'[d] = leaseLeft[d]
      BY <2>6 DEF ClaimsReachRows
    <3>4. /\ \A d \in Delivery : rowLock'[d] = rowLock[d] \/ rowLock[d] = w
          /\ UNCHANGED <<row, done, attempts>>
      BY <2>6 DEF ClaimsReachRows, Unlocked
    <3> QED
      BY <3>1, <3>2, <3>3, <3>4
  <2>7. ASSUME NEW w \in Worker, ClaimCommit(w) PROVE FencingInv'
    <3>1. /\ phase[w] = "claiming" /\ ClaimsReachRows(w)
          /\ phase' = [phase EXCEPT ![w] = "wave"]
          /\ task' = [task EXCEPT ![w] = [d \in Delivery |->
                        IF d \in Wave(w) THEN "loading" ELSE "none"]]
          /\ UNCHANGED <<claim, seen, outcome>>
      BY <2>7 DEF ClaimCommit
    <3>2. \A d \in Delivery : task[w][d] = "none" /\ outcome[w][d] = "none"
      BY <3>1 DEF TasksFitClaims
    <3>3. \A v \in Worker, d \in Delivery :
            v # w => task'[v][d] = task[v][d] /\ phase'[v] = phase[v]
      BY <3>1
    <3>4. \A d \in Delivery :
            task'[w][d] = IF claim[w][d] # NoToken THEN "loading" ELSE "none"
      BY <3>1 DEF Wave
    <3>5. \A v \in Worker, d \in Delivery :
            v # w /\ (Claiming(v, d) \/ Recording(v, d)) => d \notin Wave(w)
      BY <3>1 DEF TransactionsHoldLocks, Claiming, Wave
    <3>6. TasksFitClaims'
      BY <2>6, <3>1, <3>2, <3>3, <3>4 DEF TasksFitClaims
    <3>7. TransactionsHoldLocks'
      BY <2>6, <3>1, <3>3, <3>4 DEF TransactionsHoldLocks, Claiming, Recording
    <3>8. ClaimsAreFree'
      BY <2>6, <3>1, <3>3, <3>5 DEF ClaimsAreFree, Claiming
    <3>9. TokensAreUnique'
      BY <3>1 DEF TokensAreUnique
    <3>10. VerifiedHoldsLease'
      BY <2>6, <3>1, <3>3, <3>4, <3>5 DEF VerifiedHoldsLease, Recording
    <3>11. HolderSeesAttempts'
      <4>1. ASSUME NEW v \in Worker, NEW d \in Delivery, claim'[v][d] # NoToken,
                   leaseToken'[d] = claim'[v][d]
            PROVE  ~done'[d] /\ attempts'[d] = seen'[v][d]
        <5>1. CASE d \in Wave(w)
          <6>1. /\ leaseToken'[d] = claim[w][d] /\ ~Closed(d)
                /\ attempts[d] = seen[w][d] /\ UNCHANGED <<done, attempts>>
            BY <2>6, <3>1, <5>1
          <6>2. v = w
            <7>1. claim[v][d] = claim[w][d] /\ claim[v][d] # NoToken
              BY <3>1, <4>1, <6>1
            <7>2. TokensAreUnique
              OBVIOUS
            <7> QED
              BY <7>1, <7>2, Zenon DEF TokensAreUnique
          <6> QED
            BY <3>1, <6>1, <6>2 DEF Closed
        <5>2. CASE d \notin Wave(w)
          BY <2>6, <3>1, <4>1, <5>2 DEF HolderSeesAttempts
        <5> QED
          BY <5>1, <5>2
      <4> QED
        BY <4>1 DEF HolderSeesAttempts
    <3>12. ClosedHasNoLease'
      BY <2>6, <3>1 DEF ClosedHasNoLease, Closed
    <3> QED
      BY <3>6, <3>7, <3>8, <3>9, <3>10, <3>11, <3>12
  <2>8. ASSUME NEW w \in Worker, phase[w] = "claiming", ClaimsReachRows(w),
               Forget(w), phase'[w] # "claiming",
               \A v \in Worker : v # w => phase'[v] = phase[v]
        PROVE  FencingInv'
    <3>1. \A v \in Worker, d \in Delivery :
            v # w /\ (Claiming(v, d) \/ Recording(v, d)) => d \notin Wave(w)
      BY <2>8 DEF TransactionsHoldLocks, Claiming, Wave
    <3>2. \A v \in Worker, d \in Delivery :
            v # w /\ Claiming(v, d) =>
              leaseLeft'[d] = 0 /\ leaseToken'[d] # claim[v][d]
      BY <2>6, <2>8, <3>1 DEF ClaimsAreFree
    <3>3. \A v \in Worker, d \in Delivery :
            v # w /\ task[v][d] = "verified" => leaseToken'[d] = leaseToken[d]
      BY <2>6, <2>8, <3>1 DEF Recording
    <3>4. \A v \in Worker, d \in Delivery :
            v # w /\ claim[v][d] # NoToken /\ leaseToken'[d] = claim[v][d]
              => leaseToken[d] = claim[v][d]
      BY <2>6, <2>8 DEF TokensAreUnique
    <3>5. \A d \in Delivery : leaseToken'[d] # NoToken =>
            leaseToken[d] # NoToken \/ ~Closed(d)
      BY <2>6, <2>8
    <3>6. UNCHANGED <<row, done, attempts>>
          /\ \A d \in Delivery : rowLock'[d] = rowLock[d] \/ rowLock[d] = w
      BY <2>6, <2>8
    <3> HIDE DEF TypeOK, FencingInv
    <3> QED
      BY <2>8, <3>2, <3>3, <3>4, <3>5, <3>6, ForgetKeepsFencing
  <2>9. ASSUME NEW w \in Worker, Rollback(w),
               Forget(w), phase'[w] # "claiming",
               \A v \in Worker : v # w => phase'[v] = phase[v]
        PROVE  FencingInv'
    <3>1. /\ \A d \in Delivery : rowLock'[d] = rowLock[d] \/ rowLock[d] = w
          /\ UNCHANGED <<row, done, attempts, leaseToken, leaseLeft>>
      BY <2>9 DEF Rollback, Unlocked
    <3>2. \A v \in Worker, d \in Delivery :
            v # w /\ Claiming(v, d) =>
              leaseLeft'[d] = 0 /\ leaseToken'[d] # claim[v][d]
      BY <3>1 DEF ClaimsAreFree
    <3> HIDE DEF TypeOK, FencingInv
    <3> QED
      BY <2>9, <3>1, <3>2, ForgetKeepsFencing
  <2>10. ASSUME NEW w \in Worker, ClaimFail(w) PROVE FencingInv'
    BY <2>8, <2>9, <2>10 DEF ClaimFail
  <2>11. ASSUME NEW w \in Worker, WaveDone(w) PROVE FencingInv'
    <3>1. \A d \in Delivery : task[w][d] \in {"none", "done"}
      BY <2>11 DEF WaveDone, Wave, TasksFitClaims
    <3> QED
      <4>1. /\ phase[w] = "wave" /\ phase' = [phase EXCEPT ![w] = "releasing"]
            /\ UNCHANGED <<rows, tasks, claim, seen>>
        BY <2>11 DEF WaveDone
      <4>2. /\ phase'[w] = "releasing"
            /\ \A v \in Worker : v # w => phase'[v] = phase[v]
            /\ UNCHANGED <<row, done, attempts, leaseToken, leaseLeft,
                           rowLock, claim, seen, task, outcome>>
        BY <4>1
      <4>3. TasksFitClaims'
        BY <3>1, <4>1, <4>2 DEF TasksFitClaims
      <4>4. Locks
        BY <4>1, <4>2
           DEF TransactionsHoldLocks, ClaimsAreFree, Claiming, Recording
      <4>5. Tok /\ Att
        BY <4>2 DEF TokensAreUnique, VerifiedHoldsLease, HolderSeesAttempts,
                    ClosedHasNoLease, Closed
      <4> QED
        BY <4>3, <4>4, <4>5
  <2>12. ASSUME NEW w \in Worker, Release(w) \/ ReleaseFail(w) PROVE FencingInv'
    <3>1. Forget(w) /\ phase' = [phase EXCEPT ![w] = phase'[w]]
          /\ phase'[w] # "claiming"
      BY <2>12 DEF Release, ReleaseFail, AfterRelease
    <3>2. UNCHANGED <<row, done, attempts, rowLock>>
      BY <2>12 DEF Release, ReleaseFail
    <3>3. \A d \in Delivery :
            \/ leaseToken'[d] = leaseToken[d] /\ leaseLeft'[d] = leaseLeft[d]
            \/ /\ leaseToken[d] = claim[w][d] /\ claim[w][d] # NoToken
               /\ leaseToken'[d] = NoToken /\ leaseLeft'[d] = 0
      <4>1. CASE Release(w)
        BY <4>1 DEF Release, Wave
      <4>2. CASE ReleaseFail(w)
        BY <4>2 DEF ReleaseFail
      <4> QED
        BY <2>12, <4>1, <4>2
    <3>4. \A v \in Worker, d \in Delivery :
            v # w /\ Claiming(v, d) =>
              leaseLeft'[d] = 0 /\ leaseToken'[d] # claim[v][d]
      BY <3>3 DEF ClaimsAreFree, Claiming
    <3>5. \A v \in Worker, d \in Delivery :
            v # w /\ task[v][d] = "verified" => leaseToken'[d] = leaseToken[d]
      BY <3>3 DEF VerifiedHoldsLease, TokensAreUnique
    <3>6. \A v \in Worker, d \in Delivery :
            v # w /\ claim[v][d] # NoToken /\ leaseToken'[d] = claim[v][d]
              => leaseToken[d] = claim[v][d]
      BY <3>3
    <3>7. /\ \A v \in Worker : v # w => phase'[v] = phase[v]
          /\ \A d \in Delivery : rowLock'[d] = rowLock[d] \/ rowLock[d] = w
          /\ \A d \in Delivery : leaseToken'[d] # NoToken =>
               leaseToken[d] # NoToken \/ ~Closed(d)
      BY <3>1, <3>2, <3>3
    <3> HIDE DEF TypeOK, FencingInv
    <3> QED
      BY <3>1, <3>2, <3>4, <3>5, <3>6, <3>7, ForgetKeepsFencing
  <2>13. ASSUME NEW w \in Worker, Cancel(w) PROVE FencingInv'
    <3>1. CASE phase[w] = "wave"
      <4>1. /\ phase' = [phase EXCEPT ![w] = "stopping"]
            /\ task' = [task EXCEPT ![w] = [d \in Delivery |->
                          IF d \in Wave(w) THEN "done" ELSE "none"]]
            /\ outcome' = [outcome EXCEPT ![w] = [d \in Delivery |-> "none"]]
            /\ Rollback(w) /\ UNCHANGED <<claim, seen>>
        BY <2>13, <3>1 DEF Cancel
      <4>2. /\ \A d \in Delivery : rowLock'[d] = rowLock[d] \/ rowLock[d] = w
            /\ UNCHANGED <<row, done, attempts, leaseToken, leaseLeft>>
        BY <4>1 DEF Rollback, Unlocked
      <4>3. \A d \in Delivery :
              /\ task'[w][d] = IF claim[w][d] # NoToken THEN "done" ELSE "none"
              /\ outcome'[w][d] = "none"
        BY <4>1 DEF Wave
      <4>4. \A v \in Worker, d \in Delivery :
              v # w => /\ task'[v][d] = task[v][d] /\ phase'[v] = phase[v]
                       /\ outcome'[v][d] = outcome[v][d]
        BY <4>1
      <4>5. TasksFitClaims'
        BY <4>1, <4>2, <4>3, <4>4 DEF TasksFitClaims
      <4>6. TransactionsHoldLocks' /\ ClaimsAreFree'
        BY <4>1, <4>2, <4>3, <4>4
           DEF TransactionsHoldLocks, ClaimsAreFree, Claiming, Recording
      <4>7. Tok /\ Att
        BY <4>1, <4>2, <4>3, <4>4
           DEF TokensAreUnique, VerifiedHoldsLease, HolderSeesAttempts,
               ClosedHasNoLease, Closed
      <4> QED
        BY <4>5, <4>6, <4>7
    <3>2. CASE phase[w] # "wave"
      <4>1. /\ Forget(w) /\ phase' = [phase EXCEPT ![w] = "stopped"]
            /\ \/ Rollback(w)
               \/ phase[w] = "claiming" /\ ClaimsReachRows(w)
        BY <2>13, <3>2 DEF Cancel
      <4> QED
        BY <2>8, <2>9, <4>1
    <3> QED
      BY <3>1, <3>2
  <2>14. ASSUME NEW w \in Worker, Crash(w) PROVE FencingInv'
    BY <2>9, <2>14 DEF Crash
  <2>15. ASSUME NEW w \in Worker, NEW d \in Delivery, NEW to \in Tasks,
                task[w][d] \notin {"none", "done", "locked", "verified"},
                to \notin {"none", "locked", "verified"},
                task' = [task EXCEPT ![w][d] = to],
                \/ outcome' = outcome
                   /\ task[w][d] \notin {"recording", "locked", "verified"}
                \/ /\ to = "recording"
                   /\ \E o \in Outcomes : outcome' = [outcome EXCEPT ![w][d] = o],
                UNCHANGED <<rows, mem>>
         PROVE  FencingInv'
    <3>1. TasksFitClaims'
      BY <2>15 DEF TasksFitClaims
    <3>2. Locks
      BY <2>15 DEF TransactionsHoldLocks, ClaimsAreFree, Claiming, Recording
    <3>3. Tok /\ Att
      BY <2>15 DEF TokensAreUnique, VerifiedHoldsLease, HolderSeesAttempts,
                   ClosedHasNoLease, Closed
    <3> QED
      BY <3>1, <3>2, <3>3
  <2>16. ASSUME NEW w \in Worker, NEW d \in Delivery,
                LoadData(w, d) \/ StartSend(w, d) \/ SkipSend(w, d)
         PROVE  FencingInv'
    <3>1. \E to \in {"checking", "sending", "done"} :
            task' = [task EXCEPT ![w][d] = to]
      BY <2>16 DEF LoadData, StartSend, SkipSend, TaskGoes
    <3>2. /\ task[w][d] \in {"loading", "checking"}
          /\ UNCHANGED <<rows, mem, outcome>>
      BY <2>16 DEF LoadData, StartSend, SkipSend
    <3> QED
      BY <2>15, <3>1, <3>2
  <2>17. ASSUME NEW w \in Worker, NEW d \in Delivery,
                SendOk(w, d) \/ SendError(w, d)
         PROVE  FencingInv'
    <3>1. /\ task[w][d] = "sending" /\ task' = [task EXCEPT ![w][d] = "recording"]
          /\ \E o \in Outcomes : outcome' = [outcome EXCEPT ![w][d] = o]
          /\ UNCHANGED <<rows, mem>>
      BY <2>17 DEF SendOk, SendError, TaskGoes
    <3> QED
      BY <2>15, <3>1
  <2>18. ASSUME NEW w \in Worker, NEW d \in Delivery,
                TaskFail(w, d) \/ RecordGone(w, d) \/ RecordDiscard(w, d)
         PROVE  FencingInv'
    <3>1. /\ task[w][d] # "none" /\ TaskEnds(w, d)
          /\ UNCHANGED <<row, done, attempts, leaseToken, leaseLeft, mem>>
      BY <2>18 DEF TaskFail, RecordGone, RecordDiscard
    <3> QED
      BY <3>1, TaskEndsKeepsFencing
  <2>19. ASSUME NEW w \in Worker, NEW d \in Delivery, RecordLock(w, d)
         PROVE  FencingInv'
    <3>1. /\ task[w][d] = "recording" /\ task' = [task EXCEPT ![w][d] = "locked"]
          /\ row[d] = "live" /\ rowLock[d] = NoOne
          /\ rowLock' = [rowLock EXCEPT ![d] = w]
          /\ UNCHANGED <<row, done, attempts, leaseToken, leaseLeft, mem, outcome>>
      BY <2>19 DEF RecordLock
    <3>2. TasksFitClaims'
      BY <3>1 DEF TasksFitClaims
    <3>3. TransactionsHoldLocks'
      BY <3>1 DEF TransactionsHoldLocks, Claiming, Recording
    <3>4. ClaimsAreFree' /\ Tok /\ Att
      BY <3>1 DEF ClaimsAreFree, Claiming, TokensAreUnique, VerifiedHoldsLease,
                  HolderSeesAttempts, ClosedHasNoLease, Closed
    <3> QED
      BY <3>2, <3>3, <3>4
  <2>20. ASSUME NEW w \in Worker, NEW d \in Delivery, RecordVerify(w, d)
         PROVE  FencingInv'
    <3>1. /\ task[w][d] = "locked" /\ task' = [task EXCEPT ![w][d] = "verified"]
          /\ leaseToken[d] = claim[w][d]
          /\ UNCHANGED <<rows, mem, outcome>>
      BY <2>20 DEF RecordVerify, LeaseHolds
    <3>2. TasksFitClaims'
      BY <3>1 DEF TasksFitClaims
    <3>3. Locks
      BY <3>1 DEF TransactionsHoldLocks, ClaimsAreFree, Claiming, Recording
    <3>4. Tok /\ Att
      BY <3>1 DEF TokensAreUnique, VerifiedHoldsLease,
                  HolderSeesAttempts, ClosedHasNoLease, Closed
    <3> QED
      BY <3>2, <3>3, <3>4
  <2>21. ASSUME NEW w \in Worker, NEW d \in Delivery, RecordCommit(w, d)
         PROVE  FencingInv'
    <3>1. /\ task[w][d] = "verified" /\ leaseToken[d] = claim[w][d]
          /\ claim[w][d] # NoToken /\ rowLock[d] = w /\ row[d] = "live"
      BY <2>21 DEF RecordCommit, TasksFitClaims, TransactionsHoldLocks, Recording,
                   VerifiedHoldsLease
    <3>2. /\ leaseToken' = [leaseToken EXCEPT ![d] = NoToken]
          /\ leaseLeft' = [leaseLeft EXCEPT ![d] = 0]
          /\ rowLock' = [rowLock EXCEPT ![d] = NoOne]
      BY <2>21, <3>1 DEF RecordCommit, Released, TaskEnds
    <3>3. /\ task' = [task EXCEPT ![w][d] = "done"]
          /\ outcome' = [outcome EXCEPT ![w][d] = "none"]
          /\ UNCHANGED <<row, mem>>
      BY <2>21 DEF RecordCommit, TaskEnds, TaskGoes
    <3>4. \A e \in Delivery : e # d => done'[e] = done[e] /\ attempts'[e] = attempts[e]
      BY <2>21 DEF RecordCommit
    <3>5. \A v \in Worker : v # w => ~Claiming(v, d) /\ ~Recording(v, d)
      BY <3>1 DEF TransactionsHoldLocks
    <3>6. TasksFitClaims'
      BY <3>1, <3>3 DEF TasksFitClaims
    <3>7. ~Claiming(w, d)
      BY <3>1 DEF Claiming, TasksFitClaims
    <3>8. TransactionsHoldLocks'
      BY <3>2, <3>3, <3>5, <3>7 DEF TransactionsHoldLocks, Claiming, Recording
    <3>9. ClaimsAreFree'
      BY <3>2, <3>3, <3>4, <3>5, <3>7 DEF ClaimsAreFree, Claiming
    <3>10. TokensAreUnique' /\ VerifiedHoldsLease'
      BY <3>2, <3>3, <3>5 DEF TokensAreUnique, VerifiedHoldsLease, Recording
    <3>11. HolderSeesAttempts'
      BY <3>2, <3>3, <3>4 DEF HolderSeesAttempts
    <3>12. ClosedHasNoLease'
      BY <3>2, <3>4 DEF ClosedHasNoLease, Closed
    <3> QED
      BY <3>6, <3>8, <3>9, <3>10, <3>11, <3>12
  <2>22. ASSUME NEW d \in Delivery, DeleteRow(d) PROVE FencingInv'
    <3>1. /\ row[d] = "live" /\ rowLock[d] = NoOne
          /\ row' = [row EXCEPT ![d] = "deleted"]
          /\ leaseToken' = [leaseToken EXCEPT ![d] = NoToken]
          /\ leaseLeft' = [leaseLeft EXCEPT ![d] = 0]
          /\ UNCHANGED <<done, attempts, rowLock, tasks, mem>>
      BY <2>22 DEF DeleteRow
    <3>2. TasksFitClaims'
      BY <3>1 DEF TasksFitClaims
    <3>3. Locks
      BY <3>1 DEF TransactionsHoldLocks, ClaimsAreFree, Claiming, Recording
    <3>4. TokensAreUnique' /\ VerifiedHoldsLease'
      BY <3>1 DEF TokensAreUnique, VerifiedHoldsLease, TransactionsHoldLocks,
                  Recording
    <3>5. Att
      BY <3>1 DEF HolderSeesAttempts, ClosedHasNoLease, Closed
    <3> QED
      BY <3>2, <3>3, <3>4, <3>5
  <2>23. CASE Tick
    <3>1. /\ UNCHANGED <<row, done, attempts, leaseToken, rowLock, phase,
                         claim, seen, task, outcome>>
          /\ \A d \in Delivery : leaseLeft[d] = 0 => leaseLeft'[d] = 0
      BY <2>23 DEF Tick, Later
    <3>2. TasksFitClaims' /\ Locks
      BY <3>1 DEF TasksFitClaims, TransactionsHoldLocks, ClaimsAreFree, Claiming,
                  Recording
    <3>3. Tok /\ Att
      BY <3>1 DEF TokensAreUnique, VerifiedHoldsLease,
                  HolderSeesAttempts, ClosedHasNoLease, Closed
    <3> QED
      BY <3>2, <3>3
  <2>24. CASE UNCHANGED vars
    BY <2>1, <2>24 DEF vars
  <2> QED
    BY <2>3, <2>4, <2>5, <2>7, <2>10, <2>11, <2>12, <2>13, <2>14, <2>16, <2>17,
       <2>18, <2>19, <2>20, <2>21, <2>22, <2>23, <2>24
       DEF Next, CycleStep, FaultStep, TaskStep
<1> QED
  BY <1>1, <1>2, TypeCorrect, PTL DEF Spec

(* The result of a send is written over the number of attempts that the claim
   read, and it is written to no other row version than that one. *)
THEOREM HoldersSeeAttempts == Spec => []HolderSeesAttempts
<1>1. FencingInv => HolderSeesAttempts
  BY DEF FencingInv
<1> QED
  BY <1>1, Fencing, PTL

(* All that a step can do to the lease, the success and the attempts of a row. *)
RowStep(d) ==
  \/ /\ leaseToken'[d] = leaseToken[d] /\ recordedBy'[d] = recordedBy[d]
     /\ done'[d] = done[d] /\ attempts'[d] = attempts[d]
  \/ /\ leaseToken'[d] \in Token \ {leaseToken[d]} /\ recordedBy'[d] = NoToken
     /\ done'[d] = done[d] /\ attempts'[d] = attempts[d] /\ ~Closed(d)
  \/ /\ leaseToken[d] # NoToken /\ leaseToken'[d] = NoToken
     /\ recordedBy'[d] = leaseToken[d]
  \/ /\ leaseToken[d] # NoToken /\ leaseToken'[d] = NoToken
     /\ recordedBy'[d] = recordedBy[d]
     /\ done'[d] = done[d] /\ attempts'[d] = attempts[d]

LEMMA OnlyRowSteps ==
  ASSUME TypeOK, FencingInv, [Next]_vars, NEW i \in Delivery
  PROVE  RowStep(i)
<1> USE WorkerAssumption, TokenAssumption, LimitsAssumption
    DEF TypeOK, Tokens, rows, tasks, mem, aux
<1>1. CASE UNCHANGED <<done, attempts, leaseToken, recordedBy>>
  BY <1>1 DEF RowStep
<1>2. ASSUME NEW w \in Worker, phase[w] = "claiming", ClaimsReachRows(w)
      PROVE  RowStep(i)
  <2>1. CASE i \in Wave(w)
    <3>1. /\ leaseToken[i] # claim[w][i] /\ claim[w][i] \in Token
          /\ ~done[i] /\ attempts[i] = seen[w][i]
      BY <1>2, <2>1 DEF FencingInv, ClaimsAreFree, Claiming, Wave
    <3>2. ~Closed(i)
      BY <3>1 DEF Closed
    <3> QED
      BY <1>2, <2>1, <3>1, <3>2 DEF ClaimsReachRows, RowStep
  <2>2. CASE i \notin Wave(w)
    BY <1>2, <2>2 DEF ClaimsReachRows, RowStep
  <2> QED
    BY <2>1, <2>2
<1>3. ASSUME NEW w \in Worker, NEW d \in Delivery, RecordCommit(w, d)
      PROVE  RowStep(i)
  <2>1. leaseToken[d] = claim[w][d] /\ claim[w][d] # NoToken
    BY <1>3 DEF RecordCommit, FencingInv, VerifiedHoldsLease, TasksFitClaims
  <2>2. CASE i = d
    <3>1. leaseToken'[d] = NoToken /\ recordedBy'[d] = leaseToken[d]
      BY <1>3, <2>1 DEF RecordCommit, Released
    <3> QED
      BY <2>1, <2>2, <3>1 DEF RowStep
  <2>3. CASE i # d
    <3>1. /\ leaseToken'[i] = leaseToken[i] /\ recordedBy'[i] = recordedBy[i]
          /\ attempts'[i] = attempts[i]
      BY <1>3, <2>3 DEF RecordCommit, Released
    <3>2. done'[i] = done[i]
      BY <1>3, <2>3 DEF RecordCommit
    <3> QED
      BY <3>1, <3>2 DEF RowStep
  <2> QED
    BY <2>2, <2>3
<1>4. ASSUME NEW w \in Worker, Release(w) PROVE RowStep(i)
  <2>1. CASE i \in Wave(w) /\ leaseToken[i] = claim[w][i]
    BY <1>4, <2>1 DEF Release, Wave, RowStep
  <2>2. CASE ~(i \in Wave(w) /\ leaseToken[i] = claim[w][i])
    BY <1>4, <2>2 DEF Release, RowStep
  <2> QED
    BY <2>1, <2>2
<1>5. ASSUME NEW d \in Delivery, DeleteRow(d) PROVE RowStep(i)
  BY <1>5 DEF DeleteRow, RowStep
<1>6. ASSUME NEW w \in Worker, CycleStep(w) PROVE RowStep(i)
  BY <1>1, <1>2, <1>4, <1>6
     DEF CycleStep, Poll, FanOut, ClaimSelect, EndCycle, ClaimCommit, WaveDone
<1>7. ASSUME NEW w \in Worker, FaultStep(w) PROVE RowStep(i)
  BY <1>1, <1>2, <1>7
     DEF FaultStep, FanOutFail, ClaimFail, ReleaseFail, Cancel, Crash, Rollback
<1>8. ASSUME NEW w \in Worker, NEW d \in Delivery, TaskStep(w, d)
      PROVE  RowStep(i)
  BY <1>1, <1>3, <1>8
     DEF TaskStep, LoadData, StartSend, SkipSend, SendOk, SendError, TaskFail,
         RecordLock, RecordGone, RecordVerify, RecordDiscard
<1>9. CASE Tick \/ (\E w \in Worker : Restart(w)) \/ UNCHANGED vars
  BY <1>1, <1>9 DEF Tick, Restart, vars
<1> QED
  BY <1>5, <1>6, <1>7, <1>8, <1>9 DEF Next

(* NotificationDelivery implements FencedLease: a claim has at most one result
   recorded, and none is recorded of a claim that has been replaced. *)
THEOREM RowsAreFenced == Spec => EveryRowIsFenced
<1>1. Init => RowLease!Init
  BY DEF Init, RowLease!Init
<1>2. TypeOK /\ TypeOK' /\ FencingInv /\ [Next]_vars
        => [RowLease!Next]_(RowLease!vars)
  <2> SUFFICES ASSUME TypeOK, TypeOK', FencingInv, [Next]_vars
               PROVE  RowLease!Next
    OBVIOUS
  <2>1. leaseToken' \in RowLease!Tables /\ recordedBy' \in RowLease!Tables
    BY DEF TypeOK, Tokens, RowLease!Tables
  <2>2. ASSUME NEW d \in Delivery
        PROVE  RowLease!Keep(d) \/ RowLease!Claim(d) \/ RowLease!Accept(d)
               \/ RowLease!Drop(d)
    <3>1. RowStep(d)
      BY OnlyRowSteps
    <3> QED
      BY <3>1
         DEF RowStep, RowLease!Keep, RowLease!Claim, RowLease!Accept, RowLease!Drop
  <2> QED
    BY <2>1, <2>2 DEF RowLease!Next
<1> QED
  BY <1>1, <1>2, TypeCorrect, Fencing, PTL
     DEF Spec, EveryRowIsFenced, RowLease!Spec

(* A delivery that has ended is never claimed, counted or reopened again,
   however late a worker reports on it. *)
THEOREM ClosedDeliveriesStayClosed == Spec => ClosedStaysClosed
<1>1. TypeOK /\ FencingInv /\ [Next]_vars =>
        [\A d \in Delivery : Closed(d) =>
           /\ done'[d] = done[d] /\ attempts'[d] = attempts[d]
           /\ leaseToken'[d] \in {leaseToken[d], NoToken}]_vars
  <2> SUFFICES ASSUME TypeOK, FencingInv, [Next]_vars, NEW d \in Delivery, Closed(d)
               PROVE  /\ done'[d] = done[d] /\ attempts'[d] = attempts[d]
                      /\ leaseToken'[d] \in {leaseToken[d], NoToken}
    OBVIOUS
  <2>1. RowStep(d)
    BY OnlyRowSteps
  <2>2. leaseToken[d] = NoToken
    BY DEF FencingInv, ClosedHasNoLease
  <2> QED
    BY <2>1, <2>2 DEF RowStep
<1> QED
  BY <1>1, TypeCorrect, Fencing, PTL DEF Spec, ClosedStaysClosed

(* What has been received stays received. *)
LEMMA ReceiptsStay ==
  ASSUME TypeOK, [Next]_vars, NEW i \in Delivery, received[i] > 0
  PROVE  received'[i] > 0
<1> USE LimitsAssumption DEF TypeOK, OneMore, Lower
<1>1. CASE UNCHANGED received
  BY <1>1
<1>2. ASSUME NEW w \in Worker, NEW ds, Abandon(w, ds) PROVE received'[i] > 0
  <2>1. PICK r \in SUBSET {d \in ds : task[w][d] = "sending"} :
          received' = [d \in Delivery |->
            IF d \in r THEN OneMore(received[d]) ELSE received[d]]
    BY <1>2, Zenon DEF Abandon
  <2> QED
    BY <2>1
<1>3. ASSUME NEW w \in Worker, NEW d \in Delivery, SendOk(w, d)
      PROVE  received'[i] > 0
  BY <1>3 DEF SendOk
<1>4. ASSUME NEW w \in Worker, CycleStep(w) \/ FaultStep(w) \/ Restart(w)
      PROVE  received'[i] > 0
  BY <1>1, <1>2, <1>4
     DEF CycleStep, FaultStep, Restart, Poll, FanOut, ClaimSelect, EndCycle,
         ClaimCommit, WaveDone, Release, AfterRelease, FanOutFail, ClaimFail,
         ReleaseFail, Cancel, Crash, aux
<1>5. ASSUME NEW w \in Worker, NEW d \in Delivery, TaskStep(w, d)
      PROVE  received'[i] > 0
  BY <1>1, <1>2, <1>3, <1>5
     DEF TaskStep, LoadData, StartSend, SkipSend, SendError, TaskFail,
         RecordLock, RecordGone, RecordVerify, RecordDiscard, RecordCommit, aux
<1>6. CASE (\E d \in Delivery : DeleteRow(d)) \/ Tick \/ UNCHANGED vars
  BY <1>1, <1>6 DEF DeleteRow, Tick, vars, aux
<1> QED
  BY <1>4, <1>5, <1>6 DEF Next

(* A result is a success only where a send has just ended well ... *)
LEMMA GoodOutcomesAreSent ==
  ASSUME TypeOK, [Next]_vars, NEW r \in Worker, NEW i \in Delivery,
         outcome'[r][i] = "ok", outcome[r][i] # "ok"
  PROVE  SendOk(r, i)
<1> USE DEF TypeOK, Outcomes, tasks, aux
<1>1. CASE UNCHANGED outcome
  BY <1>1
<1>2. ASSUME NEW w \in Worker,
             outcome' = [outcome EXCEPT ![w] = [d \in Delivery |-> "none"]]
      PROVE  FALSE
  BY <1>2
<1>3. ASSUME NEW w \in Worker, NEW d \in Delivery, NEW o \in {"none", "failed"},
             outcome' = [outcome EXCEPT ![w][d] = o]
      PROVE  FALSE
  BY <1>3
<1>4. ASSUME NEW w \in Worker, CycleStep(w) \/ FaultStep(w) \/ Restart(w)
      PROVE  SendOk(r, i)
  BY <1>1, <1>2, <1>4
     DEF CycleStep, FaultStep, Restart, Poll, FanOut, ClaimSelect, EndCycle,
         ClaimCommit, WaveDone, Release, AfterRelease, FanOutFail, ClaimFail,
         ReleaseFail, Cancel, Crash, Forget
<1>5. ASSUME NEW w \in Worker, NEW d \in Delivery, TaskStep(w, d)
      PROVE  SendOk(r, i)
  <2>1. CASE SendOk(w, d)
    BY <2>1 DEF SendOk
  <2> QED
    BY <1>1, <1>3, <1>5, <2>1
       DEF TaskStep, LoadData, StartSend, SkipSend, SendError, TaskFail,
           RecordLock, RecordGone, RecordVerify, RecordDiscard, RecordCommit,
           TaskEnds
<1>6. CASE (\E d \in Delivery : DeleteRow(d)) \/ Tick \/ UNCHANGED vars
  BY <1>1, <1>6 DEF DeleteRow, Tick, vars
<1> QED
  BY <1>4, <1>5, <1>6 DEF Next

(* ... and processed_at is set only of such a result. *)
LEMMA DoneIsRecorded ==
  ASSUME TypeOK, [Next]_vars, NEW i \in Delivery, done'[i], ~done[i]
  PROVE  \E w \in Worker : outcome[w][i] = "ok"
<1> USE DEF TypeOK, rows
<1>1. CASE UNCHANGED done
  BY <1>1
<1>2. ASSUME NEW w \in Worker, CycleStep(w) \/ FaultStep(w) \/ Restart(w)
      PROVE  FALSE
  BY <1>1, <1>2
     DEF CycleStep, FaultStep, Restart, Poll, FanOut, ClaimSelect, EndCycle,
         ClaimCommit, WaveDone, Release, FanOutFail, ClaimFail, ReleaseFail,
         Cancel, Crash, ClaimsReachRows, Rollback
<1>3. ASSUME NEW w \in Worker, NEW d \in Delivery, TaskStep(w, d)
      PROVE  outcome[w][i] = "ok"
  <2>1. CASE RecordCommit(w, d)
    <3>1. /\ outcome[w][d] = "ok" => done' = [done EXCEPT ![d] = TRUE]
          /\ outcome[w][d] # "ok" => done' = done
      BY <2>1 DEF RecordCommit
    <3> QED
      BY <3>1
  <2> QED
    BY <1>1, <1>3, <2>1
       DEF TaskStep, LoadData, StartSend, SkipSend, SendOk, SendError, TaskFail,
           RecordLock, RecordGone, RecordVerify, RecordDiscard
<1>4. CASE (\E d \in Delivery : DeleteRow(d)) \/ Tick \/ UNCHANGED vars
  BY <1>1, <1>4 DEF DeleteRow, Tick, vars
<1> QED
  BY <1>2, <1>3, <1>4 DEF Next

(* A delivery counts as done only if its recipient has received it. *)
THEOREM SuccessesWereReceived == Spec => []SuccessWasReceived
<1> DEFINE GoodWasReceived ==
      \A w \in Worker, d \in Delivery : outcome[w][d] = "ok" => received[d] > 0
<1>1. Init => SuccessWasReceived /\ GoodWasReceived
  BY DEF Init, SuccessWasReceived
<1>2. TypeOK /\ SuccessWasReceived /\ GoodWasReceived /\ [Next]_vars
        => SuccessWasReceived' /\ GoodWasReceived'
  <2> SUFFICES ASSUME TypeOK, SuccessWasReceived, GoodWasReceived, [Next]_vars
               PROVE  SuccessWasReceived' /\ GoodWasReceived'
    OBVIOUS
  <2>1. ASSUME NEW d \in Delivery, done'[d] PROVE received'[d] > 0
    <3>1. received[d] > 0
      BY <2>1, DoneIsRecorded DEF SuccessWasReceived
    <3> QED
      BY <3>1, ReceiptsStay
  <2>2. ASSUME NEW w \in Worker, NEW d \in Delivery, outcome'[w][d] = "ok"
        PROVE  received'[d] > 0
    <3>1. CASE outcome[w][d] = "ok"
      BY <3>1, ReceiptsStay
    <3>2. CASE outcome[w][d] # "ok"
      <4>1. SendOk(w, d)
        BY <2>2, <3>2, GoodOutcomesAreSent
      <4> QED
        BY <4>1, LimitsAssumption DEF SendOk, OneMore, Lower, TypeOK
    <3> QED
      BY <3>1, <3>2
  <2> QED
    BY <2>1, <2>2 DEF SuccessWasReceived
<1> QED
  BY <1>1, <1>2, TypeCorrect, PTL DEF Spec

(* What an unexpired budget of a task says of the lease in the row. *)
Covered(w, d) ==
  /\ task[w][d] = "sending" =>
       /\ leaseToken[d] = claim[w][d]
       /\ leaseLeft[d] >= timer[w][d] + DbTimeout
  /\ task[w][d] \in {"recording", "locked"} /\ timer[w][d] > 0 =>
       /\ leaseToken[d] = claim[w][d]
       /\ leaseLeft[d] >= timer[w][d]

LeaseOutlivesTask ==
  Prompt => \A w \in Worker, d \in Delivery : row[d] = "live" => Covered(w, d)

(* With prompt timeouts the lease outlasts a send by the time reserved for the
   result, and the result's transaction for as long as it is in time. *)
THEOREM LeasesOutliveTasks == Spec => []LeaseOutlivesTask
<1> USE WorkerAssumption, TokenAssumption, LimitsAssumption
        DEF Tokens, Phases, Tasks, Outcomes
<1>1. Init => LeaseOutlivesTask
  BY DEF Init, LeaseOutlivesTask, Covered
<1>2. TypeOK /\ TypeOK' /\ FencingInv /\ LeaseOutlivesTask /\ [Next]_vars
        => LeaseOutlivesTask'
  <2> SUFFICES ASSUME TypeOK, TypeOK', FencingInv, LeaseOutlivesTask,
                      [Next]_vars, Prompt,
                      NEW r \in Worker, NEW i \in Delivery, row'[i] = "live"
               PROVE  Covered(r, i)'
    BY DEF LeaseOutlivesTask
  <2> USE DEF TypeOK, rows, tasks, mem, aux
  <2>1. row[i] = "live" => Covered(r, i)
    BY DEF LeaseOutlivesTask
  <2>2. row[i] = "unborn" => task[r][i] = "none"
    BY DEF FencingInv, TasksFitClaims
  <2>3. ASSUME task'[r][i] = task[r][i], timer'[r][i] = timer[r][i],
               claim'[r][i] = claim[r][i], leaseToken'[i] = leaseToken[i],
               leaseLeft'[i] = leaseLeft[i], row[i] # "deleted"
        PROVE  Covered(r, i)'
    BY <2>1, <2>2, <2>3 DEF Covered
  <2>4. ASSUME task'[r][i] \in {"none", "loading", "checking", "verified", "done"}
        PROVE  Covered(r, i)'
    BY <2>4 DEF Covered
  <2>5. ASSUME leaseToken[i] # claim[r][i] \/ leaseLeft[i] = 0, row[i] = "live",
               task'[r][i] = task[r][i], timer'[r][i] = timer[r][i]
        PROVE  Covered(r, i)'
    <3>1. timer[r][i] \in Nat /\ leaseLeft[i] \in Nat
      OBVIOUS
    <3>2. task[r][i] # "sending"
      BY <2>1, <2>5, <3>1 DEF Covered
    <3>3. ~(task[r][i] \in {"recording", "locked"} /\ timer[r][i] > 0)
      BY <2>1, <2>5, <3>1 DEF Covered
    <3> QED
      BY <2>5, <3>2, <3>3 DEF Covered
  <2>6. ASSUME NEW w \in Worker, w # r,
               \/ Forget(w)
               \/ /\ \E f : task' = [task EXCEPT ![w] = f]
                  /\ \E f : timer' = [timer EXCEPT ![w] = f]
                  /\ UNCHANGED claim
        PROVE  /\ task'[r][i] = task[r][i] /\ timer'[r][i] = timer[r][i]
               /\ claim'[r][i] = claim[r][i]
    BY <2>6 DEF Forget
  <2>7. ASSUME NEW w \in Worker, phase[w] = "claiming", ClaimsReachRows(w),
               task'[r][i] = task[r][i], timer'[r][i] = timer[r][i],
               claim'[r][i] = claim[r][i]
        PROVE  Covered(r, i)'
    <3>1. row[i] = "live"
      BY <2>7 DEF ClaimsReachRows
    <3>2. CASE i \in Wave(w)
      <4>1. leaseLeft[i] = 0
        BY <2>7, <3>2 DEF Wave, FencingInv, ClaimsAreFree, Claiming
      <4> QED
        BY <2>5, <2>7, <3>1, <4>1
    <3>3. CASE i \notin Wave(w)
      BY <2>3, <2>7, <3>1, <3>3 DEF ClaimsReachRows
    <3> QED
      BY <3>2, <3>3
  <2>8. ASSUME NEW w \in Worker, ClaimCommit(w) PROVE Covered(r, i)'
    <3>1. CASE w = r
      <4>1. task'[r][i] \in {"none", "loading"}
        BY <2>8, <3>1 DEF ClaimCommit
      <4> QED
        BY <2>4, <4>1
    <3>2. CASE w # r
      BY <2>6, <2>7, <2>8, <3>2 DEF ClaimCommit
    <3> QED
      BY <3>1, <3>2
  <2>9. ASSUME NEW w \in Worker, Release(w) PROVE Covered(r, i)'
    <3>1. Forget(w) /\ row[i] = "live"
      BY <2>9 DEF Release, AfterRelease
    <3>2. CASE w = r
      BY <2>4, <3>1, <3>2 DEF Forget
    <3>3. CASE w # r /\ i \in Wave(w) /\ leaseToken[i] = claim[w][i]
      <4>1. leaseToken[i] # claim[r][i]
        BY <3>3 DEF Wave, FencingInv, TokensAreUnique
      <4> QED
        BY <2>5, <2>6, <3>1, <3>3, <4>1
    <3>4. CASE w # r /\ ~(i \in Wave(w) /\ leaseToken[i] = claim[w][i])
      <4>1. leaseToken'[i] = leaseToken[i] /\ leaseLeft'[i] = leaseLeft[i]
        BY <2>9, <3>4 DEF Release
      <4> QED
        BY <2>3, <2>6, <3>1, <3>4, <4>1
    <3> QED
      BY <3>2, <3>3, <3>4
  <2>10. ASSUME NEW w \in Worker, ClaimSelect(w) PROVE Covered(r, i)'
    <3>1. CASE w = r
      <4>1. task'[r][i] = "none"
        BY <2>10, <3>1 DEF ClaimSelect, FencingInv, TasksFitClaims
      <4> QED
        BY <2>4, <4>1
    <3>2. CASE w # r
      <4>1. claim'[r] = claim[r]
        BY <2>10, <3>2, ClaimSelectEffect
      <4> QED
        BY <2>3, <2>10, <4>1 DEF ClaimSelect
    <3> QED
      BY <3>1, <3>2
  <2>11. ASSUME NEW w \in Worker, FanOut(w) PROVE Covered(r, i)'
    <3>1. row[i] # "deleted"
      BY <2>11 DEF FanOut
    <3> QED
      BY <2>3, <2>11, <3>1 DEF FanOut
  <2>12. ASSUME NEW w \in Worker, CycleStep(w) PROVE Covered(r, i)'
    BY <2>3, <2>8, <2>9, <2>10, <2>11, <2>12
       DEF CycleStep, Poll, EndCycle, WaveDone
  <2>13. ASSUME NEW w \in Worker, FaultStep(w) PROVE Covered(r, i)'
    <3>1. row[i] = "live"
      BY <2>13 DEF FaultStep, FanOutFail, ClaimFail, ReleaseFail, Cancel, Crash,
                   Rollback, ClaimsReachRows
    <3>2. \/ leaseToken'[i] = leaseToken[i] /\ leaseLeft'[i] = leaseLeft[i]
          \/ phase[w] = "claiming" /\ ClaimsReachRows(w)
      BY <2>13 DEF FaultStep, FanOutFail, ClaimFail, ReleaseFail, Cancel, Crash,
                   Rollback
    <3>3. CASE FanOutFail(w)
      BY <2>3, <3>1, <3>3 DEF FanOutFail
    <3>4. CASE Forget(w)
      <4>1. CASE w = r
        BY <2>4, <3>4, <4>1 DEF Forget
      <4>2. CASE w # r
        BY <2>3, <2>6, <2>7, <3>1, <3>2, <3>4, <4>2
      <4> QED
        BY <4>1, <4>2
    <3>5. CASE Cancel(w) /\ phase[w] = "wave"
      <4>1. /\ task' = [task EXCEPT ![w] = [d \in Delivery |->
                          IF d \in Wave(w) THEN "done" ELSE "none"]]
            /\ timer' = [timer EXCEPT ![w] = [d \in Delivery |-> 0]]
            /\ UNCHANGED claim
        BY <3>5 DEF Cancel
      <4>2. CASE w = r
        BY <2>4, <4>1, <4>2
      <4>3. CASE w # r
        BY <2>3, <2>6, <3>1, <3>2, <3>5, <4>1, <4>3
      <4> QED
        BY <4>2, <4>3
    <3> QED
      BY <2>13, <3>3, <3>4, <3>5
         DEF FaultStep, ClaimFail, ReleaseFail, AfterRelease, Cancel, Crash
  <2>14. ASSUME NEW w \in Worker, NEW d \in Delivery, RecordCommit(w, d)
         PROVE  Covered(r, i)'
    <3>1. /\ row[i] = "live" /\ claim' = claim
          /\ task[w][d] = "verified" /\ leaseToken[d] = claim[w][d]
          /\ claim[w][d] # NoToken
          /\ task' = [task EXCEPT ![w][d] = "done"]
          /\ timer' = [timer EXCEPT ![w][d] = 0]
      BY <2>14 DEF RecordCommit, TaskEnds, TaskGoes, FencingInv,
                   VerifiedHoldsLease, TasksFitClaims
    <3>2. CASE w = r /\ d = i
      BY <2>4, <3>1, <3>2
    <3>3. CASE w # r /\ d = i
      <4>1. leaseToken[i] # claim[r][i]
        BY <3>1, <3>3 DEF FencingInv, TokensAreUnique
      <4> QED
        BY <2>5, <3>1, <3>3, <4>1
    <3>4. CASE d # i
      BY <2>3, <2>14, <3>1, <3>4 DEF RecordCommit, Released
    <3> QED
      BY <3>2, <3>3, <3>4
  <2>15. ASSUME NEW w \in Worker, NEW d \in Delivery, TaskStep(w, d),
                ~RecordCommit(w, d)
         PROVE  Covered(r, i)'
    <3>1. /\ UNCHANGED <<row, leaseToken, leaseLeft, claim>>
          /\ \E x : task' = [task EXCEPT ![w][d] = x]
          /\ timer' = timer \/ \E x : timer' = [timer EXCEPT ![w][d] = x]
      BY <2>15 DEF TaskStep, LoadData, StartSend, SkipSend, SendOk, SendError,
                   TaskFail, RecordLock, RecordGone, RecordVerify,
                   RecordDiscard, TaskEnds, TaskGoes
    <3>2. CASE w # r \/ d # i
      <4>1. task'[r][i] = task[r][i] /\ timer'[r][i] = timer[r][i]
        BY <3>1, <3>2
      <4> QED
        BY <2>3, <3>1, <4>1
    <3>3. CASE w = r /\ d = i /\ StartSend(w, d)
      <4>1. PICK elapsed \in 0 .. DbTimeout - timer[r][i] :
              TaskGoes(r, i, "sending", SendTime(i, elapsed))
        BY <3>3, Zenon DEF StartSend
      <4>2. leaseToken[i] = claim[r][i]
        BY <3>3 DEF StartSend, Owns
      <4>3. task'[r][i] = "sending" /\ timer'[r][i] = SendTime(i, elapsed)
        BY <4>1 DEF TaskGoes
      <4>4. leaseLeft[i] >= SendTime(i, elapsed) + DbTimeout
        BY <4>1 DEF SendTime, Lower
      <4> QED
        BY <3>1, <4>2, <4>3, <4>4 DEF Covered
    <3>4. CASE w = r /\ d = i /\ (SendOk(w, d) \/ SendError(w, d))
      <4>1. /\ task[r][i] = "sending" /\ task'[r][i] = "recording"
            /\ timer'[r][i] = DbTimeout
        BY <3>4 DEF SendOk, SendError, TaskGoes
      <4> QED
        BY <2>1, <3>1, <4>1 DEF Covered
    <3>5. CASE w = r /\ d = i /\ RecordLock(w, d)
      <4>1. /\ task[r][i] = "recording" /\ task'[r][i] = "locked"
            /\ timer' = timer
        BY <3>5 DEF RecordLock
      <4> QED
        BY <2>1, <3>1, <4>1 DEF Covered
    <3>6. CASE /\ w = r /\ d = i
               /\ \/ LoadData(w, d) \/ SkipSend(w, d) \/ TaskFail(w, d)
                  \/ RecordGone(w, d) \/ RecordVerify(w, d) \/ RecordDiscard(w, d)
      <4>1. \E x \in {"checking", "verified", "done"} :
              task' = [task EXCEPT ![r][i] = x]
        BY <3>6 DEF LoadData, SkipSend, TaskFail, RecordGone, RecordVerify,
                    RecordDiscard, TaskEnds, TaskGoes
      <4>2. task'[r][i] \in {"checking", "verified", "done"}
        BY <4>1
      <4> QED
        BY <2>4, <4>2
    <3> QED
      BY <2>15, <3>2, <3>3, <3>4, <3>5, <3>6 DEF TaskStep
  <2>16. ASSUME NEW d \in Delivery, DeleteRow(d) PROVE Covered(r, i)'
    <3>1. i # d
      BY <2>16 DEF DeleteRow
    <3> QED
      BY <2>3, <2>16, <3>1 DEF DeleteRow
  <2>17. CASE Tick
    <3>1. /\ task' = task /\ claim' = claim /\ row' = row
          /\ leaseToken' = leaseToken
          /\ leaseLeft'[i] = Later(leaseLeft[i], 0)
          /\ timer'[r][i] = Later(timer[r][i], 0)
      BY <2>17 DEF Tick
    <3>2. task[r][i] \in {"sending", "recording", "locked"} => timer[r][i] > 0
      BY <2>17 DEF Tick
    <3> QED
      BY <2>1, <3>1, <3>2 DEF Later, Covered
  <2>18. ASSUME NEW w \in Worker, Restart(w) PROVE Covered(r, i)'
    BY <2>3, <2>18 DEF Restart
  <2>19. CASE UNCHANGED vars
    BY <2>3, <2>19 DEF vars
  <2> QED
    BY <2>12, <2>13, <2>14, <2>15, <2>16, <2>17, <2>18, <2>19
       DEF Next, TaskStep
<1> QED
  BY <1>1, <1>2, TypeCorrect, Fencing, PTL DEF Spec

(* As long as timeouts fire when they are due, whatever update writes in time is
   accepted: the reserve in the send's budget is large enough. *)
THEOREM NoResultIsStale == Spec => []ResultsAreNotStale
<1>1. TypeOK /\ FencingInv /\ LeaseOutlivesTask => ResultsAreNotStale
  <2> SUFFICES ASSUME TypeOK, FencingInv, LeaseOutlivesTask, Prompt,
                      NEW w \in Worker, NEW d \in Delivery,
                      task[w][d] = "locked", timer[w][d] > 0
               PROVE  LeaseHolds(w, d)
    BY DEF ResultsAreNotStale
  <2>1. row[d] = "live" /\ claim[w][d] # NoToken
    BY DEF FencingInv, TransactionsHoldLocks, TasksFitClaims, Recording
  <2>2. leaseToken[d] = claim[w][d] /\ leaseLeft[d] >= timer[w][d]
    BY <2>1 DEF LeaseOutlivesTask, Covered
  <2>3. ~done[d]
    BY <2>1, <2>2 DEF FencingInv, HolderSeesAttempts
  <2> QED
    BY <2>2, <2>3 DEF LeaseHolds, TypeOK
<1> QED
  BY <1>1, TypeCorrect, Fencing, LeasesOutliveTasks, PTL

(* A send starts only where the lease in the row is the sender's. *)
LEMMA SendsStartWithLease ==
  ASSUME TypeOK, [Next]_vars, NEW r \in Worker, NEW i \in Delivery,
         task'[r][i] = "sending", task[r][i] # "sending"
  PROVE  /\ StartSend(r, i)
         /\ row[i] = "live" /\ leaseToken[i] = claim[r][i]
         /\ \A w \in Worker : w # r => task'[w][i] = task[w][i]
<1> USE DEF TypeOK, tasks, mem
<1>1. CASE UNCHANGED task
  BY <1>1
<1>2. ASSUME NEW w \in Worker, Forget(w) PROVE FALSE
  BY <1>2 DEF Forget
<1>3. ASSUME NEW w \in Worker, NEW f \in [Delivery -> Tasks \ {"sending"}],
             task' = [task EXCEPT ![w] = f]
      PROVE  FALSE
  BY <1>3
<1>4. ASSUME NEW w \in Worker, CycleStep(w) PROVE FALSE
  <2>1. CASE ClaimCommit(w)
    <3>1. [d \in Delivery |-> IF d \in Wave(w) THEN "loading" ELSE "none"]
            \in [Delivery -> Tasks \ {"sending"}]
      BY DEF Tasks
    <3> QED
      BY <1>3, <2>1, <3>1 DEF ClaimCommit
  <2> QED
    BY <1>1, <1>2, <1>4, <2>1
       DEF CycleStep, Poll, FanOut, ClaimSelect, EndCycle, WaveDone, Release,
           AfterRelease
<1>5. ASSUME NEW w \in Worker, FaultStep(w) PROVE FALSE
  <2>1. CASE Cancel(w) /\ phase[w] = "wave"
    <3>1. [d \in Delivery |-> IF d \in Wave(w) THEN "done" ELSE "none"]
            \in [Delivery -> Tasks \ {"sending"}]
      BY DEF Tasks
    <3> QED
      BY <1>3, <2>1, <3>1 DEF Cancel
  <2> QED
    BY <1>1, <1>2, <1>5, <2>1
       DEF FaultStep, FanOutFail, ClaimFail, ReleaseFail, AfterRelease, Cancel,
           Crash
<1>6. ASSUME NEW w \in Worker, NEW d \in Delivery, TaskStep(w, d),
             ~StartSend(w, d)
      PROVE  FALSE
  <2>1. \E x \in Tasks \ {"sending"} : task' = [task EXCEPT ![w][d] = x]
    BY <1>6 DEF TaskStep, LoadData, SkipSend, SendOk, SendError, TaskFail,
                RecordLock, RecordGone, RecordVerify, RecordDiscard,
                RecordCommit, TaskEnds, TaskGoes, Tasks
  <2> QED
    BY <2>1
<1>7. ASSUME NEW w \in Worker, NEW d \in Delivery, StartSend(w, d)
      PROVE  /\ w = r /\ d = i /\ Owns(r, i)
             /\ \A v \in Worker : v # r => task'[v][i] = task[v][i]
  <2>1. Owns(w, d) /\ task' = [task EXCEPT ![w][d] = "sending"]
    BY <1>7 DEF StartSend, TaskGoes
  <2> QED
    BY <2>1
<1>8. CASE \/ \E d \in Delivery : DeleteRow(d)
           \/ Tick \/ UNCHANGED vars \/ \E w \in Worker : Restart(w)
  BY <1>1, <1>8 DEF DeleteRow, Tick, vars, Restart
<1> QED
  BY <1>4, <1>5, <1>6, <1>7, <1>8 DEF Next, Owns

(* As long as timeouts fire when they are due, no two workers ever send one
   delivery at the same time. *)
THEOREM NoSendsOverlap == Spec => []SendsDoNotOverlap
<1>1. Init => SendsDoNotOverlap
  BY DEF Init, SendsDoNotOverlap
<1>2. TypeOK /\ FencingInv /\ LeaseOutlivesTask /\ SendsDoNotOverlap
        /\ [Next]_vars => SendsDoNotOverlap'
  <2> SUFFICES ASSUME TypeOK, FencingInv, LeaseOutlivesTask, SendsDoNotOverlap,
                      [Next]_vars, Prompt, NEW i \in Delivery,
                      NEW v \in Worker, NEW w \in Worker,
                      task'[v][i] = "sending", task'[w][i] = "sending"
               PROVE  v = w
    BY DEF SendsDoNotOverlap
  <2>1. ASSUME NEW r \in Worker, NEW u \in Worker, r # u,
               task'[r][i] = "sending", task[r][i] # "sending",
               task'[u][i] = "sending"
        PROVE  FALSE
    <3>1. /\ row[i] = "live" /\ leaseToken[i] = claim[r][i]
          /\ task[u][i] = "sending"
      BY <2>1, SendsStartWithLease
    <3>2. leaseToken[i] = claim[u][i] /\ claim[u][i] # NoToken
      BY <3>1 DEF LeaseOutlivesTask, Covered, FencingInv, TasksFitClaims
    <3>3. claim[u][i] = claim[r][i] /\ TokensAreUnique
      BY <3>1, <3>2 DEF FencingInv
    <3> QED
      BY <2>1, <3>2, <3>3, Zenon DEF TokensAreUnique
  <2>2. CASE task[v][i] = "sending" /\ task[w][i] = "sending"
    BY <2>2 DEF SendsDoNotOverlap
  <2> QED
    BY <2>1, <2>2
<1> QED
  BY <1>1, <1>2, TypeCorrect, Fencing, LeasesOutliveTasks, PTL DEF Spec

(* A send that went well and is not recorded yet still has its lease, and for
   longer than its transaction may take: nobody else can claim the row. *)
SuccessKeepsLease ==
  Prompt => \A w \in Worker, d \in Delivery :
              outcome[w][d] = "ok" /\ row[d] = "live" =>
                leaseToken[d] = claim[w][d] /\ leaseLeft[d] > timer[w][d]

(* A deleted row does not come back. *)
LEMMA RowsStayDeleted ==
  ASSUME TypeOK, [Next]_vars, NEW i \in Delivery, row[i] = "deleted"
  PROVE  row'[i] = "deleted"
<1> USE DEF TypeOK, rows
<1>1. CASE UNCHANGED row
  BY <1>1
<1>2. ASSUME NEW w \in Worker, CycleStep(w) \/ FaultStep(w) \/ Restart(w)
      PROVE  row'[i] = "deleted"
  <2>1. CASE FanOut(w)
    BY <2>1 DEF FanOut
  <2> QED
    BY <1>1, <1>2, <2>1
       DEF CycleStep, FaultStep, Restart, Poll, ClaimSelect, EndCycle,
           ClaimCommit, WaveDone, Release, FanOutFail, ClaimFail, ReleaseFail,
           Cancel, Crash, ClaimsReachRows, Rollback
<1>3. ASSUME NEW w \in Worker, NEW d \in Delivery, TaskStep(w, d)
      PROVE  row'[i] = "deleted"
  BY <1>1, <1>3
     DEF TaskStep, LoadData, StartSend, SkipSend, SendOk, SendError, TaskFail,
         RecordLock, RecordGone, RecordVerify, RecordDiscard, RecordCommit
<1>4. CASE (\E d \in Delivery : DeleteRow(d)) \/ Tick \/ UNCHANGED vars
  BY <1>1, <1>4 DEF DeleteRow, Tick, vars
<1> QED
  BY <1>2, <1>3, <1>4 DEF Next

(* A success that waits for its transaction keeps its lease all the while. *)
THEOREM SuccessesKeepLeases == Spec => []SuccessKeepsLease
<1> USE WorkerAssumption, TokenAssumption, LimitsAssumption
        DEF Tokens, Phases, Tasks, Outcomes
<1>1. Init => SuccessKeepsLease
  BY DEF Init, SuccessKeepsLease
<1>2. TypeOK /\ TypeOK' /\ FencingInv /\ LeaseOutlivesTask /\ SuccessKeepsLease
        /\ [Next]_vars => SuccessKeepsLease'
  <2> SUFFICES ASSUME TypeOK, TypeOK', FencingInv, LeaseOutlivesTask,
                      SuccessKeepsLease, [Next]_vars, Prompt,
                      NEW r \in Worker, NEW i \in Delivery,
                      outcome'[r][i] = "ok", row'[i] = "live"
               PROVE  leaseToken'[i] = claim'[r][i] /\ leaseLeft'[i] > timer'[r][i]
    BY DEF SuccessKeepsLease
  <2> DEFINE Kept == leaseToken'[i] = claim'[r][i] /\ leaseLeft'[i] > timer'[r][i]
  <2> USE DEF TypeOK, rows, tasks, mem, aux
  <2>1. CASE outcome[r][i] # "ok"
    <3>1. SendOk(r, i)
      BY <2>1, GoodOutcomesAreSent
    <3>2. /\ task[r][i] = "sending" /\ timer[r][i] > 0 /\ timer'[r][i] = DbTimeout
          /\ UNCHANGED <<row, leaseToken, leaseLeft, claim>>
      BY <3>1 DEF SendOk, InTime, TaskGoes
    <3>3. leaseToken[i] = claim[r][i] /\ leaseLeft[i] >= timer[r][i] + DbTimeout
      BY <3>2 DEF LeaseOutlivesTask, Covered
    <3> QED
      BY <3>2, <3>3
  <2>2. CASE outcome[r][i] = "ok"
    <3>1. /\ task[r][i] \in {"recording", "locked", "verified"}
          /\ phase[r] \in {"wave", "releasing", "stopping"}
          /\ claim[r][i] # NoToken /\ row[i] # "unborn"
      BY <2>2 DEF FencingInv, TasksFitClaims
    <3>2. row[i] = "live"
      BY <3>1, RowsStayDeleted
    <3>3. leaseToken[i] = claim[r][i] /\ leaseLeft[i] > timer[r][i]
      BY <2>2, <3>2 DEF SuccessKeepsLease
    <3>4. ASSUME timer'[r][i] = timer[r][i], claim'[r][i] = claim[r][i],
                 leaseToken'[i] = leaseToken[i], leaseLeft'[i] = leaseLeft[i]
          PROVE  Kept
      BY <3>3, <3>4
    <3>5. ASSUME NEW w \in Worker, Forget(w)
          PROVE  w # r /\ timer'[r][i] = timer[r][i] /\ claim'[r][i] = claim[r][i]
      BY <3>5 DEF Forget
    <3>6. ASSUME NEW w \in Worker, phase[w] = "claiming", ClaimsReachRows(w)
          PROVE  leaseToken'[i] = leaseToken[i] /\ leaseLeft'[i] = leaseLeft[i]
      <4>1. i \notin Wave(w)
        BY <3>3, <3>6 DEF Wave, FencingInv, ClaimsAreFree, Claiming
      <4> QED
        BY <3>6, <4>1 DEF ClaimsReachRows
    <3>7. ASSUME NEW w \in Worker, leaseToken[i] = claim[w][i] PROVE w = r
      <4>1. /\ claim[w][i] = claim[r][i] /\ claim[w][i] # NoToken
            /\ TokensAreUnique
        BY <3>1, <3>3, <3>7 DEF FencingInv
      <4> QED
        BY <4>1, Zenon DEF TokensAreUnique
    <3>8. ASSUME NEW w \in Worker, CycleStep(w) PROVE Kept
      <4>1. CASE ClaimSelect(w)
        <5>1. w # r /\ phase[w] = "polling"
          BY <3>1, <4>1 DEF ClaimSelect
        <5>2. claim'[r] = claim[r]
          BY <4>1, <5>1, ClaimSelectEffect
        <5> QED
          BY <3>4, <4>1, <5>2 DEF ClaimSelect
      <4>2. CASE ClaimCommit(w)
        <5>1. w # r /\ phase[w] = "claiming" /\ ClaimsReachRows(w)
          BY <3>1, <4>2 DEF ClaimCommit
        <5>2. timer'[r] = timer[r] /\ claim'[r] = claim[r]
          BY <4>2, <5>1 DEF ClaimCommit
        <5> QED
          BY <3>4, <3>6, <5>1, <5>2
      <4>3. CASE Release(w)
        <5>1. Forget(w)
          BY <4>3 DEF Release, AfterRelease
        <5>2. leaseToken[i] # claim[w][i]
          BY <3>5, <3>7, <5>1
        <5>3. leaseToken'[i] = leaseToken[i] /\ leaseLeft'[i] = leaseLeft[i]
          BY <4>3, <5>2 DEF Release
        <5> QED
          BY <3>4, <3>5, <5>1, <5>3
      <4> QED
        BY <3>4, <3>8, <4>1, <4>2, <4>3
           DEF CycleStep, Poll, FanOut, EndCycle, WaveDone
    <3>9. ASSUME NEW w \in Worker, FaultStep(w) PROVE Kept
      <4>1. \/ leaseToken'[i] = leaseToken[i] /\ leaseLeft'[i] = leaseLeft[i]
            \/ phase[w] = "claiming" /\ ClaimsReachRows(w)
        BY <3>9 DEF FaultStep, FanOutFail, ClaimFail, ReleaseFail, Cancel, Crash,
                    Rollback
      <4>2. CASE FanOutFail(w)
        BY <3>4, <4>2 DEF FanOutFail
      <4>3. CASE Forget(w)
        BY <3>4, <3>5, <3>6, <4>1, <4>3
      <4>4. CASE Cancel(w) /\ phase[w] = "wave"
        <5>1. /\ outcome' = [outcome EXCEPT ![w] = [d \in Delivery |-> "none"]]
              /\ timer' = [timer EXCEPT ![w] = [d \in Delivery |-> 0]]
              /\ UNCHANGED claim
          BY <4>4 DEF Cancel
        <5>2. w # r
          BY <5>1
        <5>3. timer'[r][i] = timer[r][i] /\ claim'[r][i] = claim[r][i]
          BY <5>1, <5>2
        <5> QED
          BY <3>4, <4>1, <4>4, <5>3
      <4> QED
        BY <3>9, <4>2, <4>3, <4>4
           DEF FaultStep, ClaimFail, ReleaseFail, AfterRelease, Cancel, Crash
    <3>10. ASSUME NEW w \in Worker, NEW d \in Delivery, TaskStep(w, d)
           PROVE  Kept
      <4>1. CASE w = r /\ d = i
        <5>1. RecordLock(r, i) \/ RecordVerify(r, i)
          BY <3>1, <3>10, <4>1
             DEF TaskStep, LoadData, StartSend, SkipSend, SendOk, SendError,
                 TaskFail, RecordGone, RecordDiscard, RecordCommit, TaskEnds
        <5> QED
          BY <3>4, <5>1 DEF RecordLock, RecordVerify
      <4>2. CASE w # r \/ d # i
        <5>1. /\ claim' = claim
              /\ timer' = timer \/ \E x : timer' = [timer EXCEPT ![w][d] = x]
          BY <3>10 DEF TaskStep, LoadData, StartSend, SkipSend, SendOk,
               SendError, TaskFail, RecordLock, RecordGone, RecordVerify,
               RecordDiscard, RecordCommit, TaskEnds, TaskGoes
        <5>2. timer'[r][i] = timer[r][i] /\ claim'[r][i] = claim[r][i]
          <6>1. claim'[r][i] = claim[r][i]
            BY <5>1
          <6>2. ASSUME NEW x, timer' = [timer EXCEPT ![w][d] = x]
                PROVE  timer'[r][i] = timer[r][i]
            BY <4>2, <6>2
          <6>3. timer'[r][i] = timer[r][i]
            BY <5>1, <6>2
          <6> QED
            BY <6>1, <6>3
        <5>3. CASE RecordCommit(w, d)
          <6>1. task[w][d] = "verified" /\ Released(d, claim[w][d])
            BY <5>3 DEF RecordCommit
          <6>2. leaseToken[d] = claim[w][d]
            BY <6>1 DEF FencingInv, VerifiedHoldsLease
          <6>3. d # i
            BY <3>7, <4>2, <6>2
          <6> QED
            BY <3>4, <5>2, <6>1, <6>3 DEF Released
        <5>4. CASE ~RecordCommit(w, d)
          <6>1. UNCHANGED <<leaseToken, leaseLeft>>
            BY <3>10, <5>4 DEF TaskStep, LoadData, StartSend, SkipSend, SendOk,
                 SendError, TaskFail, RecordLock, RecordGone, RecordVerify,
                 RecordDiscard
          <6> QED
            BY <3>4, <5>2, <6>1
        <5> QED
          BY <5>3, <5>4
      <4> QED
        BY <4>1, <4>2
    <3>11. ASSUME NEW d \in Delivery, DeleteRow(d) PROVE Kept
      <4>1. d # i
        BY <3>11 DEF DeleteRow
      <4> QED
        BY <3>4, <3>11, <4>1 DEF DeleteRow
    <3>12. CASE Tick
      <4>1. /\ claim' = claim /\ leaseToken' = leaseToken
            /\ leaseLeft'[i] = Later(leaseLeft[i], 0)
            /\ timer'[r][i] = Later(timer[r][i], 0)
            /\ timer[r][i] > 0
        BY <3>1, <3>12 DEF Tick
      <4> QED
        BY <3>3, <4>1 DEF Later
    <3>13. ASSUME NEW w \in Worker, Restart(w) PROVE Kept
      BY <3>4, <3>13 DEF Restart
    <3>14. CASE UNCHANGED vars
      BY <3>4, <3>14 DEF vars
    <3> QED
      BY <3>8, <3>9, <3>10, <3>11, <3>12, <3>13, <3>14 DEF Next
  <2> QED
    BY <2>1, <2>2
<1> QED
  BY <1>1, <1>2, TypeCorrect, Fencing, LeasesOutliveTasks, PTL DEF Spec

(* A step delivers a message well, or counts as lost what it may have delivered
   and what it forgets, or delivers nothing and forgets no success. *)
LEMMA ReceiptsAreKept ==
  ASSUME TypeOK, FencingInv, [Next]_vars, NEW i \in Delivery
  PROVE  /\ lost[i] => lost'[i]
         /\ \/ lost'[i]
            \/ \E w \in Worker : SendOk(w, i)
            \/ /\ received'[i] = received[i]
               /\ done[i] => done'[i]
               /\ \A w \in Worker : outcome[w][i] = "ok" =>
                    outcome'[w][i] = "ok" \/ done'[i]
<1> DEFINE OutcomesStay == \A w \in Worker : outcome[w][i] = "ok" =>
                             outcome'[w][i] = "ok" \/ done'[i]
           DoneStays == done[i] => done'[i]
<1> USE DEF TypeOK, Tasks, Phases, Outcomes, rows, tasks, aux
<1>1. ASSUME NEW w \in Worker, NEW ds \in SUBSET Delivery, Abandon(w, ds)
      PROVE  /\ lost[i] => lost'[i]
             /\ lost'[i] \/ received'[i] = received[i]
             /\ i \in ds /\ outcome[w][i] = "ok" => lost'[i]
  <2>1. PICK q \in SUBSET {d \in ds : task[w][d] = "sending"} :
          /\ received' = [d \in Delivery |->
               IF d \in q THEN OneMore(received[d]) ELSE received[d]]
          /\ lost' = [d \in Delivery |->
               lost[d] \/ d \in q \/ (d \in ds /\ outcome[w][d] = "ok")]
    BY <1>1, Zenon DEF Abandon
  <2> QED
    BY <2>1
<1>2. ASSUME NEW w \in Worker, Forget(w),
             phase[w] \notin {"wave"} PROVE OutcomesStay
  <2>1. outcome[w][i] # "ok"
    BY <1>2 DEF FencingInv, TasksFitClaims
  <2> QED
    BY <1>2, <2>1 DEF Forget
<1>3. ASSUME NEW w \in Worker, Abandon(w, Wave(w)), ~lost'[i],
             outcome' = [outcome EXCEPT ![w] = [d \in Delivery |-> "none"]]
      PROVE  received'[i] = received[i] /\ OutcomesStay
  <2>1. outcome[w][i] = "ok" => i \in Wave(w)
    BY DEF Wave, FencingInv, TasksFitClaims
  <2>2. Wave(w) \in SUBSET Delivery
    BY DEF Wave
  <2>3. outcome[w][i] # "ok" /\ received'[i] = received[i]
    BY <1>1, <1>3, <2>1, <2>2
  <2> QED
    BY <1>3, <2>3
<1>4. ASSUME NEW w \in Worker, NEW d \in Delivery, NEW x, Abandon(w, {d}),
             ~lost'[i], outcome' = [outcome EXCEPT ![w][d] = x]
      PROVE  received'[i] = received[i] /\ OutcomesStay
  <2>1. received'[i] = received[i] /\ (i = d => outcome[w][i] # "ok")
    BY <1>1, <1>4
  <2> QED
    BY <1>4, <2>1
<1>5. ASSUME NEW w \in Worker, CycleStep(w) \/ Restart(w)
      PROVE  UNCHANGED <<received, lost, done>> /\ OutcomesStay
  <2>1. UNCHANGED <<received, lost, done>>
    BY <1>5 DEF CycleStep, Restart, Poll, FanOut, ClaimSelect, EndCycle,
         ClaimCommit, WaveDone, Release, AfterRelease, ClaimsReachRows
  <2>2. CASE Release(w)
    BY <1>2, <2>2 DEF Release, AfterRelease
  <2>3. CASE UNCHANGED outcome
    BY <2>1, <2>3
  <2> QED
    BY <1>5, <2>1, <2>2, <2>3
       DEF CycleStep, Restart, Poll, FanOut, ClaimSelect, EndCycle,
           ClaimCommit, WaveDone
<1>6. ASSUME NEW w \in Worker, FaultStep(w)
      PROVE  /\ done' = done /\ (lost[i] => lost'[i])
             /\ lost'[i] \/ (received'[i] = received[i] /\ OutcomesStay)
  <2>1. done' = done
    BY <1>6 DEF FaultStep, FanOutFail, ClaimFail, ReleaseFail, Cancel, Crash,
         ClaimsReachRows, Rollback
  <2>2. CASE /\ Abandon(w, Wave(w))
             /\ outcome' = [outcome EXCEPT ![w] = [d \in Delivery |-> "none"]]
    <3>1. Wave(w) \in SUBSET Delivery
      BY DEF Wave
    <3> QED
      BY <1>1, <1>3, <2>1, <2>2, <3>1
  <2>3. CASE UNCHANGED aux /\ Forget(w) /\ phase[w] \notin {"wave"}
    BY <1>2, <2>1, <2>3
  <2>4. CASE FanOutFail(w)
    BY <2>4 DEF FanOutFail
  <2>5. CASE ClaimFail(w) \/ ReleaseFail(w)
    BY <2>3, <2>5 DEF ClaimFail, ReleaseFail, AfterRelease
  <2>6. CASE Crash(w)
    BY <2>2, <2>6 DEF Crash, Forget
  <2>7. CASE Cancel(w)
    BY <2>2, <2>3, <2>7 DEF Cancel
  <2> QED
    BY <1>6, <2>4, <2>5, <2>6, <2>7 DEF FaultStep
<1>7. ASSUME NEW w \in Worker, NEW d \in Delivery, TaskStep(w, d)
      PROVE  /\ lost[i] => lost'[i]
             /\ \/ lost'[i] \/ SendOk(w, i)
                \/ received'[i] = received[i] /\ DoneStays /\ OutcomesStay
  <2>1. CASE SendOk(w, d)
    <3>1. /\ received' = [received EXCEPT ![d] = OneMore(@)]
          /\ outcome' = [outcome EXCEPT ![w][d] = "ok"]
          /\ UNCHANGED <<lost, done>>
      BY <2>1 DEF SendOk
    <3> QED
      BY <2>1, <3>1
  <2>2. CASE \/ SendError(w, d) \/ TaskFail(w, d) \/ RecordGone(w, d)
             \/ RecordDiscard(w, d)
    <3>1. /\ Abandon(w, {d}) /\ done' = done
          /\ \E x : outcome' = [outcome EXCEPT ![w][d] = x]
      BY <2>2 DEF SendError, TaskFail, RecordGone, RecordDiscard, TaskEnds
    <3>2. {d} \in SUBSET Delivery
      OBVIOUS
    <3> QED
      BY <1>1, <1>4, <3>1, <3>2
  <2>3. CASE RecordCommit(w, d)
    <3>1. /\ UNCHANGED <<received, lost>>
          /\ outcome' = [outcome EXCEPT ![w][d] = "none"]
          /\ outcome[w][d] = "ok" => done' = [done EXCEPT ![d] = TRUE]
          /\ outcome[w][d] # "ok" => done' = done
      BY <2>3 DEF RecordCommit, TaskEnds
    <3>2. DoneStays
      BY <3>1
    <3>3. OutcomesStay
      BY <3>1
    <3> QED
      BY <3>1, <3>2, <3>3
  <2> QED
    BY <1>7, <2>1, <2>2, <2>3
       DEF TaskStep, LoadData, StartSend, SkipSend, RecordLock, RecordVerify
<1>8. CASE (\E d \in Delivery : DeleteRow(d)) \/ Tick \/ UNCHANGED vars
  BY <1>8 DEF DeleteRow, Tick, vars
<1> QED
  BY <1>5, <1>6, <1>7, <1>8 DEF Next

Pending(d) == \E w \in Worker : outcome[w][d] = "ok"
Sending(d) == \E w \in Worker : task[w][d] = "sending"

(* What a recipient has got is recorded, about to be recorded or lost, and it
   is not sent again before it is lost. *)
ReceiptsAreKnown ==
  Prompt => \A d \in Delivery :
    /\ received[d] > 0 => done[d] \/ lost[d] \/ Pending(d)
    /\ Sending(d) => ~done[d] /\ ~Pending(d)

(* Nothing is sent of a delivery that succeeded or is about to. *)
LEMMA NothingIsSentTwice ==
  ASSUME TypeOK, FencingInv, SendsDoNotOverlap, SuccessKeepsLease,
         ReceiptsAreKnown, [Next]_vars, Prompt,
         NEW i \in Delivery, NEW w \in Worker, task'[w][i] = "sending"
  PROVE  ~done'[i] /\ \A v \in Worker : outcome'[v][i] # "ok"
<1> USE DEF TypeOK, tasks
<1>1. CASE task[w][i] = "sending"
  <2>1. ~done[i] /\ \A v \in Worker : outcome[v][i] # "ok"
    BY <1>1 DEF ReceiptsAreKnown, Sending, Pending
  <2>2. ~done'[i]
    BY <2>1, DoneIsRecorded
  <2>3. ASSUME NEW v \in Worker, outcome'[v][i] = "ok" PROVE FALSE
    <3>1. SendOk(v, i)
      BY <2>1, <2>3, GoodOutcomesAreSent
    <3>2. task[v][i] = "sending" /\ task'[v][i] = "recording"
      BY <3>1 DEF SendOk, TaskGoes
    <3>3. v = w
      BY <1>1, <3>2 DEF SendsDoNotOverlap
    <3> QED
      BY <3>2, <3>3
  <2> QED
    BY <2>2, <2>3
<1>2. CASE task[w][i] # "sending"
  <2>1. StartSend(w, i)
    BY <1>2, SendsStartWithLease
  <2>2. /\ task[w][i] = "checking" /\ row[i] = "live" /\ ~done[i]
        /\ leaseToken[i] = claim[w][i]
        /\ UNCHANGED <<done, outcome>>
    BY <2>1 DEF StartSend, Owns, rows
  <2>3. ASSUME NEW v \in Worker, outcome[v][i] = "ok" PROVE FALSE
    <3>1. leaseToken[i] = claim[v][i]
      BY <2>2, <2>3 DEF SuccessKeepsLease
    <3>2. claim[w][i] # NoToken /\ TokensAreUnique
      BY <2>2 DEF FencingInv, TasksFitClaims
    <3>3. v = w
      BY <2>2, <3>1, <3>2, Zenon DEF TokensAreUnique
    <3> QED
      BY <2>2, <2>3, <3>3 DEF FencingInv, TasksFitClaims
  <2> QED
    BY <2>2, <2>3
<1> QED
  BY <1>1, <1>2

(* As long as timeouts fire when they are due, whoever gets a message twice got
   one before whose success was lost. *)
THEOREM DuplicatesHaveReasons == Spec => []DuplicatesAreExplained
<1> USE LimitsAssumption
<1>1. Init => ReceiptsAreKnown /\ DuplicatesAreExplained
  BY DEF Init, ReceiptsAreKnown, DuplicatesAreExplained, Pending, Sending
<1>2. TypeOK /\ FencingInv /\ SendsDoNotOverlap /\ SuccessKeepsLease
        /\ ReceiptsAreKnown /\ DuplicatesAreExplained /\ [Next]_vars
        => ReceiptsAreKnown' /\ DuplicatesAreExplained'
  <2> SUFFICES ASSUME TypeOK, FencingInv, SendsDoNotOverlap, SuccessKeepsLease,
                      ReceiptsAreKnown, DuplicatesAreExplained, [Next]_vars,
                      Prompt, NEW i \in Delivery
               PROVE  /\ received'[i] > 0 => done'[i] \/ lost'[i] \/ Pending(i)'
                      /\ Sending(i)' => ~done'[i] /\ ~Pending(i)'
                      /\ received'[i] > 1 => lost'[i]
    BY DEF ReceiptsAreKnown, DuplicatesAreExplained
  <2>1. Sending(i)' => ~done'[i] /\ ~Pending(i)'
    BY NothingIsSentTwice DEF Sending, Pending
  <2>2. CASE lost'[i]
    BY <2>1, <2>2
  <2>3. ASSUME NEW w \in Worker, SendOk(w, i), ~lost'[i]
        PROVE  /\ received'[i] > 0 => done'[i] \/ lost'[i] \/ Pending(i)'
               /\ received'[i] > 1 => lost'[i]
    <3>1. /\ task[w][i] = "sending" /\ outcome'[w][i] = "ok"
          /\ received'[i] = OneMore(received[i])
      BY <2>3 DEF SendOk, TypeOK
    <3>2. ~done[i] /\ ~Pending(i) /\ ~lost[i]
      BY <2>3, <3>1, ReceiptsAreKept DEF ReceiptsAreKnown, Sending
    <3>3. received[i] = 0
      BY <3>2 DEF ReceiptsAreKnown, TypeOK
    <3> QED
      BY <3>1, <3>3 DEF OneMore, Lower, Pending
  <2>4. CASE /\ received'[i] = received[i] /\ ~lost'[i]
             /\ done[i] => done'[i]
             /\ \A w \in Worker : outcome[w][i] = "ok" =>
                  outcome'[w][i] = "ok" \/ done'[i]
    <3>1. ~lost[i]
      BY <2>4, ReceiptsAreKept
    <3> QED
      BY <2>1, <2>4, <3>1 DEF ReceiptsAreKnown, DuplicatesAreExplained, Pending
  <2> QED
    BY <2>1, <2>2, <2>3, <2>4, ReceiptsAreKept
<1> QED
  BY <1>1, <1>2, TypeCorrect, Fencing, NoSendsOverlap, SuccessesKeepLeases,
     PTL DEF Spec

(* The inductive invariant of the notification worker holds for any number of
   workers, deliveries and tokens and any limits. *)
THEOREM DeliveriesHold == Spec => []DeliveryInv
BY TypeCorrect, Fencing, SuccessesWereReceived, PTL DEF DeliveryInv

=============================================================================
