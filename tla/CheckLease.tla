----------------------------- MODULE CheckLease -----------------------------
(***************************************************************************)
(* Scheduler processes that share the monitors table.  Each one claims due *)
(* monitors in waves with a lease in the monitor's row (claim_due), probes *)
(* them outside any transaction, records each result in a transaction that *)
(* locks the row and checks the lease (record), and releases what is left  *)
(* of its claims.  API transactions lock, change and delete the same rows; *)
(* a process may crash, be told to stop, or lose the answer to a COMMIT.   *)
(*                                                                         *)
(* Time is counted down rather than up: leaseLeft is check_lease_until     *)
(* minus the database clock and dueIn is next_check_at minus that clock,   *)
(* so the state space is finite although time goes on for ever.            *)
(***************************************************************************)
EXTENDS Integers, FiniteSets

CONSTANTS
  Scheduler,    \* scheduler processes
  Monitor,      \* monitor ids
  Token,        \* lease tokens; uuid4 never repeats, see Fresh
  NoToken,      \* NULL
  Api,          \* the owner of a row lock taken by an API transaction
  NoOne,        \* the owner of a row lock nobody holds
  Paused,       \* the monitors whose status is PAUSED
  Timeouts,     \* values of a monitor's timeout_seconds, which edits change
  Grace,        \* lease_grace_seconds
  Interval,     \* interval_seconds
  Skew,         \* app clock (checked_at) against database clock, at most
  MaxLate,      \* bound: a monitor later than this counts as this late
  BatchSize,    \* batch_size
  Concurrency,  \* concurrency
  Prompt,       \* TRUE: asyncio.timeout fires when it is due
  ApiWrites     \* which API transactions happen: "edit", "manual", "delete"

ASSUME SchedulerAssumption ==
  /\ IsFiniteSet(Scheduler) /\ IsFiniteSet(Monitor)
  /\ Api \notin Scheduler /\ NoOne \notin Scheduler \cup {Api}
ASSUME TokenAssumption == NoToken \notin Token
ASSUME LimitsAssumption ==
  /\ Timeouts \subseteq Nat \ {0}
  /\ {Grace, Interval, BatchSize, Concurrency} \subseteq Nat \ {0}
  /\ Skew \in Nat /\ MaxLate \in Nat
  /\ Prompt \in BOOLEAN
  /\ ApiWrites \subseteq {"edit", "manual", "delete"}

VARIABLES
  row,         \* is the monitor's row there: "unborn", "live", "deleted"
  dueIn,       \* next_check_at - clock
  leaseToken,  \* check_lease_token
  leaseLeft,   \* check_lease_until - clock, 0 when past or NULL
  rowLock,     \* whose transaction holds the row's FOR UPDATE lock
  phase,       \* where run_forever stands in each process
  attempted,   \* the attempted set of run_once
  claim,       \* the tokens of the wave in memory
  claimAge,    \* time since claim_due read the clock
  task,        \* where each _check_monitor task stands
  probeLeft,   \* what is left of the claimed timeout_seconds
  recordedBy   \* auxiliary: the claim whose result ended the last lease

rows  == <<row, dueIn, leaseToken, leaseLeft, rowLock>>
procs == <<phase, attempted, claim, claimAge, task, probeLeft>>
vars  == <<row, dueIn, leaseToken, leaseLeft, rowLock,
           phase, attempted, claim, claimAge, task, probeLeft, recordedBy>>

Phases == {"idle", "polling", "claiming", "wave", "releasing", "stopping",
           "stopped"}
Tasks  == {"none", "probing", "probed", "locked", "verified", "done"}

Tokens == Token \cup {NoToken}
Lower(a, b) == IF a < b THEN a ELSE b

(* One unit of time later, for a countdown that stops at low. *)
Later(n, low) == IF n > low THEN n - 1 ELSE low

(* next_check_at = checked_at + interval_seconds, checked_at being read from
   the application's clock and compared with the database's. *)
NextDue == {Interval + k : k \in (-Skew) .. Skew}

TypeOK ==
  /\ row \in [Monitor -> {"unborn", "live", "deleted"}]
  /\ dueIn \in [Monitor -> Int]
  /\ leaseToken \in [Monitor -> Tokens]
  /\ leaseLeft \in [Monitor -> Nat]
  /\ rowLock \in [Monitor -> Scheduler \cup {Api, NoOne}]
  /\ phase \in [Scheduler -> Phases]
  /\ attempted \in [Scheduler -> SUBSET Monitor]
  /\ claim \in [Scheduler -> [Monitor -> Tokens]]
  /\ claimAge \in [Scheduler -> 0 .. Grace]
  /\ task \in [Scheduler -> [Monitor -> Tasks]]
  /\ probeLeft \in [Scheduler -> [Monitor -> Nat]]
  /\ recordedBy \in [Monitor -> Tokens]

Init ==
  /\ row = [m \in Monitor |-> "unborn"]
  /\ dueIn = [m \in Monitor |-> 0]
  /\ leaseToken = [m \in Monitor |-> NoToken]
  /\ leaseLeft = [m \in Monitor |-> 0]
  /\ rowLock = [m \in Monitor |-> NoOne]
  /\ phase = [s \in Scheduler |-> "idle"]
  /\ attempted = [s \in Scheduler |-> {}]
  /\ claim = [s \in Scheduler |-> [m \in Monitor |-> NoToken]]
  /\ claimAge = [s \in Scheduler |-> 0]
  /\ task = [s \in Scheduler |-> [m \in Monitor |-> "none"]]
  /\ probeLeft = [s \in Scheduler |-> [m \in Monitor |-> 0]]
  /\ recordedBy = [m \in Monitor |-> NoToken]

-----------------------------------------------------------------------------
(* The claim transaction. *)

Wave(s) == {m \in Monitor : claim[s][m] # NoToken}

(* uuid4 is new against every token that a row or a process still knows. *)
Fresh(m) == Token \ ({leaseToken[m]} \cup {claim[s][m] : s \in Scheduler})

(* Mutants of Eligible: exclude_ids dropped; an expired lease still blocks. *)
Eligible_NoExclusion(s) ==
  {m \in Monitor : /\ row[m] = "live" /\ m \notin Paused /\ rowLock[m] = NoOne
                   /\ dueIn[m] <= 0 /\ leaseLeft[m] = 0}

Eligible_NoExpiry(s) ==
  {m \in Monitor : /\ row[m] = "live" /\ m \notin Paused /\ rowLock[m] = NoOne
                   /\ dueIn[m] <= 0 /\ leaseToken[m] = NoToken
                   /\ m \notin attempted[s]}

(* The rows that claim_due's SELECT ... FOR UPDATE SKIP LOCKED can return. *)
Eligible(s) ==
  {m \in Monitor : /\ row[m] = "live"
                   /\ dueIn[m] <= 0
                   /\ m \notin Paused
                   /\ leaseLeft[m] = 0
                   /\ m \notin attempted[s]
                   /\ rowLock[m] = NoOne}

Limit(s) == Lower(Concurrency, BatchSize - Cardinality(attempted[s]))

(* ORDER BY next_check_at LIMIT: none that is left out is due earlier. *)
FirstDue(s) ==
  {w \in SUBSET Eligible(s) :
     /\ Cardinality(w) = Lower(Limit(s), Cardinality(Eligible(s)))
     /\ \A a \in w, b \in Eligible(s) \ w : dueIn[a] <= dueIn[b]}

(* Mutant of LeaseTime: the lease lasts for timeout_seconds only. *)
LeaseTime_NoGrace(s, m) == probeLeft[s][m] - claimAge[s]

(* check_lease_until - clock of a claim whose clock was read claimAge ago. *)
LeaseTime(s, m) == probeLeft[s][m] + Grace - claimAge[s]

(* The rows as a claim transaction's COMMIT leaves them. *)
ClaimsReachRows(s) ==
  /\ leaseToken' = [m \in Monitor |->
       IF m \in Wave(s) THEN claim[s][m] ELSE leaseToken[m]]
  /\ leaseLeft' = [m \in Monitor |->
       IF m \in Wave(s) THEN LeaseTime(s, m) ELSE leaseLeft[m]]
  /\ recordedBy' = [m \in Monitor |->
       IF m \in Wave(s) THEN NoToken ELSE recordedBy[m]]
  /\ rowLock' = [m \in Monitor |-> IF rowLock[m] = s THEN NoOne ELSE rowLock[m]]
  /\ UNCHANGED <<row, dueIn>>

(* The memory of a process whose claims are over. *)
Forget(s) ==
  /\ claim' = [claim EXCEPT ![s] = [m \in Monitor |-> NoToken]]
  /\ claimAge' = [claimAge EXCEPT ![s] = 0]
  /\ task' = [task EXCEPT ![s] = [m \in Monitor |-> "none"]]
  /\ probeLeft' = [probeLeft EXCEPT ![s] = [m \in Monitor |-> 0]]

(* run_once ends, and its set of attempted monitors with it. *)
CycleOver(s) == attempted' = [attempted EXCEPT ![s] = {}]

(* A connection that ends rolls back: its row locks go, its writes with it. *)
Rollback(s) ==
  /\ rowLock' = [m \in Monitor |-> IF rowLock[m] = s THEN NoOne ELSE rowLock[m]]
  /\ UNCHANGED <<row, dueIn, leaseToken, leaseLeft, recordedBy>>

(* run_forever enters run_once. *)
Poll(s) ==
  /\ phase[s] = "idle"
  /\ phase' = [phase EXCEPT ![s] = "polling"]
  /\ UNCHANGED <<rows, attempted, claim, claimAge, task, probeLeft, recordedBy>>

(* claim_due locks the first due rows, then reads the clock and writes each
   row's token and expiry; nobody else sees them before the COMMIT. *)
ClaimSelect(s) ==
  /\ phase[s] = "polling"
  /\ Cardinality(attempted[s]) < BatchSize
  /\ Eligible(s) # {}
  /\ \E w \in FirstDue(s) :
       /\ \E tok \in [w -> Token], t \in [w -> Timeouts] :
            /\ \A m \in w : tok[m] \in Fresh(m)
            /\ claim' = [claim EXCEPT ![s] = [m \in Monitor |->
                           IF m \in w THEN tok[m] ELSE NoToken]]
            /\ probeLeft' = [probeLeft EXCEPT ![s] = [m \in Monitor |->
                               IF m \in w THEN t[m] ELSE 0]]
       /\ rowLock' = [m \in Monitor |-> IF m \in w THEN s ELSE rowLock[m]]
  /\ claimAge' = [claimAge EXCEPT ![s] = 0]
  /\ phase' = [phase EXCEPT ![s] = "claiming"]
  /\ UNCHANGED <<row, dueIn, leaseToken, leaseLeft, attempted, task,
                 recordedBy>>

(* Nothing to claim, or the batch is full: run_once returns. *)
EndCycle(s) ==
  /\ phase[s] = "polling"
  /\ Cardinality(attempted[s]) < BatchSize => Eligible(s) = {}
  /\ phase' = [phase EXCEPT ![s] = "idle"]
  /\ CycleOver(s)
  /\ UNCHANGED <<rows, claim, claimAge, task, probeLeft, recordedBy>>

(* The COMMIT is acknowledged inside asyncio.timeout(lease_grace_seconds), a
   scope entered before the clock was read, and the wave's tasks start. *)
ClaimCommit(s) ==
  /\ phase[s] = "claiming"
  /\ claimAge[s] < Grace
  /\ ClaimsReachRows(s)
  /\ attempted' = [attempted EXCEPT ![s] = @ \cup Wave(s)]
  /\ task' = [task EXCEPT ![s] = [m \in Monitor |->
                IF m \in Wave(s) THEN "probing" ELSE "none"]]
  /\ claimAge' = [claimAge EXCEPT ![s] = 0]
  /\ phase' = [phase EXCEPT ![s] = "wave"]
  /\ UNCHANGED <<claim, probeLeft>>

(* An error or the timeout ends the claim transaction: run_forever logs it and
   sleeps.  The COMMIT may have reached the database all the same. *)
ClaimFail(s) ==
  /\ phase[s] = "claiming"
  /\ ClaimsReachRows(s) \/ Rollback(s)
  /\ Forget(s) /\ CycleOver(s)
  /\ phase' = [phase EXCEPT ![s] = "idle"]

-----------------------------------------------------------------------------
(* The tasks of a wave. *)

(* The task of s for m ends; a row lock of its transaction goes with it. *)
TaskEnds(s, m) ==
  /\ task' = [task EXCEPT ![s][m] = "done"]
  /\ rowLock' = [rowLock EXCEPT ![m] = IF @ = s THEN NoOne ELSE @]

(* release_check_lease: the row's lease is cleared if it still is tok. *)
Released(m, tok) ==
  /\ leaseToken' = [leaseToken EXCEPT ![m] = IF @ = tok THEN NoToken ELSE @]
  /\ leaseLeft' = [leaseLeft EXCEPT ![m] =
                     IF leaseToken[m] = tok THEN 0 ELSE @]

(* The probe answers, or asyncio.timeout turns it into a failed result. *)
ProbeEnd(s, m) ==
  /\ task[s][m] = "probing"
  /\ task' = [task EXCEPT ![s][m] = "probed"]
  /\ probeLeft' = [probeLeft EXCEPT ![s][m] = 0]
  /\ UNCHANGED <<rows, phase, attempted, claim, claimAge, recordedBy>>

(* The probe raises something else, or the record transaction fails or exceeds
   its timeout: _check_monitor logs it, and the row is as it was. *)
TaskFail(s, m) ==
  /\ task[s][m] \in {"probing", "probed", "locked", "verified"}
  /\ TaskEnds(s, m)
  /\ probeLeft' = [probeLeft EXCEPT ![s][m] = 0]
  /\ UNCHANGED <<row, dueIn, leaseToken, leaseLeft,
                 phase, attempted, claim, claimAge, recordedBy>>

(* Mutant of RecordLock: the row is read without FOR UPDATE. *)
RecordLock_PlainRead(s, m) ==
  /\ task[s][m] = "probed" /\ row[m] = "live"
  /\ task' = [task EXCEPT ![s][m] = "locked"]
  /\ UNCHANGED <<rows, phase, attempted, claim, claimAge, probeLeft, recordedBy>>

(* get_by_id_for_update gets the row's lock ... *)
RecordLock(s, m) ==
  /\ task[s][m] = "probed"
  /\ row[m] = "live"
  /\ rowLock[m] = NoOne
  /\ rowLock' = [rowLock EXCEPT ![m] = s]
  /\ task' = [task EXCEPT ![s][m] = "locked"]
  /\ UNCHANGED <<row, dueIn, leaseToken, leaseLeft,
                 phase, attempted, claim, claimAge, probeLeft, recordedBy>>

(* ... or finds no row: the result is discarded. *)
RecordGone(s, m) ==
  /\ task[s][m] = "probed"
  /\ row[m] # "live"
  /\ task' = [task EXCEPT ![s][m] = "done"]
  /\ UNCHANGED <<rows, phase, attempted, claim, claimAge, probeLeft, recordedBy>>

(* Mutant of LeaseHolds: any unexpired lease will do. *)
LeaseHolds_AnyToken(s, m) == leaseToken[m] # NoToken /\ leaseLeft[m] > 0

(* With the lock held, it reads the clock and compares the row's lease. *)
LeaseHolds(s, m) == leaseToken[m] = claim[s][m] /\ leaseLeft[m] > 0

RecordVerify(s, m) ==
  /\ task[s][m] = "locked"
  /\ LeaseHolds(s, m)
  /\ task' = [task EXCEPT ![s][m] = "verified"]
  /\ UNCHANGED <<rows, phase, attempted, claim, claimAge, probeLeft, recordedBy>>

RecordDiscard(s, m) ==
  /\ task[s][m] = "locked"
  /\ ~LeaseHolds(s, m)
  /\ TaskEnds(s, m)
  /\ UNCHANGED <<row, dueIn, leaseToken, leaseLeft,
                 phase, attempted, claim, claimAge, probeLeft, recordedBy>>

(* record commits: the check is stored, the monitor rescheduled and the lease
   released, all at once. *)
RecordCommit(s, m) ==
  /\ task[s][m] = "verified"
  /\ \E due \in NextDue : dueIn' = [dueIn EXCEPT ![m] = due]
  /\ Released(m, claim[s][m])
  /\ recordedBy' = [recordedBy EXCEPT ![m] = claim[s][m]]
  /\ TaskEnds(s, m)
  /\ UNCHANGED <<row, phase, attempted, claim, claimAge, probeLeft>>

(* The TaskGroup has awaited every task; the finally clause is next. *)
WaveDone(s) ==
  /\ phase[s] = "wave"
  /\ \A m \in Wave(s) : task[s][m] = "done"
  /\ phase' = [phase EXCEPT ![s] = "releasing"]
  /\ UNCHANGED <<rows, attempted, claim, claimAge, task, probeLeft, recordedBy>>

(* After _release_claims the next wave starts, or the process ends if it was
   cancelled. *)
AfterRelease(s) ==
  /\ Forget(s)
  /\ phase' = [phase EXCEPT ![s] =
                 IF @ = "stopping" THEN "stopped" ELSE "polling"]
  /\ IF phase[s] = "stopping" THEN CycleOver(s) ELSE UNCHANGED attempted

(* Mutant of Release: leases are released by monitor id alone. *)
Release_ById(s) ==
  /\ phase[s] \in {"releasing", "stopping"}
  /\ \A m \in Wave(s) : rowLock[m] = NoOne
  /\ leaseToken' = [m \in Monitor |->
       IF m \in Wave(s) THEN NoToken ELSE leaseToken[m]]
  /\ leaseLeft' = [m \in Monitor |-> IF m \in Wave(s) THEN 0 ELSE leaseLeft[m]]
  /\ AfterRelease(s)
  /\ UNCHANGED <<row, dueIn, rowLock, recordedBy>>

(* _release_claims clears the leases that still are its own; its UPDATEs wait
   for the row locks of others.  This is the bulk form of Released. *)
Release(s) ==
  /\ phase[s] \in {"releasing", "stopping"}
  /\ \A m \in Wave(s) : leaseToken[m] = claim[s][m] => rowLock[m] = NoOne
  /\ leaseToken' = [m \in Monitor |->
       IF m \in Wave(s) /\ leaseToken[m] = claim[s][m]
         THEN NoToken ELSE leaseToken[m]]
  /\ leaseLeft' = [m \in Monitor |->
       IF m \in Wave(s) /\ leaseToken[m] = claim[s][m] THEN 0 ELSE leaseLeft[m]]
  /\ AfterRelease(s)
  /\ UNCHANGED <<row, dueIn, rowLock, recordedBy>>

(* It fails or exceeds cleanup_timeout_seconds: the leases await expiry. *)
ReleaseFail(s) ==
  /\ phase[s] \in {"releasing", "stopping"}
  /\ AfterRelease(s)
  /\ UNCHANGED <<rows, recordedBy>>

-----------------------------------------------------------------------------
(* The life of a process. *)

(* SIGTERM cancels the main task, once.  A wave's tasks are cancelled and its
   claims released; anywhere else the process ends, and a transaction that was
   open rolls back unless its COMMIT was on the way. *)
Cancel(s) ==
  \/ /\ phase[s] = "wave"
     /\ phase' = [phase EXCEPT ![s] = "stopping"]
     /\ task' = [task EXCEPT ![s] = [m \in Monitor |->
                   IF m \in Wave(s) THEN "done" ELSE "none"]]
     /\ probeLeft' = [probeLeft EXCEPT ![s] = [m \in Monitor |-> 0]]
     /\ Rollback(s)
     /\ UNCHANGED <<attempted, claim, claimAge>>
  \/ /\ phase[s] \in {"idle", "polling", "claiming", "releasing"}
     /\ phase' = [phase EXCEPT ![s] = "stopped"]
     /\ Rollback(s) \/ (phase[s] = "claiming" /\ ClaimsReachRows(s))
     /\ Forget(s) /\ CycleOver(s)

(* The process is killed: the database rolls back its transactions. *)
Crash(s) ==
  /\ phase[s] # "stopped"
  /\ phase' = [phase EXCEPT ![s] = "stopped"]
  /\ Rollback(s)
  /\ Forget(s) /\ CycleOver(s)

(* A new process starts with an empty memory. *)
Restart(s) ==
  /\ phase[s] = "stopped"
  /\ phase' = [phase EXCEPT ![s] = "idle"]
  /\ UNCHANGED <<rows, attempted, claim, claimAge, task, probeLeft, recordedBy>>

-----------------------------------------------------------------------------
(* Everybody else. *)

(* MonitorService.create inserts a row that is due at once. *)
ApiCreate(m) ==
  /\ row[m] = "unborn"
  /\ row' = [row EXCEPT ![m] = "live"]
  /\ dueIn' = [dueIn EXCEPT ![m] = 0]
  /\ UNCHANGED <<leaseToken, leaseLeft, rowLock, procs, recordedBy>>

(* An update, a manual check or a deletion locks the row ... *)
ApiLock(m) ==
  /\ ApiWrites # {}
  /\ row[m] = "live"
  /\ rowLock[m] = NoOne
  /\ rowLock' = [rowLock EXCEPT ![m] = Api]
  /\ UNCHANGED <<row, dueIn, leaseToken, leaseLeft, procs, recordedBy>>

ApiUnlock(m) ==
  /\ rowLock[m] = Api
  /\ rowLock' = [rowLock EXCEPT ![m] = NoOne]
  /\ UNCHANGED <<procs, recordedBy>>

(* ... and commits an update, which writes neither next_check_at nor the lease
   (so does one that fails) ... *)
ApiEdit(m) ==
  /\ "edit" \in ApiWrites
  /\ ApiUnlock(m)
  /\ UNCHANGED <<row, dueIn, leaseToken, leaseLeft>>

(* ... or the record of a manual check, which reschedules without a lease ... *)
ApiManual(m) ==
  /\ "manual" \in ApiWrites
  /\ ApiUnlock(m)
  /\ \E due \in NextDue : dueIn' = [dueIn EXCEPT ![m] = due]
  /\ UNCHANGED <<row, leaseToken, leaseLeft>>

(* ... or the deletion of the row, lease and all. *)
ApiDelete(m) ==
  /\ "delete" \in ApiWrites
  /\ ApiUnlock(m)
  /\ row' = [row EXCEPT ![m] = "deleted"]
  /\ dueIn' = [dueIn EXCEPT ![m] = 0]
  /\ leaseToken' = [leaseToken EXCEPT ![m] = NoToken]
  /\ leaseLeft' = [leaseLeft EXCEPT ![m] = 0]

(* Time goes on.  A prompt process handles a timeout before it is overdue; one
   that is suspended, or whose event loop is busy, does not. *)
Tick ==
  /\ Prompt => \A s \in Scheduler :
       /\ phase[s] = "claiming" => claimAge[s] < Grace
       /\ \A m \in Monitor : task[s][m] = "probing" => probeLeft[s][m] > 0
  /\ dueIn' = [m \in Monitor |->
       IF row[m] = "live" THEN Later(dueIn[m], -MaxLate) ELSE dueIn[m]]
  /\ leaseLeft' = [m \in Monitor |-> Later(leaseLeft[m], 0)]
  /\ claimAge' = [s \in Scheduler |->
       IF phase[s] = "claiming" THEN Lower(claimAge[s] + 1, Grace) ELSE 0]
  /\ probeLeft' = [s \in Scheduler |-> [m \in Monitor |->
       IF task[s][m] = "probing" THEN Later(probeLeft[s][m], 0)
                                 ELSE probeLeft[s][m]]]
  /\ UNCHANGED <<row, leaseToken, rowLock, phase, attempted, claim, task,
                 recordedBy>>

TaskStep(s, m) ==
  \/ ProbeEnd(s, m) \/ TaskFail(s, m)
  \/ RecordLock(s, m) \/ RecordGone(s, m)
  \/ RecordVerify(s, m) \/ RecordDiscard(s, m) \/ RecordCommit(s, m)

(* run_once and what it awaits, without its failures. *)
CycleStep(s) ==
  \/ Poll(s) \/ ClaimSelect(s) \/ EndCycle(s) \/ ClaimCommit(s)
  \/ WaveDone(s) \/ Release(s)

FaultStep(s) == ClaimFail(s) \/ ReleaseFail(s) \/ Cancel(s) \/ Crash(s)

ApiStep(m) ==
  \/ ApiCreate(m) \/ ApiLock(m)
  \/ ApiEdit(m) \/ ApiManual(m) \/ ApiDelete(m)

Next ==
  \/ \E s \in Scheduler :
       \/ CycleStep(s) \/ FaultStep(s) \/ Restart(s)
       \/ \E m \in Monitor : TaskStep(s, m)
  \/ \E m \in Monitor : ApiStep(m)
  \/ Tick

Spec == Init /\ [][Next]_vars

(* The event loop and the database keep going, a stopped process is started
   again, transactions end and time passes.  Processes may be cancelled and
   crash for ever, but not each time at the same point: one that again and
   again is about to start a cycle, to select m or to commit a claim of m does
   so.                                                                      *)
SelectOf(s, m) == ClaimSelect(s) /\ claim'[s][m] # NoToken
CommitOf(s, m) == ClaimCommit(s) /\ m \in Wave(s)

Fairness ==
  /\ \A s \in Scheduler :
       /\ WF_vars(CycleStep(s) \/ ClaimFail(s) \/ ReleaseFail(s))
       /\ WF_vars(Restart(s)) /\ SF_vars(Poll(s))
       /\ \A m \in Monitor : /\ WF_vars(TaskStep(s, m))
                              /\ SF_vars(SelectOf(s, m))
                              /\ SF_vars(CommitOf(s, m))
  /\ \A m \in Monitor : WF_vars(ApiEdit(m) \/ ApiManual(m) \/ ApiDelete(m))
  /\ WF_vars(Tick)

FairSpec == Spec /\ Fairness

-----------------------------------------------------------------------------
(* Properties. *)

(* The row of a result about to be committed still carries the lease under
   which it was probed, even if the lease has run out since the clock was read:
   record verifies under the row's lock and commits under it, and neither a
   claim (SKIP LOCKED) nor a deletion gets in between. *)
VerifiedHoldsLease ==
  \A s \in Scheduler, m \in Monitor :
    task[s][m] = "verified" =>
      row[m] = "live" /\ leaseToken[m] = claim[s][m]

(* Whatever stale processes do, each row obeys FencedLease: at most one result
   is accepted per claim, and only while no other claim has replaced it. *)
Lease == INSTANCE FencedLease WITH Item     <- Monitor,
                                   holder   <- leaseToken,
                                   accepted <- recordedBy

EveryRowIsFenced == Lease!Spec

(* A lease that has not expired leaves a row that stays only by the hand of the
   process whose memory holds it: record or _release_claims, with that token.  A
   late release of an earlier claim never clears its replacement. *)
GivenUp(s, m) ==
  /\ claim[s][m] = leaseToken[m]
  /\ task[s][m] \in {"verified", "done"}

LeaseLeftOnlyByOwner ==
  [][\A m \in Monitor :
       (/\ leaseToken[m] # NoToken /\ leaseLeft[m] > 0
        /\ leaseToken'[m] # leaseToken[m] /\ row'[m] = "live")
         => \E s \in Scheduler : GivenUp(s, m)]_vars

(* As long as timeouts fire when they are due, two processes never probe the
   same monitor at the same time: the lease outlives the probe, because grace
   is added to timeout_seconds and the claim transaction is bounded by grace. *)
NoOverlappingProbes ==
  Prompt => \A m \in Monitor, s, t \in Scheduler :
              task[s][m] = "probing" /\ task[t][m] = "probing" => s = t

(* No cycle exceeds batch_size monitors, no wave exceeds concurrency tasks. *)
CycleIsBounded ==
  \A s \in Scheduler : /\ Cardinality(attempted[s]) <= BatchSize
                        /\ Cardinality(Wave(s)) <= Concurrency

(* A cycle ends, however its probes and transactions fail: a monitor whose
   check keeps failing stays due, and only exclude_ids ends the loop. *)
CycleEnds ==
  \A s \in Scheduler :
    phase[s] = "polling" ~> phase[s] \in {"idle", "stopped"}

(* A due monitor is probed in the end, also when the processes that claim it
   crash, lose a COMMIT's answer or fail to release: leases expire. *)
DueIsProbed ==
  \A m \in Monitor \ Paused :
    row[m] = "live" /\ dueIn[m] <= 0
      ~> \/ \E s \in Scheduler : task[s][m] = "probing"
         \/ row[m] = "deleted" \/ dueIn[m] > 0

-----------------------------------------------------------------------------
(* The inductive invariants behind VerifiedHoldsLease, EveryRowIsFenced,
   LeaseLeftOnlyByOwner and NoOverlappingProbes. *)

(* A process has tasks for its claims in a wave, finished ones while it releases
   and neither tasks nor claims elsewhere. *)
TasksFitClaims ==
  \A s \in Scheduler, m \in Monitor :
    /\ task[s][m] # "none" => claim[s][m] # NoToken
    /\ task[s][m] # "none" => phase[s] \in {"wave", "releasing", "stopping"}
    /\ claim[s][m] # NoToken => phase[s] = "claiming" \/ task[s][m] # "none"
    /\ phase[s] \in {"releasing", "stopping"} => task[s][m] \in {"none", "done"}
    /\ claim[s][m] # NoToken => row[m] # "unborn"

Claiming(s, m)  == phase[s] = "claiming" /\ claim[s][m] # NoToken
Recording(s, m) == task[s][m] \in {"locked", "verified"}

(* The transactions that claim or record a row hold its lock. *)
TransactionsHoldLocks ==
  \A s \in Scheduler, m \in Monitor :
    Claiming(s, m) \/ Recording(s, m) => rowLock[m] = s /\ row[m] = "live"

(* A row being claimed has no unexpired lease, and a token that is not new. *)
ClaimsAreFree ==
  \A s \in Scheduler, m \in Monitor :
    Claiming(s, m) => leaseLeft[m] = 0 /\ leaseToken[m] # claim[s][m]

(* No two processes know the same token of a row. *)
TokensAreUnique ==
  \A m \in Monitor, s, t \in Scheduler :
    claim[s][m] = claim[t][m] /\ claim[s][m] # NoToken => s = t

(* Every result that may still be accepted is fenced. *)
FencingInv ==
  /\ TasksFitClaims
  /\ TransactionsHoldLocks
  /\ ClaimsAreFree
  /\ TokensAreUnique
  /\ VerifiedHoldsLease

(* While timeouts fire when they are due, the lease of a running probe is in
   the row and lasts longer than the probe, unless the row has been deleted. *)
LeaseOutlivesProbe ==
  Prompt => \A s \in Scheduler, m \in Monitor :
    task[s][m] = "probing" /\ row[m] = "live" =>
      leaseToken[m] = claim[s][m] /\ leaseLeft[m] > probeLeft[s][m]

(* The whole inductive invariant: results are fenced and no lease is negative,
   whatever suspended processes, late releases and deletions do. *)
LeaseInv == TypeOK /\ FencingInv
=============================================================================
