------------------------ MODULE NotificationDelivery ------------------------
(***************************************************************************)
(* Notification workers that share the notification_deliveries table.  In  *)
(* each cycle a worker fans pending events out into deliveries, claims due *)
(* deliveries in waves with a lease, and for each one loads its data,      *)
(* reads what is left of the lease, sends within that time, and records    *)
(* the result in a transaction that locks the row and checks the lease.    *)
(* A worker may crash, be told to stop or be suspended; a recipient may    *)
(* get a message although the send fails.                                  *)
(*                                                                         *)
(* Time is counted down as in CheckLease: leaseLeft is locked_until and    *)
(* dueIn is next_attempt_at, both minus the database clock.                *)
(***************************************************************************)
EXTENDS Integers, FiniteSets

CONSTANTS
  Worker,       \* notification worker processes
  Delivery,     \* notification_deliveries ids
  Token,        \* lease tokens; uuid4 never repeats, see Fresh
  NoToken,      \* NULL
  NoOne,        \* the owner of a row lock nobody holds
  Poison,       \* deliveries whose channel raises an unexpected exception
  MaxAttempts,  \* max_attempts
  RetryBase,    \* retry_base_seconds
  RetryMax,     \* retry_max_seconds
  LeaseFloor,   \* lease_seconds as configured
  SendTimeout,  \* notification_timeout_seconds
  DbTimeout,    \* database_timeout_seconds
  Skew,         \* application clock against database clock, at most
  MaxLate,      \* bound: a delivery later than this counts as this late
  MaxReceived,  \* bound: more messages received than this are not counted
  BatchSize,    \* batch_size
  Concurrency,  \* concurrency
  Prompt,       \* TRUE: asyncio.timeout fires when it is due
  Deletes       \* TRUE: destinations and events, and rows with them, may go

Lower(a, b)  == IF a < b THEN a ELSE b
Higher(a, b) == IF a < b THEN b ELSE a

(* NotificationService._retry_delay: exponential back-off, up to a limit. *)
RetryDelay(n) == Lower(RetryBase * 2 ^ (n - 1), RetryMax)

(* The lease covers a send, three database operations and a margin. *)
Lease == Higher(LeaseFloor, SendTimeout + 3 * DbTimeout + 1)

ASSUME WorkerAssumption ==
  IsFiniteSet(Worker) /\ IsFiniteSet(Delivery) /\ NoOne \notin Worker
ASSUME TokenAssumption == NoToken \notin Token
ASSUME LimitsAssumption ==
  /\ {MaxAttempts, RetryBase, RetryMax, LeaseFloor, SendTimeout, DbTimeout,
      BatchSize, Concurrency, MaxReceived} \subseteq Nat \ {0}
  /\ Skew \in Nat /\ MaxLate \in Nat
  /\ Prompt \in BOOLEAN /\ Deletes \in BOOLEAN
(* A fact of arithmetic; the provers know nothing of powers. *)
ASSUME RetryAssumption == \A n \in 1 .. MaxAttempts : RetryDelay(n) \in Nat

VARIABLES
  row,        \* is the row there: "unborn", "live", "deleted"
  done,       \* processed_at is set
  attempts,   \* attempts
  dueIn,      \* next_attempt_at - clock
  leaseToken, \* lease_token
  leaseLeft,  \* locked_until - clock, 0 when past or NULL
  rowLock,    \* whose transaction holds the row's FOR UPDATE lock
  phase,      \* where run_forever stands in each worker
  attempted,  \* the attempted set of run_once
  claim,      \* the tokens of the wave in memory
  seen,       \* the attempts the claim has read
  claimAge,   \* time since claim_pending read the clock
  task,       \* where each _process_delivery task stands
  timer,      \* what is left of the task's current asyncio.timeout
  outcome,    \* the result of a send that is not recorded yet
  received,   \* auxiliary: how often the recipient got the message
  lost,       \* auxiliary: the recipient got it, and no success was recorded
  recordedBy  \* auxiliary: the claim whose result ended the last lease

rows  == <<row, done, attempts, dueIn, leaseToken, leaseLeft, rowLock>>
tasks == <<task, timer, outcome>>
mem   == <<phase, attempted, claim, seen, claimAge>>
aux   == <<received, lost>>
vars  == <<row, done, attempts, dueIn, leaseToken, leaseLeft, rowLock,
           phase, attempted, claim, seen, claimAge, task, timer, outcome,
           received, lost, recordedBy>>

Phases   == {"idle", "fanout", "polling", "claiming", "wave", "releasing",
             "stopping", "stopped"}
Tasks    == {"none", "loading", "checking", "sending", "recording", "locked",
             "verified", "done"}
Outcomes == {"none", "ok", "failed"}
Tokens   == Token \cup {NoToken}

(* One unit of time later, for a countdown that stops at low. *)
Later(n, low) == IF n > low THEN n - 1 ELSE low

TypeOK ==
  /\ row \in [Delivery -> {"unborn", "live", "deleted"}]
  /\ done \in [Delivery -> BOOLEAN]
  /\ attempts \in [Delivery -> 0 .. MaxAttempts]
  /\ dueIn \in [Delivery -> Int]
  /\ leaseToken \in [Delivery -> Tokens]
  /\ leaseLeft \in [Delivery -> Nat]
  /\ rowLock \in [Delivery -> Worker \cup {NoOne}]
  /\ phase \in [Worker -> Phases]
  /\ attempted \in [Worker -> SUBSET Delivery]
  /\ claim \in [Worker -> [Delivery -> Tokens]]
  /\ seen \in [Worker -> [Delivery -> 0 .. MaxAttempts - 1]]
  /\ claimAge \in [Worker -> 0 .. DbTimeout]
  /\ task \in [Worker -> [Delivery -> Tasks]]
  /\ timer \in [Worker -> [Delivery -> Nat]]
  /\ outcome \in [Worker -> [Delivery -> Outcomes]]
  /\ received \in [Delivery -> 0 .. MaxReceived]
  /\ lost \in [Delivery -> BOOLEAN]
  /\ recordedBy \in [Delivery -> Tokens]

Init ==
  /\ row = [d \in Delivery |-> "unborn"]
  /\ done = [d \in Delivery |-> FALSE]
  /\ attempts = [d \in Delivery |-> 0]
  /\ dueIn = [d \in Delivery |-> 0]
  /\ leaseToken = [d \in Delivery |-> NoToken]
  /\ leaseLeft = [d \in Delivery |-> 0]
  /\ rowLock = [d \in Delivery |-> NoOne]
  /\ phase = [w \in Worker |-> "idle"]
  /\ attempted = [w \in Worker |-> {}]
  /\ claim = [w \in Worker |-> [d \in Delivery |-> NoToken]]
  /\ seen = [w \in Worker |-> [d \in Delivery |-> 0]]
  /\ claimAge = [w \in Worker |-> 0]
  /\ task = [w \in Worker |-> [d \in Delivery |-> "none"]]
  /\ timer = [w \in Worker |-> [d \in Delivery |-> 0]]
  /\ outcome = [w \in Worker |-> [d \in Delivery |-> "none"]]
  /\ received = [d \in Delivery |-> 0]
  /\ lost = [d \in Delivery |-> FALSE]
  /\ recordedBy = [d \in Delivery |-> NoToken]

-----------------------------------------------------------------------------
(* A cycle of a worker. *)

Wave(w) == {d \in Delivery : claim[w][d] # NoToken}

(* uuid4 is new against every token that a row or a worker still knows. *)
Fresh(d) == Token \ ({leaseToken[d]} \cup {claim[w][d] : w \in Worker})

(* Mutants of Eligible: deliveries are tried for ever; an expired lease still
   blocks. *)
Eligible_Unlimited(w) ==
  {d \in Delivery : /\ row[d] = "live" /\ ~done[d] /\ dueIn[d] <= 0
                    /\ leaseLeft[d] = 0 /\ rowLock[d] = NoOne
                    /\ d \notin attempted[w]}

Eligible_NoExpiry(w) ==
  {d \in Delivery : /\ row[d] = "live" /\ ~done[d] /\ dueIn[d] <= 0
                    /\ attempts[d] < MaxAttempts /\ leaseToken[d] = NoToken
                    /\ rowLock[d] = NoOne /\ d \notin attempted[w]}

(* The rows that claim_pending's SELECT ... SKIP LOCKED can return. *)
Eligible(w) ==
  {d \in Delivery : /\ row[d] = "live"
                    /\ ~done[d]
                    /\ attempts[d] < MaxAttempts
                    /\ dueIn[d] <= 0
                    /\ leaseLeft[d] = 0
                    /\ rowLock[d] = NoOne
                    /\ d \notin attempted[w]}

Limit(w) == Lower(Concurrency, BatchSize - Cardinality(attempted[w]))

(* ORDER BY next_attempt_at LIMIT: none that is left out is due earlier. *)
FirstDue(w) ==
  {e \in SUBSET Eligible(w) :
     /\ Cardinality(e) = Lower(Limit(w), Cardinality(Eligible(w)))
     /\ \A a \in e, b \in Eligible(w) \ e : dueIn[a] <= dueIn[b]}

Unlocked(w) == [d \in Delivery |-> IF rowLock[d] = w THEN NoOne ELSE rowLock[d]]

(* The rows as a claim transaction's COMMIT leaves them. *)
ClaimsReachRows(w) ==
  /\ leaseToken' = [d \in Delivery |->
       IF d \in Wave(w) THEN claim[w][d] ELSE leaseToken[d]]
  /\ leaseLeft' = [d \in Delivery |->
       IF d \in Wave(w) THEN Lease - claimAge[w] ELSE leaseLeft[d]]
  /\ recordedBy' = [d \in Delivery |->
       IF d \in Wave(w) THEN NoToken ELSE recordedBy[d]]
  /\ rowLock' = Unlocked(w)
  /\ UNCHANGED <<row, done, attempts, dueIn>>

(* A connection that ends rolls back: its row locks go, its writes with it. *)
Rollback(w) ==
  /\ rowLock' = Unlocked(w)
  /\ UNCHANGED <<row, done, attempts, dueIn, leaseToken, leaseLeft, recordedBy>>

(* The memory of a worker whose claims are over. *)
Forget(w) ==
  /\ claim' = [claim EXCEPT ![w] = [d \in Delivery |-> NoToken]]
  /\ seen' = [seen EXCEPT ![w] = [d \in Delivery |-> 0]]
  /\ claimAge' = [claimAge EXCEPT ![w] = 0]
  /\ task' = [task EXCEPT ![w] = [d \in Delivery |-> "none"]]
  /\ timer' = [timer EXCEPT ![w] = [d \in Delivery |-> 0]]
  /\ outcome' = [outcome EXCEPT ![w] = [d \in Delivery |-> "none"]]

(* run_once ends, and its set of attempted deliveries with it. *)
CycleOver(w) == attempted' = [attempted EXCEPT ![w] = {}]

(* One more message received, as far as they are counted. *)
OneMore(n) == Lower(n + 1, MaxReceived)

(* The tasks of w in ds end without a result: a send that was under way may
   have reached the recipient, and a success may go unrecorded. *)
Abandon(w, ds) ==
  \E r \in SUBSET {d \in ds : task[w][d] = "sending"} :
    /\ received' = [d \in Delivery |->
         IF d \in r THEN OneMore(received[d]) ELSE received[d]]
    /\ lost' = [d \in Delivery |->
         lost[d] \/ d \in r \/ (d \in ds /\ outcome[w][d] = "ok")]

(* run_forever enters run_once, which begins with the fan-out. *)
Poll(w) ==
  /\ phase[w] = "idle"
  /\ phase' = [phase EXCEPT ![w] = "fanout"]
  /\ UNCHANGED <<rows, tasks, attempted, claim, seen, claimAge, aux, recordedBy>>

(* The fan-out commits deliveries of pending events, due when they are created
   by the clock of this worker ... *)
FanOut(w) ==
  /\ phase[w] = "fanout"
  /\ \E ds \in SUBSET {d \in Delivery : row[d] = "unborn"},
        k \in (-Skew) .. Skew :
       /\ row' = [d \in Delivery |-> IF d \in ds THEN "live" ELSE row[d]]
       /\ dueIn' = [d \in Delivery |->
                      IF d \in ds THEN Higher(k, -MaxLate) ELSE dueIn[d]]
  /\ phase' = [phase EXCEPT ![w] = "polling"]
  /\ UNCHANGED <<done, attempts, leaseToken, leaseLeft, rowLock, tasks,
                 attempted, claim, seen, claimAge, aux, recordedBy>>

(* ... or fails, and the cycle with it. *)
FanOutFail(w) ==
  /\ phase[w] = "fanout"
  /\ phase' = [phase EXCEPT ![w] = "idle"]
  /\ UNCHANGED <<rows, tasks, attempted, claim, seen, claimAge, aux, recordedBy>>

(* claim_pending locks the first due rows, then reads the clock and writes each
   row's token and expiry; nobody else sees them before the COMMIT. *)
ClaimSelect(w) ==
  /\ phase[w] = "polling"
  /\ Cardinality(attempted[w]) < BatchSize
  /\ Eligible(w) # {}
  /\ \E e \in FirstDue(w) :
       /\ \E tok \in [e -> Token] :
            /\ \A d \in e : tok[d] \in Fresh(d)
            /\ claim' = [claim EXCEPT ![w] = [d \in Delivery |->
                           IF d \in e THEN tok[d] ELSE NoToken]]
       /\ seen' = [seen EXCEPT ![w] = [d \in Delivery |->
                     IF d \in e THEN attempts[d] ELSE 0]]
       /\ rowLock' = [d \in Delivery |-> IF d \in e THEN w ELSE rowLock[d]]
  /\ claimAge' = [claimAge EXCEPT ![w] = 0]
  /\ phase' = [phase EXCEPT ![w] = "claiming"]
  /\ UNCHANGED <<row, done, attempts, dueIn, leaseToken, leaseLeft, attempted,
                 tasks, aux, recordedBy>>

(* Nothing to claim, or the batch is full: run_once returns. *)
EndCycle(w) ==
  /\ phase[w] = "polling"
  /\ Cardinality(attempted[w]) < BatchSize => Eligible(w) = {}
  /\ phase' = [phase EXCEPT ![w] = "idle"]
  /\ CycleOver(w)
  /\ UNCHANGED <<rows, tasks, claim, seen, claimAge, aux, recordedBy>>

(* The COMMIT is acknowledged within asyncio.timeout(database_timeout_seconds),
   a scope entered before the clock was read, and the wave's tasks start. *)
ClaimCommit(w) ==
  /\ phase[w] = "claiming"
  /\ claimAge[w] < DbTimeout
  /\ ClaimsReachRows(w)
  /\ attempted' = [attempted EXCEPT ![w] = @ \cup Wave(w)]
  /\ task' = [task EXCEPT ![w] = [d \in Delivery |->
                IF d \in Wave(w) THEN "loading" ELSE "none"]]
  /\ timer' = [timer EXCEPT ![w] = [d \in Delivery |->
                 IF d \in Wave(w) THEN DbTimeout ELSE 0]]
  /\ claimAge' = [claimAge EXCEPT ![w] = 0]
  /\ phase' = [phase EXCEPT ![w] = "wave"]
  /\ UNCHANGED <<claim, seen, outcome, aux>>

(* An error or the timeout ends the claim transaction: run_forever logs it and
   sleeps.  The COMMIT may have reached the database all the same. *)
ClaimFail(w) ==
  /\ phase[w] = "claiming"
  /\ ClaimsReachRows(w) \/ Rollback(w)
  /\ Forget(w) /\ CycleOver(w)
  /\ phase' = [phase EXCEPT ![w] = "idle"]
  /\ UNCHANGED aux

-----------------------------------------------------------------------------
(* The tasks of a wave. *)

(* The task's database calls, or its send, are within their asyncio.timeout. *)
InTime(w, d) == Prompt => timer[w][d] > 0

TaskGoes(w, d, to, time) ==
  /\ task' = [task EXCEPT ![w][d] = to]
  /\ timer' = [timer EXCEPT ![w][d] = time]

(* The task of w for d ends; a row lock of its transaction goes with it. *)
TaskEnds(w, d) ==
  /\ TaskGoes(w, d, "done", 0)
  /\ outcome' = [outcome EXCEPT ![w][d] = "none"]
  /\ rowLock' = [rowLock EXCEPT ![d] = IF @ = w THEN NoOne ELSE @]

(* The event and the destination are loaded; the row goes with either. *)
LoadData(w, d) ==
  /\ task[w][d] = "loading" /\ InTime(w, d)
  /\ IF row[d] = "live" THEN TaskGoes(w, d, "checking", DbTimeout)
                        ELSE TaskGoes(w, d, "done", 0)
  /\ UNCHANGED <<rows, mem, outcome, aux, recordedBy>>

Owns(w, d) ==
  row[d] = "live" /\ leaseToken[d] = claim[w][d] /\ leaseLeft[d] > 0 /\ ~done[d]

(* The time for a send that leaves database_timeout_seconds of the lease. *)
SendTime(d, elapsed) ==
  Lower(SendTimeout, leaseLeft[d] - elapsed - DbTimeout)

(* remaining_lease_seconds finds the claim's lease, and what is left of it when
   the query's time is deducted suffices for a send ... *)
StartSend(w, d) ==
  /\ task[w][d] = "checking" /\ InTime(w, d)
  /\ Owns(w, d)
  /\ \E elapsed \in 0 .. DbTimeout - timer[w][d] :
       /\ SendTime(d, elapsed) > 0
       /\ TaskGoes(w, d, "sending", SendTime(d, elapsed))
  /\ UNCHANGED <<rows, mem, outcome, aux, recordedBy>>

(* ... or it does not, and nothing is sent. *)
SkipSend(w, d) ==
  /\ task[w][d] = "checking" /\ InTime(w, d)
  /\ Owns(w, d) =>
       \E elapsed \in 0 .. DbTimeout - timer[w][d] : SendTime(d, elapsed) <= 0
  /\ TaskGoes(w, d, "done", 0)
  /\ UNCHANGED <<rows, mem, outcome, aux, recordedBy>>

(* The channel confirms the message ... *)
SendOk(w, d) ==
  /\ task[w][d] = "sending" /\ InTime(w, d) /\ d \notin Poison
  /\ TaskGoes(w, d, "recording", DbTimeout)
  /\ outcome' = [outcome EXCEPT ![w][d] = "ok"]
  /\ received' = [received EXCEPT ![d] = OneMore(@)]
  /\ UNCHANGED <<rows, mem, lost, recordedBy>>

(* ... or reports an error, or exceeds its time; whether the recipient has got
   it is not known. *)
SendError(w, d) ==
  /\ task[w][d] = "sending" /\ d \notin Poison
  /\ TaskGoes(w, d, "recording", DbTimeout)
  /\ outcome' = [outcome EXCEPT ![w][d] = "failed"]
  /\ Abandon(w, {d})
  /\ UNCHANGED <<rows, mem, recordedBy>>

(* An unexpected exception anywhere, or a transaction that fails or exceeds its
   timeout: _process_delivery_safely logs it, and the row is as it was. *)
TaskFail(w, d) ==
  /\ task[w][d] \notin {"none", "done"}
  /\ Abandon(w, {d})
  /\ TaskEnds(w, d)
  /\ UNCHANGED <<row, done, attempts, dueIn, leaseToken, leaseLeft, mem,
                 recordedBy>>

(* Mutant of RecordLock: the row is read without FOR UPDATE. *)
RecordLock_PlainRead(w, d) ==
  /\ task[w][d] = "recording" /\ InTime(w, d) /\ row[d] = "live"
  /\ task' = [task EXCEPT ![w][d] = "locked"]
  /\ UNCHANGED <<rows, mem, timer, outcome, aux, recordedBy>>

(* update locks the row ... *)
RecordLock(w, d) ==
  /\ task[w][d] = "recording" /\ InTime(w, d)
  /\ row[d] = "live" /\ rowLock[d] = NoOne
  /\ rowLock' = [rowLock EXCEPT ![d] = w]
  /\ task' = [task EXCEPT ![w][d] = "locked"]
  /\ UNCHANGED <<row, done, attempts, dueIn, leaseToken, leaseLeft, mem,
                 timer, outcome, aux, recordedBy>>

(* ... or finds none: the result is discarded. *)
RecordGone(w, d) ==
  /\ task[w][d] = "recording" /\ InTime(w, d)
  /\ row[d] # "live"
  /\ Abandon(w, {d})
  /\ TaskEnds(w, d)
  /\ UNCHANGED <<row, done, attempts, dueIn, leaseToken, leaseLeft, mem,
                 recordedBy>>

(* Mutant of LeaseHolds: the token is not compared. *)
LeaseHolds_AnyToken(w, d) == leaseLeft[d] > 0 /\ ~done[d]

(* With the lock held, it reads the clock and compares the row's lease. *)
LeaseHolds(w, d) ==
  leaseToken[d] = claim[w][d] /\ leaseLeft[d] > 0 /\ ~done[d]

RecordVerify(w, d) ==
  /\ task[w][d] = "locked" /\ InTime(w, d)
  /\ LeaseHolds(w, d)
  /\ task' = [task EXCEPT ![w][d] = "verified"]
  /\ UNCHANGED <<rows, mem, timer, outcome, aux, recordedBy>>

RecordDiscard(w, d) ==
  /\ task[w][d] = "locked" /\ InTime(w, d)
  /\ ~LeaseHolds(w, d)
  /\ Abandon(w, {d})
  /\ TaskEnds(w, d)
  /\ UNCHANGED <<row, done, attempts, dueIn, leaseToken, leaseLeft, mem,
                 recordedBy>>

(* release_lock: the row's lease is cleared if it still is tok. *)
Released(d, tok) ==
  /\ leaseToken' = [leaseToken EXCEPT ![d] = IF @ = tok THEN NoToken ELSE @]
  /\ leaseLeft' = [leaseLeft EXCEPT ![d] =
                     IF leaseToken[d] = tok THEN 0 ELSE @]

(* next_attempt_at after a failure: from the sender's clock at the end of the
   send, which was DbTimeout - timer ago. *)
NextDue(w, d) ==
  {Higher(RetryDelay(seen[w][d] + 1) + k - (DbTimeout - timer[w][d]), -MaxLate) :
     k \in (-Skew) .. Skew}

(* Mutant of RecordCommit: a failure does not count as an attempt. *)
RecordCommit_FreeRetry(w, d) ==
  /\ task[w][d] = "verified" /\ InTime(w, d)
  /\ IF outcome[w][d] = "ok"
       THEN /\ done' = [done EXCEPT ![d] = TRUE]
            /\ attempts' = [attempts EXCEPT ![d] = seen[w][d] + 1]
            /\ UNCHANGED dueIn
       ELSE /\ \E due \in NextDue(w, d) : dueIn' = [dueIn EXCEPT ![d] = due]
            /\ UNCHANGED <<done, attempts>>
  /\ Released(d, claim[w][d])
  /\ recordedBy' = [recordedBy EXCEPT ![d] = claim[w][d]]
  /\ TaskEnds(w, d)
  /\ UNCHANGED <<row, mem, aux>>

(* update commits: the attempt is counted and the lease released with success,
   or with the time of the next attempt. *)
RecordCommit(w, d) ==
  /\ task[w][d] = "verified" /\ InTime(w, d)
  /\ attempts' = [attempts EXCEPT ![d] = seen[w][d] + 1]
  /\ IF outcome[w][d] = "ok"
       THEN done' = [done EXCEPT ![d] = TRUE] /\ UNCHANGED dueIn
       ELSE /\ \E due \in NextDue(w, d) : dueIn' = [dueIn EXCEPT ![d] = due]
            /\ UNCHANGED done
  /\ Released(d, claim[w][d])
  /\ recordedBy' = [recordedBy EXCEPT ![d] = claim[w][d]]
  /\ TaskEnds(w, d)
  /\ UNCHANGED <<row, mem, aux>>

-----------------------------------------------------------------------------
(* The end of a wave, and of a worker. *)

(* The TaskGroup has awaited every task; the finally clause is next. *)
WaveDone(w) ==
  /\ phase[w] = "wave"
  /\ \A d \in Wave(w) : task[w][d] = "done"
  /\ phase' = [phase EXCEPT ![w] = "releasing"]
  /\ UNCHANGED <<rows, tasks, attempted, claim, seen, claimAge, aux, recordedBy>>

(* After _release_claims the next wave starts, or the worker ends if it was
   cancelled. *)
AfterRelease(w) ==
  /\ phase[w] \in {"releasing", "stopping"}
  /\ Forget(w)
  /\ phase' = [phase EXCEPT ![w] =
                 IF @ = "stopping" THEN "stopped" ELSE "polling"]
  /\ IF phase[w] = "stopping" THEN CycleOver(w) ELSE UNCHANGED attempted
  /\ UNCHANGED aux

(* Mutant of Release: leases are released by delivery id alone. *)
Release_ById(w) ==
  /\ AfterRelease(w)
  /\ \A d \in Wave(w) : rowLock[d] = NoOne
  /\ leaseToken' = [d \in Delivery |->
       IF d \in Wave(w) THEN NoToken ELSE leaseToken[d]]
  /\ leaseLeft' = [d \in Delivery |-> IF d \in Wave(w) THEN 0 ELSE leaseLeft[d]]
  /\ UNCHANGED <<row, done, attempts, dueIn, rowLock, recordedBy>>

(* _release_claims clears the leases that still are its own; its UPDATEs wait
   for the row locks of others.  This is the bulk form of Released. *)
Release(w) ==
  /\ AfterRelease(w)
  /\ \A d \in Wave(w) : leaseToken[d] = claim[w][d] => rowLock[d] = NoOne
  /\ leaseToken' = [d \in Delivery |->
       IF d \in Wave(w) /\ leaseToken[d] = claim[w][d]
         THEN NoToken ELSE leaseToken[d]]
  /\ leaseLeft' = [d \in Delivery |->
       IF d \in Wave(w) /\ leaseToken[d] = claim[w][d] THEN 0 ELSE leaseLeft[d]]
  /\ UNCHANGED <<row, done, attempts, dueIn, rowLock, recordedBy>>

(* It fails or exceeds cleanup_timeout_seconds: the leases await expiry. *)
ReleaseFail(w) == AfterRelease(w) /\ UNCHANGED <<rows, recordedBy>>

(* SIGTERM cancels the main task, once.  A wave's tasks are cancelled and its
   claims released; anywhere else the worker ends, and a transaction that was
   open rolls back unless its COMMIT was on the way. *)
Cancel(w) ==
  \/ /\ phase[w] = "wave"
     /\ phase' = [phase EXCEPT ![w] = "stopping"]
     /\ Abandon(w, Wave(w))
     /\ task' = [task EXCEPT ![w] = [d \in Delivery |->
                   IF d \in Wave(w) THEN "done" ELSE "none"]]
     /\ timer' = [timer EXCEPT ![w] = [d \in Delivery |-> 0]]
     /\ outcome' = [outcome EXCEPT ![w] = [d \in Delivery |-> "none"]]
     /\ Rollback(w)
     /\ UNCHANGED <<attempted, claim, seen, claimAge>>
  \/ /\ phase[w] \in {"idle", "fanout", "polling", "claiming", "releasing"}
     /\ phase' = [phase EXCEPT ![w] = "stopped"]
     /\ Rollback(w) \/ (phase[w] = "claiming" /\ ClaimsReachRows(w))
     /\ Forget(w) /\ CycleOver(w)
     /\ UNCHANGED aux

(* The worker is killed: the database rolls back its transactions. *)
Crash(w) ==
  /\ phase[w] # "stopped"
  /\ phase' = [phase EXCEPT ![w] = "stopped"]
  /\ Abandon(w, Wave(w))
  /\ Rollback(w)
  /\ Forget(w) /\ CycleOver(w)

(* A new worker starts with an empty memory. *)
Restart(w) ==
  /\ phase[w] = "stopped"
  /\ phase' = [phase EXCEPT ![w] = "idle"]
  /\ UNCHANGED <<rows, tasks, attempted, claim, seen, claimAge, aux, recordedBy>>

-----------------------------------------------------------------------------
(* The row goes with its destination or its organization (ON DELETE CASCADE),
   or retention deletes it. *)
DeleteRow(d) ==
  /\ Deletes
  /\ row[d] = "live" /\ rowLock[d] = NoOne
  /\ row' = [row EXCEPT ![d] = "deleted"]
  /\ dueIn' = [dueIn EXCEPT ![d] = 0]
  /\ leaseToken' = [leaseToken EXCEPT ![d] = NoToken]
  /\ leaseLeft' = [leaseLeft EXCEPT ![d] = 0]
  /\ UNCHANGED <<done, attempts, rowLock, tasks, mem, aux, recordedBy>>

(* Time goes on.  A prompt worker handles a timeout before it is overdue; one
   that is suspended, or whose event loop is busy, does not. *)
Tick ==
  /\ Prompt => \A w \in Worker :
       /\ phase[w] = "claiming" => claimAge[w] < DbTimeout
       /\ \A d \in Delivery :
            task[w][d] \notin {"none", "done"} => timer[w][d] > 0
  /\ dueIn' = [d \in Delivery |->
       IF row[d] = "live" /\ ~done[d] THEN Later(dueIn[d], -MaxLate)
                                      ELSE dueIn[d]]
  /\ leaseLeft' = [d \in Delivery |-> Later(leaseLeft[d], 0)]
  /\ claimAge' = [w \in Worker |->
       IF phase[w] = "claiming" THEN Lower(claimAge[w] + 1, DbTimeout) ELSE 0]
  /\ timer' = [w \in Worker |-> [d \in Delivery |-> Later(timer[w][d], 0)]]
  /\ UNCHANGED <<row, done, attempts, leaseToken, rowLock, phase, attempted,
                 claim, seen, task, outcome, aux, recordedBy>>

TaskStep(w, d) ==
  \/ LoadData(w, d) \/ StartSend(w, d) \/ SkipSend(w, d)
  \/ SendOk(w, d) \/ SendError(w, d) \/ TaskFail(w, d)
  \/ RecordLock(w, d) \/ RecordGone(w, d)
  \/ RecordVerify(w, d) \/ RecordDiscard(w, d) \/ RecordCommit(w, d)

(* run_once and what it awaits, without its failures. *)
CycleStep(w) ==
  \/ Poll(w) \/ FanOut(w) \/ ClaimSelect(w) \/ EndCycle(w) \/ ClaimCommit(w)
  \/ WaveDone(w) \/ Release(w)

FaultStep(w) ==
  FanOutFail(w) \/ ClaimFail(w) \/ ReleaseFail(w) \/ Cancel(w) \/ Crash(w)

Next ==
  \/ \E w \in Worker :
       \/ CycleStep(w) \/ FaultStep(w) \/ Restart(w)
       \/ \E d \in Delivery : TaskStep(w, d)
  \/ \E d \in Delivery : DeleteRow(d)
  \/ Tick

Spec == Init /\ [][Next]_vars

(* The event loop and the database keep going, a stopped worker is started
   again and time passes.  Workers may crash and transactions fail for ever,
   but not each time at the same point: a worker that again and again is about
   to start a cycle, to fan out, to select or commit a claim of d, to load its
   data or to start its send does so. *)
SelectOf(w, d) == ClaimSelect(w) /\ claim'[w][d] # NoToken
CommitOf(w, d) == ClaimCommit(w) /\ d \in Wave(w)

Fairness ==
  /\ \A w \in Worker :
       /\ WF_vars(CycleStep(w) \/ FanOutFail(w) \/ ClaimFail(w) \/ ReleaseFail(w))
       /\ WF_vars(Restart(w)) /\ SF_vars(Poll(w)) /\ SF_vars(FanOut(w))
       /\ \A d \in Delivery : WF_vars(TaskStep(w, d))
       /\ \A d \in Delivery \ Poison :
            /\ SF_vars(SelectOf(w, d)) /\ SF_vars(CommitOf(w, d))
            /\ SF_vars(LoadData(w, d)) /\ SF_vars(StartSend(w, d))
  /\ WF_vars(Tick)

FairSpec == Spec /\ Fairness

(* The same of the rest of a delivery's task. *)
TaskFairness ==
  \A w \in Worker, d \in Delivery \ Poison :
    /\ SF_vars(SendOk(w, d) \/ SendError(w, d))
    /\ SF_vars(RecordLock(w, d)) /\ SF_vars(RecordVerify(w, d))
    /\ SF_vars(RecordCommit(w, d))

RetrySpec == FairSpec /\ TaskFairness

-----------------------------------------------------------------------------
(* Properties. *)

(* Whatever stale workers do, each row obeys FencedLease: a claim has at most
   one result recorded, and only while no other claim has replaced it. *)
RowLease == INSTANCE FencedLease WITH Item     <- Delivery,
                                    holder   <- leaseToken,
                                    accepted <- recordedBy

EveryRowIsFenced == RowLease!Spec

(* The claim that is in a row has seen the row's attempts, so that the number
   it writes back (attempts read + 1) loses none and counts none twice. *)
HolderSeesAttempts ==
  \A w \in Worker, d \in Delivery :
    claim[w][d] # NoToken /\ leaseToken[d] = claim[w][d] =>
      ~done[d] /\ attempts[d] = seen[w][d]

(* A delivery that has succeeded or used up its attempts is closed for ever:
   no worker claims it, retries it or takes its success back. *)
Closed(d) == done[d] \/ attempts[d] = MaxAttempts

ClosedStaysClosed ==
  [][\A d \in Delivery : Closed(d) =>
       /\ done'[d] = done[d] /\ attempts'[d] = attempts[d]
       /\ leaseToken'[d] \in {leaseToken[d], NoToken}]_vars

(* processed_at is set only of what the recipient has got. *)
SuccessWasReceived == \A d \in Delivery : done[d] => received[d] > 0

(* As long as timeouts fire when they are due, two workers never send the same
   delivery at the same time. *)
SendsDoNotOverlap ==
  Prompt => \A d \in Delivery, v, w \in Worker :
              task[v][d] = "sending" /\ task[w][d] = "sending" => v = w

(* As long as timeouts fire when they are due, the time reserved before the
   send suffices: a result that is written in time is not stale. *)
ResultsAreNotStale ==
  Prompt => \A w \in Worker, d \in Delivery :
              task[w][d] = "locked" /\ timer[w][d] > 0 => LeaseHolds(w, d)

(* As long as timeouts fire when they are due, a recipient gets a message twice
   only after it got one whose success could not be recorded. *)
DuplicatesAreExplained ==
  Prompt => \A d \in Delivery : received[d] > 1 => lost[d]

(* A delivery that is due is sent in the end, also when the workers that claim
   it crash, lose a COMMIT's answer or fail to release: leases expire. *)
DueIsSent ==
  \A d \in Delivery \ Poison :
    row[d] = "live" /\ ~Closed(d) /\ dueIn[d] <= 0
      ~> \/ \E w \in Worker : task[w][d] = "sending"
         \/ row[d] = "deleted" \/ Closed(d) \/ dueIn[d] > 0

(* A delivery whose channel does not raise the unexpected ends, in success or
   with its attempts used up. *)
DeliveryEnds ==
  \A d \in Delivery \ Poison :
    row[d] = "live" ~> Closed(d) \/ row[d] = "deleted"

-----------------------------------------------------------------------------
(* The inductive invariants behind the properties. *)

(* A worker has tasks for its claims in a wave, finished ones while it releases
   and neither tasks nor claims elsewhere; only a pending result has an
   outcome. *)
TasksFitClaims ==
  \A w \in Worker, d \in Delivery :
    /\ task[w][d] # "none" => claim[w][d] # NoToken
    /\ task[w][d] # "none" => phase[w] \in {"wave", "releasing", "stopping"}
    /\ claim[w][d] # NoToken => phase[w] = "claiming" \/ task[w][d] # "none"
    /\ phase[w] \in {"releasing", "stopping"} => task[w][d] \in {"none", "done"}
    /\ claim[w][d] # NoToken => row[d] # "unborn"
    /\ outcome[w][d] # "none" =>
         task[w][d] \in {"recording", "locked", "verified"}

Claiming(w, d)  == phase[w] = "claiming" /\ claim[w][d] # NoToken
Recording(w, d) == task[w][d] \in {"locked", "verified"}

(* The transactions that claim or record a row hold its lock. *)
TransactionsHoldLocks ==
  \A w \in Worker, d \in Delivery :
    Claiming(w, d) \/ Recording(w, d) => rowLock[d] = w /\ row[d] = "live"

(* A row being claimed is open, has no unexpired lease and another token. *)
ClaimsAreFree ==
  \A w \in Worker, d \in Delivery :
    Claiming(w, d) =>
      /\ leaseLeft[d] = 0 /\ leaseToken[d] # claim[w][d]
      /\ ~done[d] /\ attempts[d] = seen[w][d]

(* No two workers know the same token of a row. *)
TokensAreUnique ==
  \A d \in Delivery, v, w \in Worker :
    claim[v][d] = claim[w][d] /\ claim[v][d] # NoToken => v = w

(* A result about to be committed still has its lease in the row. *)
VerifiedHoldsLease ==
  \A w \in Worker, d \in Delivery :
    task[w][d] = "verified" => leaseToken[d] = claim[w][d]

(* Only open deliveries have a lease. *)
ClosedHasNoLease == \A d \in Delivery : Closed(d) => leaseToken[d] = NoToken

FencingInv ==
  /\ TasksFitClaims
  /\ TransactionsHoldLocks
  /\ ClaimsAreFree
  /\ TokensAreUnique
  /\ VerifiedHoldsLease
  /\ HolderSeesAttempts
  /\ ClosedHasNoLease

(* The whole inductive invariant, with what it is for: attempts stay within
   max_attempts, results are fenced and a success is one that was received. *)
DeliveryInv == TypeOK /\ FencingInv /\ SuccessWasReceived
=============================================================================
