----------------------------- MODULE Statistics -----------------------------
(***************************************************************************)
(* The checks of one monitor, the cleanups that delete old ones in batches *)
(* and the statistics that are computed from those that are left.          *)
(***************************************************************************)
EXTENDS Integers, FiniteSets

CONSTANTS Cleaner,    \* scheduler processes, each with a cleanup task
          Days,       \* RETENTION_CHECKS_DAYS
          BatchSize,  \* RETENTION_BATCH_SIZE
          MaxTime     \* bound of the clock

VARIABLES now,     \* the clock of the application and the database
          check,   \* the check of each time: none, kept or deleted
          clean,   \* the rows each cleanup transaction has locked to delete
          request  \* a request for statistics and its answer

vars == <<now, check, clean, request>>

Time   == 0 .. MaxTime
Kept   == {t \in Time : check[t] = "kept"}
NoRequest == [pc |-> "none", now |-> 0, from |-> 0, to |-> 0, partial |-> FALSE]

(* The monitor is created at time 0. *)
Init ==
  /\ now = 0
  /\ check = [t \in Time |-> "none"]
  /\ clean = [c \in Cleaner |-> {}]
  /\ request = NoRequest

Tick ==
  /\ now < MaxTime
  /\ now' = now + 1
  /\ UNCHANGED <<check, clean, request>>

(* checked_at is the time of the insert; the commit may come one tick later. *)
Record(t) ==
  /\ t \in {now - 1, now} /\ check[t] = "none"
  /\ check' = [check EXCEPT ![t] = "kept"]
  /\ UNCHANGED <<now, clean, request>>

-----------------------------------------------------------------------------

Expired == {t \in Kept : t < now - Days}

Lockable == Expired \ UNION {clean[c] : c \in Cleaner}

(* ORDER BY checked_at LIMIT, FOR UPDATE SKIP LOCKED: what another cleanup has
   locked is passed over, and newer rows are taken instead. *)
CleanSelect(c) ==
  /\ clean[c] = {}
  /\ \E S \in SUBSET Lockable :
       /\ S # {} /\ Cardinality(S) <= BatchSize
       /\ Cardinality(S) < BatchSize => S = Lockable
       /\ \A a \in S, b \in Lockable \ S : a < b
       /\ clean' = [clean EXCEPT ![c] = S]
  /\ UNCHANGED <<now, check, request>>

CleanCommit(c) ==
  /\ clean[c] # {}
  /\ check' = [t \in Time |-> IF t \in clean[c] THEN "deleted" ELSE check[t]]
  /\ clean' = [clean EXCEPT ![c] = {}]
  /\ UNCHANGED <<now, request>>

(* asyncio.timeout(30), a failing statement, SIGTERM or a crash. *)
CleanAbort(c) ==
  /\ clean[c] # {}
  /\ clean' = [clean EXCEPT ![c] = {}]
  /\ UNCHANGED <<now, check, request>>

-----------------------------------------------------------------------------
InPeriod(t) == request.from <= t /\ t < request.to

(* The request reads the clock, and then the checks in one statement.  A period
   may begin before the monitor and end after now. *)
Ask ==
  /\ request.pc = "none"
  /\ \E from, to \in Time \cup {-1} :
       /\ from < to
       /\ request' = [pc |-> "asked", now |-> now, from |-> from, to |-> to,
                      partial |-> FALSE]
  /\ UNCHANGED <<now, check, clean>>

(* Mutant: history_available_from is taken for the beginning of a history
   without holes. *)
IsPartial_NoRetention ==
  \/ {t \in Kept : InPeriod(t)} = {}
  \/ \E t \in Kept : (\A u \in Kept : t <= u) /\ request.from < t
  \/ request.from < 0
  \/ request.to > request.now

(* total_checks = 0, the period begins before the monitor or the oldest check
   that is left, or before the retention window, or it is not over. *)
IsPartial ==
  \/ {t \in Kept : InPeriod(t)} = {}
  \/ \E t \in Kept : (\A u \in Kept : t <= u) /\ request.from < t
  \/ request.from < 0
  \/ request.to > request.now
  \/ request.from < request.now - Days

Answer ==
  /\ request.pc = "asked"
  /\ request' = [request EXCEPT !.pc = "answered", !.partial = IsPartial]
  /\ UNCHANGED <<now, check, clean>>

Done ==
  /\ request.pc = "answered"
  /\ request' = NoRequest
  /\ UNCHANGED <<now, check, clean>>

Next ==
  \/ Tick \/ Ask \/ Answer \/ Done
  \/ \E t \in Time : Record(t)
  \/ \E c \in Cleaner : CleanSelect(c) \/ CleanCommit(c) \/ CleanAbort(c)

Spec == Init /\ [][Next]_vars

-----------------------------------------------------------------------------
(* Statistics that are not flagged as partial leave out no check of the period
   that was deleted, although cleanups skip each other's rows and roll back, so
   that older checks may be left than those that are gone.  A request that takes
   its time may miss one that has expired since it has read the clock. *)
AnswersAreComplete ==
  [][Answer /\ ~request'.partial /\ request.now = now =>
       \A t \in Time : InPeriod(t) => check[t] # "deleted"]_vars

-----------------------------------------------------------------------------
(* The inductive invariant behind it. *)

Requests == [pc : {"none", "asked", "answered"}, now : Time, from : Time \cup {-1},
             to : Time, partial : BOOLEAN]

TypeOK ==
  /\ now \in Time
  /\ check \in [Time -> {"none", "kept", "deleted"}]
  /\ clean \in [Cleaner -> SUBSET Time]
  /\ request \in Requests

(* Only what has expired is deleted, whatever the order. *)
DeletedIsExpired ==
  /\ \A t \in Time : check[t] = "deleted" => t < now - Days
  /\ \A c \in Cleaner : \A t \in clean[c] : t < now - Days

StatisticsInv == TypeOK /\ DeletedIsExpired
=============================================================================
