---------------------------- MODULE OutboxFanout ----------------------------
(***************************************************************************)
(* The life of outbox events and of the delivery rows made from them: the  *)
(* fan-out transactions of the notification workers, the API transactions  *)
(* on destinations, and the cleanup that every scheduler process runs.     *)
(* Transactions are READ COMMITTED: each statement sees what is committed  *)
(* when it starts.  The sending itself is the module NotificationDelivery. *)
(***************************************************************************)
EXTENDS Integers, FiniteSets, FiniteSetsExt

CONSTANTS Event,        \* events, numbered in the order of created_at
          Destination,  \* destinations of the organization
          Worker,       \* notification worker processes
          Cleaner,      \* scheduler processes, each with a cleanup task
          BatchSize,    \* events per fan-out transaction
          PurgeSize,    \* RETENTION_BATCH_SIZE: rows per table and pass
          MaxEdits,     \* bound: API transactions on destinations
          MaxFaults     \* bound: transactions that time out or are killed

ASSUME EventAssumption == Event \subseteq Nat /\ IsFiniteSet(Event)
ASSUME LimitAssumption == BatchSize \in Nat \ {0} /\ PurgeSize \in Nat \ {0}
ASSUME BoundAssumption == MaxEdits \in Nat /\ MaxFaults \in Nat

(* An event is written by a recorded check, fanned out, older than the
   retention period, and purged.  A delivery row is pending (claimed or not),
   and then done, or failed (max_attempts are used up); done rows grow old and
   are purged, and any row is dropped with its destination. *)
EventStates == {"none", "new", "fanned", "old", "purged"}
RowStates   == {"none", "pending", "done", "failed", "old", "purged", "dropped"}
DestStates  == {"none", "enabled", "disabled", "deleted"}
Present     == {"pending", "done", "failed", "old"}

VARIABLES event,   \* outbox_events: the state of each event
          row,     \* notification_deliveries, by event and destination
          dest,    \* notification_destinations: the state of each
          fan,     \* what the fan-out transaction of each worker holds
          purge,   \* what the cleanup transaction of each cleaner holds
          seen,    \* history: was a destination enabled while an event was new
          edits,   \* API transactions on destinations so far
          faults   \* transactions that have been rolled back so far

vars == <<event, row, dest, fan, purge, seen, edits, faults>>

Keys      == Event \X Destination
Row(k)    == row[k[1]][k[2]]
Enabled   == {d \in Destination : dest[d] = "enabled"}
Fans      == [pc : {"idle", "next", "insert"}, batch : SUBSET Event,
              left : SUBSET Event, todo : SUBSET Destination, rows : SUBSET Keys]
Purges    == [pc : {"idle", "events", "commit"}, rows : SUBSET Keys,
              events : SUBSET Event]
NoFan     == [pc |-> "idle", batch |-> {}, left |-> {}, todo |-> {}, rows |-> {}]
NoPurge   == [pc |-> "idle", rows |-> {}, events |-> {}]

Unseen    == [d \in Destination |-> {}]

Init ==
  /\ event  = [e \in Event |-> "none"]
  /\ row    = [e \in Event |-> [d \in Destination |-> "none"]]
  /\ dest   \in [Destination -> {"none", "enabled", "disabled"}]
  /\ fan    = [w \in Worker |-> NoFan]
  /\ purge  = [c \in Cleaner |-> NoPurge]
  /\ seen   = [e \in Event |-> Unseen]
  /\ edits  = 0
  /\ faults = 0

-----------------------------------------------------------------------------
(* Events and destinations. *)

(* What the new events see of the destinations, which are about to be ds. *)
Watch(ds) ==
  seen' = [e \in Event |-> [d \in Destination |->
             IF event[e] = "new" THEN seen[e][d] \cup {ds[d] = "enabled"}
                                 ELSE seen[e][d]]]

(* A recording commits with its event.  created_at is the time of the check:
   events do not become visible in its order. *)
CreateEvent(e) ==
  /\ event[e] = "none"
  /\ event' = [event EXCEPT ![e] = "new"]
  /\ seen' = [seen EXCEPT ![e] =
                [d \in Destination |-> {dest[d] = "enabled"}]]
  /\ UNCHANGED <<row, dest, fan, purge, edits, faults>>

(* A destination is created, enabled or disabled. *)
PutDestination(d, state) ==
  /\ dest[d] \notin {"deleted", state} /\ edits < MaxEdits
  /\ edits' = edits + 1
  /\ dest' = [dest EXCEPT ![d] = state]
  /\ Watch(dest')
  /\ UNCHANGED <<event, row, fan, purge, faults>>

(* The uncommitted rows of a fan-out hold KEY SHARE locks on their destination
   and a cleanup holds its rows: a deletion waits for both. *)
Referenced(d) ==
  \/ \E w \in Worker : \E k \in fan[w].rows : k[2] = d
  \/ \E c \in Cleaner : \E k \in purge[c].rows : k[2] = d

(* Deletion cascades to the rows of the destination. *)
DeleteDestination(d) ==
  /\ dest[d] \in {"enabled", "disabled"} /\ edits < MaxEdits
  /\ edits' = edits + 1
  /\ ~Referenced(d)
  /\ dest' = [dest EXCEPT ![d] = "deleted"]
  /\ row' = [e \in Event |-> IF row[e][d] \in Present
                               THEN [row[e] EXCEPT ![d] = "dropped"] ELSE row[e]]
  /\ Watch(dest')
  /\ UNCHANGED <<event, fan, purge, faults>>

-----------------------------------------------------------------------------
(* A fan-out: one transaction for a batch of events. *)

(* Mutants: without processed_at IS NULL; without FOR UPDATE SKIP LOCKED. *)
Claimable_Processed(e) ==
  /\ event[e] \in {"new", "fanned", "old"}
  /\ \A w \in Worker : e \notin fan[w].batch

Claimable_Unlocked(e) == event[e] = "new"

Claimable(e) ==
  /\ event[e] = "new"
  /\ \A w \in Worker : e \notin fan[w].batch

(* ORDER BY created_at LIMIT: the batch holds the oldest ones. *)
IsBatch(S, candidates, limit) ==
  /\ S \subseteq candidates /\ S # {}
  /\ Cardinality(S) <= limit
  /\ Cardinality(S) < limit => S = candidates
  /\ \A x \in S, y \in candidates \ S : x < y

ClaimEvents(w) ==
  /\ fan[w].pc = "idle"
  /\ \E S \in SUBSET Event :
       /\ IsBatch(S, {e \in Event : Claimable(e)}, BatchSize)
       /\ fan' = [fan EXCEPT ![w] = [NoFan EXCEPT !.pc = "next",
                                                  !.batch = S, !.left = S]]
  /\ UNCHANGED <<event, row, dest, purge, seen, edits, faults>>

Current(w) == CHOOSE e \in fan[w].left : \A f \in fan[w].left : e <= f

GetEnabled(w) ==
  /\ fan[w].pc = "next" /\ fan[w].left # {}
  /\ fan' = [fan EXCEPT ![w].pc = "insert", ![w].todo = Enabled]
  /\ UNCHANGED <<event, row, dest, purge, seen, edits, faults>>

(* create_if_missing: the foreign key waits for nobody but a deletion. *)
Insert(w, d) ==
  /\ fan[w].pc = "insert" /\ d \in fan[w].todo
  /\ dest[d] # "deleted"
  /\ fan' = [fan EXCEPT ![w].todo = @ \ {d},
                        ![w].rows = @ \cup {<<Current(w), d>>}]
  /\ UNCHANGED <<event, row, dest, purge, seen, edits, faults>>

MarkProcessed(w) ==
  /\ fan[w].pc = "insert" /\ fan[w].todo = {}
  /\ fan' = [fan EXCEPT ![w].pc = "next", ![w].left = @ \ {Current(w)}]
  /\ UNCHANGED <<event, row, dest, purge, seen, edits, faults>>

(* ON CONFLICT DO NOTHING keeps a row that is there. *)
FanOutCommit(w) ==
  /\ fan[w].pc = "next" /\ fan[w].left = {}
  /\ event' = [e \in Event |-> IF e \in fan[w].batch THEN "fanned" ELSE event[e]]
  /\ row' = [e \in Event |-> [d \in Destination |->
               IF <<e, d>> \in fan[w].rows /\ row[e][d] \notin Present
                 THEN "pending" ELSE row[e][d]]]
  /\ fan' = [fan EXCEPT ![w] = NoFan]
  /\ seen' = [e \in Event |-> IF e \in fan[w].batch THEN Unseen ELSE seen[e]]
  /\ UNCHANGED <<dest, purge, edits, faults>>

(* The insert fails on a destination that is no more: the whole batch is rolled
   back and tried again in the next cycle. *)
ForeignKeyFails(w) ==
  /\ fan[w].pc = "insert"
  /\ \E d \in fan[w].todo : dest[d] = "deleted"
  /\ fan' = [fan EXCEPT ![w] = NoFan]
  /\ UNCHANGED <<event, row, dest, purge, seen, edits, faults>>

(* Mutants: a connection that stays open keeps its locks; processed_at is
   committed before the deliveries are. *)
FanOutAborts_Held(w) ==
  /\ fan[w].pc # "idle" /\ faults < MaxFaults
  /\ fan' = [fan EXCEPT ![w].pc = "hung"]
  /\ faults' = faults + 1
  /\ UNCHANGED <<event, row, dest, purge, seen, edits>>

FanOutAborts_Marked(w) ==
  /\ fan[w].pc # "idle" /\ faults < MaxFaults
  /\ event' = [e \in Event |->
       IF e \in fan[w].batch \ fan[w].left THEN "fanned" ELSE event[e]]
  /\ fan' = [fan EXCEPT ![w] = NoFan]
  /\ faults' = faults + 1
  /\ UNCHANGED <<row, dest, purge, seen, edits>>

(* database_timeout_seconds, SIGTERM or a crash. *)
FanOutAborts(w) ==
  /\ fan[w].pc # "idle" /\ faults < MaxFaults
  /\ fan' = [fan EXCEPT ![w] = NoFan]
  /\ faults' = faults + 1
  /\ UNCHANGED <<event, row, dest, purge, seen, edits>>

-----------------------------------------------------------------------------
(* The rows, whose claims and retries are those of NotificationDelivery: a
   send succeeds, or the last attempt has failed. *)

Deliver(k) ==
  /\ Row(k) = "pending"
  /\ \E outcome \in {"done", "failed"} :
       row' = [row EXCEPT ![k[1]][k[2]] = outcome]
  /\ UNCHANGED <<event, dest, fan, purge, seen, edits, faults>>

(* processed_at falls behind the cutoff. *)
RowAges(k) ==
  /\ Row(k) = "done"
  /\ row' = [row EXCEPT ![k[1]][k[2]] = "old"]
  /\ UNCHANGED <<event, dest, fan, purge, seen, edits, faults>>

EventAges(e) ==
  /\ event[e] = "fanned"
  /\ event' = [event EXCEPT ![e] = "old"]
  /\ UNCHANGED <<row, dest, fan, purge, seen, edits, faults>>

-----------------------------------------------------------------------------
(* A cleanup: one transaction, deliveries first and then events.  It takes    *)
(* the oldest of the candidates; which ones does not matter here.             *)

(* Mutant: one row less than the limit. *)
IsPurge_Short(S, candidates) ==
  S \subseteq candidates /\ Cardinality(S) = Min({PurgeSize - 1, Cardinality(candidates)})

IsPurge(S, candidates) ==
  S \subseteq candidates /\ Cardinality(S) = Min({PurgeSize, Cardinality(candidates)})

OldRows == {k \in Keys : Row(k) = "old" /\ event[k[1]] \in {"fanned", "old"}}

PurgeRows(c) ==
  /\ purge[c].pc = "idle"
  /\ \E S \in SUBSET {k \in OldRows : \A o \in Cleaner : k \notin purge[o].rows} :
       /\ IsPurge(S, {k \in OldRows : \A o \in Cleaner : k \notin purge[o].rows})
       /\ purge' = [purge EXCEPT ![c].pc = "events", ![c].rows = S]
  /\ UNCHANGED <<event, row, dest, fan, seen, edits, faults>>

(* Mutant: a row that failed for good does not count. *)
Bare_Failed(c, e) ==
  \A d \in Destination :
    row[e][d] \in Present \ {"failed"} => <<e, d>> \in purge[c].rows

(* No delivery of the event is left but those this transaction has deleted. *)
Bare(c, e) ==
  \A d \in Destination : row[e][d] \in Present => <<e, d>> \in purge[c].rows

OldEvents(c) ==
  {e \in Event : event[e] = "old" /\ Bare(c, e)
                 /\ \A o \in Cleaner : e \notin purge[o].events}

PurgeEvents(c) ==
  /\ purge[c].pc = "events"
  /\ \E S \in SUBSET OldEvents(c) :
       /\ IsPurge(S, OldEvents(c))
       /\ purge' = [purge EXCEPT ![c].pc = "commit", ![c].events = S]
  /\ UNCHANGED <<event, row, dest, fan, seen, edits, faults>>

(* Deleting an event cascades to whatever deliveries it has. *)
PurgeCommit(c) ==
  /\ purge[c].pc = "commit"
  /\ event' = [e \in Event |-> IF e \in purge[c].events THEN "purged" ELSE event[e]]
  /\ row' = [e \in Event |-> [d \in Destination |->
       IF \/ <<e, d>> \in purge[c].rows
          \/ e \in purge[c].events /\ row[e][d] \in Present
         THEN "purged" ELSE row[e][d]]]
  /\ purge' = [purge EXCEPT ![c] = NoPurge]
  /\ UNCHANGED <<dest, fan, seen, edits, faults>>

(* asyncio.timeout(30), SIGTERM or a crash. *)
PurgeAborts(c) ==
  /\ purge[c].pc # "idle" /\ faults < MaxFaults
  /\ purge' = [purge EXCEPT ![c] = NoPurge]
  /\ faults' = faults + 1
  /\ UNCHANGED <<event, row, dest, fan, seen, edits>>

-----------------------------------------------------------------------------
FanOutStep(w) ==
  \/ ClaimEvents(w) \/ GetEnabled(w) \/ MarkProcessed(w) \/ FanOutCommit(w)
  \/ ForeignKeyFails(w)
  \/ \E d \in Destination : Insert(w, d)

PurgeStep(c) == PurgeRows(c) \/ PurgeEvents(c) \/ PurgeCommit(c)

Aging == (\E e \in Event : EventAges(e)) \/ (\E k \in Keys : RowAges(k))

ApiStep ==
  \E d \in Destination :
    \/ \E state \in {"enabled", "disabled"} : PutDestination(d, state)
    \/ DeleteDestination(d)

Next ==
  \/ \E e \in Event : CreateEvent(e)
  \/ ApiStep
  \/ \E w \in Worker : FanOutStep(w) \/ FanOutAborts(w)
  \/ \E k \in Keys : Deliver(k)
  \/ Aging
  \/ \E c \in Cleaner : PurgeStep(c) \/ PurgeAborts(c)

Spec == Init /\ [][Next]_vars

(* Some worker goes on, every cleaner does, and time passes. *)
FairSpec ==
  /\ Spec
  /\ WF_vars(\E w \in Worker : FanOutStep(w))
  /\ \A c \in Cleaner : WF_vars(PurgeStep(c))
  /\ WF_vars(Aging)

-----------------------------------------------------------------------------
TypeOK ==
  /\ event \in [Event -> EventStates]
  /\ row \in [Event -> [Destination -> RowStates]]
  /\ dest \in [Destination -> DestStates]
  /\ fan \in [Worker -> Fans]
  /\ purge \in [Cleaner -> Purges]
  /\ seen \in [Event -> [Destination -> SUBSET BOOLEAN]]
  /\ edits \in 0 .. MaxEdits
  /\ faults \in 0 .. MaxFaults

Processed(e) == event[e] \notin {"none", "new"}

(* The fan-out of w has come past destination d of event e. *)
Passed(w, e, d) ==
  \/ e \notin fan[w].left
  \/ fan[w].pc = "insert" /\ e = Current(w) /\ d \notin fan[w].todo

(* A fan-out holds events that nobody else holds or has processed, and has
   inserted exactly one row for each destination it has come past: none for a
   destination that was disabled all along, one for each that was enabled. *)
Faithful(w) ==
  /\ fan[w].left \subseteq fan[w].batch
  /\ fan[w].rows \subseteq fan[w].batch \X Destination
  /\ fan[w].pc = "idle" => fan[w] = NoFan
  /\ fan[w].pc = "insert" => fan[w].left # {}
  /\ fan[w].pc = "next" => fan[w].todo = {}
  /\ \A e \in fan[w].batch :
       event[e] = "new" /\ \A v \in Worker \ {w} : e \notin fan[v].batch
  /\ \A d \in fan[w].todo : TRUE \in seen[Current(w)][d]
  /\ \A k \in fan[w].rows : TRUE \in seen[k[1]][k[2]]
  /\ \A e \in fan[w].batch, d \in Destination :
       Passed(w, e, d) /\ seen[e][d] = {TRUE} => <<e, d>> \in fan[w].rows

NewEventsAreWatched ==
  \A e \in Event, d \in Destination : ~Processed(e) =>
    /\ row[e][d] = "none"
    /\ event[e] = "new" => (dest[d] = "enabled") \in seen[e][d]

(* What a cleanup has selected stays as it was selected: its rows are old, and
   its events have no rows but those it deletes. *)
HoldsOld(c) ==
  /\ purge[c].pc = "idle" => purge[c] = NoPurge
  /\ purge[c].pc = "events" => purge[c].events = {}
  /\ \A k \in purge[c].rows :
       Row(k) = "old" /\ \A o \in Cleaner \ {c} : k \notin purge[o].rows
  /\ \A e \in purge[c].events :
       /\ event[e] = "old" /\ Bare(c, e)
       /\ \A o \in Cleaner \ {c} : e \notin purge[o].events

(* The inductive invariant of the proofs: transactions that overlap do not
   share rows, and what a transaction has read still holds when it commits. *)
OutboxInv ==
  /\ TypeOK /\ NewEventsAreWatched
  /\ \A w \in Worker : Faithful(w)
  /\ \A c \in Cleaner : HoldsOld(c)

(* When an event has been processed, it has a delivery for every destination
   that was enabled as long as the event was waiting, and none for one that
   never was, whatever was rolled back in between (fan_out marks the event in
   the transaction that creates the deliveries). *)
FanOutReachesEnabled ==
  [][\A e \in Event, d \in Destination : event[e] = "new" /\ event'[e] # "new" =>
       /\ seen[e][d] = {TRUE}  => row'[e][d] = "pending"
       /\ seen[e][d] = {FALSE} => row'[e][d] = "none"]_vars

(* No event reaches a destination a second time: a delivery that has ended, or
   that the cleanup has removed, never comes back. *)
NoSecondDelivery ==
  [][\A e \in Event, d \in Destination :
       row[e][d] \notin {"none", "pending"} =>
         row'[e][d] \notin {"none", "pending"}]_vars

(* "Pending notifications and deliveries still being processed are kept": the
   cleanup and its cascades take nothing but completed deliveries older than
   the retention period, and no event that was not fanned out. *)
CleanupSparesUnfinished ==
  [][/\ \A k \in Keys : Row(k) # "old" => Row(k)' # "purged" \/ Row(k) = "purged"
     /\ \A e \in Event : event'[e] = "purged" => event[e] \in {"old", "purged"}]_vars

(* Every event is fanned out, although batches fail and processes crash. *)
EventIsFannedOut == \A e \in Event : event[e] = "new" ~> Processed(e)

(* Once all its deliveries are completed or dropped, an event is removed. *)
CompletedIsPurged ==
  \A e \in Event :
    Processed(e) /\ (\A d \in Destination :
                       row[e][d] \notin {"pending", "failed"})
      ~> event[e] = "purged"
=============================================================================
