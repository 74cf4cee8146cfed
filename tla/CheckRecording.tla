--------------------------- MODULE CheckRecording ---------------------------
(***************************************************************************)
(* What happens to a monitor, its incidents and the outbox when scheduled  *)
(* checks, manual checks, edits, deletions, maintenance windows and the    *)
(* retention job meet.  A scheduled check carries the lease of its claim,  *)
(* a manual one does not; both probe outside the row's lock and record the *)
(* result in a transaction that locks the row, reads it again and writes   *)
(* the columns it changed.  How leases are claimed, expire and are         *)
(* released is in CheckLease; here a monitor's lease is just the scheduled *)
(* check that may record.  next_check_at, what a probe looks at and the    *)
(* payload of events are left out.                                         *)
(***************************************************************************)
EXTENDS MonitorState, FiniteSets

CONSTANTS
  Monitor,    \* monitor ids
  Scheduled,  \* slots for scheduled checks, each with its claim's token
  Manual,     \* API requests that check a monitor
  Editor,     \* API requests that edit a monitor
  Incident,   \* incident ids; uuid4 is new against every id in the table
  NoOne       \* NULL

Process == Scheduled \cup Manual \cup Editor

ASSUME ProcessAssumption ==
  /\ Scheduled \cap Manual = {} /\ (Scheduled \cup Manual) \cap Editor = {}
  /\ NoOne \notin Process \cup Monitor \cup Incident
ASSUME IncidentAssumption == IsFiniteSet(Incident)

VARIABLES
  row,        \* the monitors table
  live,       \* the monitors in it
  lease,      \* the scheduled check that holds each monitor's lease
  rowLock,    \* the transaction that holds each row's FOR UPDATE lock
  window,     \* is a maintenance window of the monitor active now
  incident,   \* the incidents table
  lastEvent,  \* the outbox event written last for each monitor
  job,        \* what each check or edit is doing
  trail       \* auxiliary: the streak of results recorded for each monitor

vars == <<row, live, lease, rowLock, window, incident, lastEvent, job, trail>>

Counters == 0 .. MaxThreshold

Rows == [status : Status, fails : Counters, succs : Counters,
         failTh : Thresholds, recTh : Thresholds]

(* A job: its monitor and, once its transaction has begun, the probe's answer,
   the row as read and whether the monitor was under maintenance. *)
Jobs == [stage : {"idle", "probing", "recording", "editing"},
         monitor : Monitor \cup {NoOne}, ok : BOOLEAN,
         read : Rows \cup {NoOne}, quiet : BOOLEAN]

Idle == [stage |-> "idle", monitor |-> NoOne, ok |-> FALSE, read |-> NoOne,
         quiet |-> FALSE]

Probing(m)     == [Idle EXCEPT !.stage = "probing", !.monitor = m]
Began(p, m)    == job[p].stage \in {"recording", "editing"} /\ job[p].monitor = m

Streaks == [ok : BOOLEAN, length : Counters]
Events  == [kind : {"opened", "resolved"}, incident : Incident]
Entries == [monitor : Monitor, status : {"open", "resolved"}]
ASSUME NullAssumption == NoOne \notin Entries \cup Events

Opened(m) == [monitor |-> m, status |-> "open"]

TypeOK ==
  /\ row \in [Monitor -> Rows]
  /\ live \in SUBSET Monitor
  /\ lease \in [Monitor -> Scheduled \cup {NoOne}]
  /\ rowLock \in [Monitor -> Process \cup {NoOne}]
  /\ window \in [Monitor -> BOOLEAN]
  /\ incident \in [Incident -> Entries \cup {NoOne}]
  /\ lastEvent \in [Monitor -> Events \cup {NoOne}]
  /\ job \in [Process -> Jobs]
  /\ trail \in [Monitor -> Streaks]

(* MonitorService.create. *)
NewRow(f, r) ==
  [status |-> "pending", fails |-> 0, succs |-> 0, failTh |-> f, recTh |-> r]

Init ==
  /\ row = [m \in Monitor |-> NewRow(1, 1)]
  /\ live = {}
  /\ lease = [m \in Monitor |-> NoOne]
  /\ rowLock = [m \in Monitor |-> NoOne]
  /\ window = [m \in Monitor |-> FALSE]
  /\ incident = [i \in Incident |-> NoOne]
  /\ lastEvent = [m \in Monitor |-> NoOne]
  /\ job = [p \in Process |-> Idle]
  /\ trail = [m \in Monitor |-> [ok |-> TRUE, length |-> 0]]

-----------------------------------------------------------------------------
(* get_open_by_monitor_id. *)
OpenOf(m) == {i \in Incident : incident[i] = Opened(m)}

(* The ORM's flush writes the columns that differ from what was read. *)
Flush(m, read, new) ==
  row' = [row EXCEPT ![m] =
           [c \in DOMAIN read |-> IF new[c] # read[c] THEN new[c] ELSE @[c]]]

(* The transaction of p ends and with it what p knew. *)
Finish(p) ==
  /\ job' = [job EXCEPT ![p] = Idle]
  /\ rowLock' = [m \in Monitor |-> IF rowLock[m] = p THEN NoOne ELSE rowLock[m]]

(* release_check_lease with the token of p. *)
GiveUp(p, m) == lease' = [lease EXCEPT ![m] = IF @ = p THEN NoOne ELSE @]

-----------------------------------------------------------------------------
(* Checks. *)

(* claim_due gives p the lease of a monitor; the probe starts. *)
Claim(p, m) ==
  /\ job[p] = Idle
  /\ m \in live
  /\ lease[m] = NoOne /\ rowLock[m] = NoOne
  /\ lease' = [lease EXCEPT ![m] = p]
  /\ job' = [job EXCEPT ![p] = Probing(m)]
  /\ UNCHANGED <<row, live, rowLock, window, incident, lastEvent, trail>>

(* A manual check reads the monitor without a lock and probes it. *)
RunManual(p, m) ==
  /\ job[p] = Idle
  /\ m \in live
  /\ job' = [job EXCEPT ![p] = Probing(m)]
  /\ UNCHANGED <<row, live, lease, rowLock, window, incident, lastEvent, trail>>

MayRecord(p, m) == p \in Scheduled => lease[m] = p

(* Mutant of RecordBegin: the row is read without FOR UPDATE. *)
RecordBegin_PlainRead(p, m) ==
  /\ job[p] = Probing(m)
  /\ m \in live
  /\ MayRecord(p, m)
  /\ \E ok \in BOOLEAN : job' = [job EXCEPT ![p] =
       [@ EXCEPT !.stage = "recording", !.ok = ok, !.read = row[m],
                 !.quiet = window[m]]]
  /\ UNCHANGED <<row, live, lease, rowLock, window, incident, lastEvent, trail>>

(* The probe has answered: record locks the row, reads it and the lease, stores
   the check and looks for a maintenance window. *)
RecordBegin(p, m) ==
  /\ job[p] = Probing(m)
  /\ m \in live
  /\ rowLock[m] = NoOne
  /\ MayRecord(p, m)
  /\ rowLock' = [rowLock EXCEPT ![m] = p]
  /\ \E ok \in BOOLEAN : job' = [job EXCEPT ![p] =
       [@ EXCEPT !.stage = "recording", !.ok = ok, !.read = row[m],
                 !.quiet = window[m]]]
  /\ UNCHANGED <<row, live, lease, window, incident, lastEvent, trail>>

(* No row, or not its lease any more: the result is discarded. *)
RecordDiscard(p, m) ==
  /\ job[p] = Probing(m)
  /\ m \notin live \/ (rowLock[m] = NoOne /\ ~MayRecord(p, m))
  /\ Finish(p)
  /\ UNCHANGED <<row, live, lease, window, incident, lastEvent, trail>>

(* Under maintenance, record moves next_check_at and releases the lease. *)
RecordQuiet(p, m) ==
  /\ job[p].stage = "recording" /\ job[p].monitor = m
  /\ job[p].quiet
  /\ GiveUp(p, m)
  /\ Finish(p)
  /\ UNCHANGED <<row, live, window, incident, lastEvent, trail>>

After(p) == ApplyResult(job[p].read, job[p].ok)

(* The new incident passes the unique index on open ones, and is announced. *)
OpenIncident(m) ==
  /\ OpenOf(m) = {}
  /\ \E i \in Incident :
       /\ incident[i] = NoOne
       /\ incident' = [incident EXCEPT ![i] = Opened(m)]
       /\ lastEvent' = [lastEvent EXCEPT ![m] =
                         [kind |-> "opened", incident |-> i]]

(* Mutant of ResolveIncident: only the event is written. *)
ResolveIncident_EventOnly(m) ==
  /\ lastEvent' = [lastEvent EXCEPT ![m] =
       [kind |-> "resolved", incident |-> CHOOSE i \in OpenOf(m) : TRUE]]
  /\ UNCHANGED incident

(* Mutant of ResolveIncident: it takes an incident of m whatever its status. *)
ResolveIncident_AnyStatus(m) ==
  LET any == CHOOSE i \in Incident :
               incident[i] # NoOne /\ incident[i].monitor = m
  IN  /\ lastEvent' = [lastEvent EXCEPT ![m] =
                         [kind |-> "resolved", incident |-> any]]
      /\ incident' = [incident EXCEPT ![any] =
                        [monitor |-> m, status |-> "resolved"]]

(* The open incident, if there is one, is announced as resolved and updated. *)
ResolveIncident(m) ==
  /\ lastEvent' = [lastEvent EXCEPT ![m] =
       IF OpenOf(m) = {} THEN @
       ELSE [kind |-> "resolved", incident |-> CHOOSE i \in OpenOf(m) : TRUE]]
  /\ incident' = [i \in Incident |->
       IF OpenOf(m) # {} /\ i = CHOOSE j \in OpenOf(m) : TRUE
         THEN [monitor |-> m, status |-> "resolved"] ELSE incident[i]]

(* The streak of m after one more result. *)
Extend(streak, ok) ==
  [ok |-> ok, length |-> IF streak.ok = ok THEN More(streak.length) ELSE 1]

(* Otherwise it updates status and counters, opens or resolves an incident with
   its event and releases the lease, all in the one transaction. *)
RecordCommit(p, m) ==
  /\ job[p].stage = "recording" /\ job[p].monitor = m
  /\ ~job[p].quiet
  /\ Flush(m, job[p].read, After(p))
  /\ \/ Opens(job[p].read.status, After(p).status) /\ OpenIncident(m)
     \/ Resolves(job[p].read.status, After(p).status) /\ ResolveIncident(m)
     \/ /\ ~Opens(job[p].read.status, After(p).status)
        /\ ~Resolves(job[p].read.status, After(p).status)
        /\ UNCHANGED <<incident, lastEvent>>
  /\ GiveUp(p, m)
  /\ Finish(p)
  /\ trail' = [trail EXCEPT ![m] = Extend(@, job[p].ok)]
  /\ UNCHANGED <<live, window>>

(* A check or an edit fails, exceeds its timeout or dies: its transaction is
   rolled back.  Its lease is released by _release_claims, or left to expire. *)
Abort(p) ==
  /\ job[p] # Idle
  /\ Finish(p)
  /\ \/ UNCHANGED lease
     \/ p \in Scheduled /\ GiveUp(p, job[p].monitor)
  /\ UNCHANGED <<row, live, window, incident, lastEvent, trail>>

LeaseExpires(m) ==
  /\ lease[m] # NoOne
  /\ lease' = [lease EXCEPT ![m] = NoOne]
  /\ UNCHANGED <<row, live, rowLock, window, incident, lastEvent, job, trail>>

-----------------------------------------------------------------------------
(* Everything else that touches the tables. *)

(* A monitor's id is new: no job knows it. *)
Create(m) ==
  /\ m \notin live
  /\ \A p \in Process : job[p].monitor # m
  /\ \E f, r \in Thresholds : row' = [row EXCEPT ![m] = NewRow(f, r)]
  /\ live' = live \cup {m}
  /\ lastEvent' = [lastEvent EXCEPT ![m] = NoOne]
  /\ trail' = [trail EXCEPT ![m] = [ok |-> TRUE, length |-> 0]]
  /\ UNCHANGED <<lease, rowLock, window, incident, job>>

(* MonitorService.update locks and reads the row ... *)
EditBegin(p, m) ==
  /\ job[p] = Idle
  /\ m \in live
  /\ rowLock[m] = NoOne
  /\ rowLock' = [rowLock EXCEPT ![m] = p]
  /\ job' = [job EXCEPT ![p] =
       [Idle EXCEPT !.stage = "editing", !.monitor = m, !.read = row[m]]]
  /\ UNCHANGED <<row, live, lease, window, incident, lastEvent, trail>>

(* ... and writes the settings that were given; status and counters stay. *)
EditCommit(p, m) ==
  /\ job[p].stage = "editing" /\ job[p].monitor = m
  /\ \E f, r \in Thresholds :
       Flush(m, job[p].read, [job[p].read EXCEPT !.failTh = f, !.recTh = r])
  /\ Finish(p)
  /\ UNCHANGED <<live, lease, window, incident, lastEvent, trail>>

(* The DELETE waits for the row's lock and cascades. *)
Delete(m) ==
  /\ m \in live
  /\ rowLock[m] = NoOne
  /\ live' = live \ {m}
  /\ lease' = [lease EXCEPT ![m] = NoOne]
  /\ window' = [window EXCEPT ![m] = FALSE]
  /\ incident' = [i \in Incident |->
       IF incident[i] # NoOne /\ incident[i].monitor = m
         THEN NoOne ELSE incident[i]]
  /\ UNCHANGED <<row, rowLock, lastEvent, job, trail>>

(* A maintenance window starts or ends, or is created or deleted: none of that
   takes the monitor's lock. *)
WindowChanges(m) ==
  /\ m \in live
  /\ window' = [window EXCEPT ![m] = ~@]
  /\ UNCHANGED <<row, live, lease, rowLock, incident, lastEvent, job, trail>>

(* RetentionRepository.cleanup deletes resolved incidents. *)
Purge(i) ==
  /\ incident[i] # NoOne /\ incident[i].status = "resolved"
  /\ incident' = [incident EXCEPT ![i] = NoOne]
  /\ UNCHANGED <<row, live, lease, rowLock, window, lastEvent, job, trail>>

CheckStep(p, m) ==
  \/ p \in Scheduled /\ Claim(p, m)
  \/ p \in Manual /\ RunManual(p, m)
  \/ RecordBegin(p, m) \/ RecordDiscard(p, m)
  \/ RecordQuiet(p, m) \/ RecordCommit(p, m)

EditStep(p, m) == EditBegin(p, m) \/ EditCommit(p, m)

TableStep(m) ==
  Create(m) \/ Delete(m) \/ WindowChanges(m) \/ LeaseExpires(m)

Next ==
  \/ \E m \in Monitor : \/ \E p \in Scheduled \cup Manual : CheckStep(p, m)
                        \/ \E p \in Editor : EditStep(p, m)
                        \/ TableStep(m)
  \/ \E p \in Process : Abort(p)
  \/ \E i \in Incident : Purge(i)

Spec == Init /\ [][Next]_vars

-----------------------------------------------------------------------------
(* Properties. *)

(* A transaction that has begun writes from the row as it is: whatever checks
   and edits overlap, FOR UPDATE makes each read what the one before wrote. *)
TransactionsSeeTheRow ==
  \A p \in Process, m \in Monitor :
    Began(p, m) => m \in live /\ rowLock[m] = p /\ job[p].read = row[m]

(* A monitor is DOWN exactly while it has an open incident, and then one; a
   deleted monitor has none.  _handle_incident_transition opens and resolves by
   looking at two statuses only, so this is what it rests on. *)
DownIffOpenIncident ==
  /\ \A m \in live : row[m].status = "down" <=> OpenOf(m) # {}
  /\ \A i, j \in Incident :
       incident[i] # NoOne /\ incident[i] = incident[j]
         /\ incident[i].status = "open" => i = j
  /\ \A i \in Incident : incident[i] # NoOne => incident[i].monitor \in live

(* No recording ever runs into the unique index on open incidents: a check that
   is about to open one finds none, whoever recorded before. *)
IndexNeverRefuses ==
  \A p \in Process, m \in Monitor :
    job[p].stage = "recording" /\ job[p].monitor = m
      /\ Opens(job[p].read.status, After(p).status) => OpenOf(m) = {}

(* What has been announced is what is open: after an INCIDENT_OPENED event that
   incident is open until the event that says INCIDENT_RESOLVED of it. *)
EventsTellOpenIncident ==
  \A m \in live :
    OpenOf(m) = IF lastEvent[m] # NoOne /\ lastEvent[m].kind = "opened"
                  THEN {lastEvent[m].incident} ELSE {}

(* Opened and resolved events of a monitor alternate, and each resolution names
   the incident whose opening was announced. *)
EventsAlternate ==
  [][\A m \in live :
       lastEvent'[m] # lastEvent[m] =>
         IF lastEvent'[m].kind = "resolved"
           THEN lastEvent[m] = [lastEvent'[m] EXCEPT !.kind = "opened"]
           ELSE lastEvent[m] = NoOne \/ lastEvent[m].kind = "resolved"]_vars

(* The counters in the row are the streak of results recorded outside
   maintenance: overlapping manual and scheduled checks are all counted, and
   edits, failures and discarded results are not. *)
CountersAreExact ==
  \A m \in live :
    /\ row[m].fails = IF trail[m].ok THEN 0 ELSE trail[m].length
    /\ row[m].succs = IF trail[m].ok THEN trail[m].length ELSE 0

(* A monitor goes down only at the end of failure_threshold failures in a row,
   and recovers only at the end of recovery_threshold successes in a row, by the
   thresholds in force when the last of them is recorded. *)
TransitionsAreEarned ==
  [][\A m \in live \cap live' :
       /\ Opens(row[m].status, row'[m].status) =>
            ~trail'[m].ok /\ trail'[m].length >= row[m].failTh
       /\ Resolves(row[m].status, row'[m].status) =>
            trail'[m].ok /\ trail'[m].length >= row[m].recTh]_vars

(* What a monitor's row, its open incident and its last event amount to. *)
LifeOf(m) ==
  IF m \in live
    THEN [status |-> row[m].status, ok |-> row[m].fails = 0,
          length |-> IF row[m].fails = 0 THEN row[m].succs ELSE row[m].fails,
          failTh |-> row[m].failTh, recTh |-> row[m].recTh,
          open |-> IF OpenOf(m) = {} THEN NoOne ELSE CHOOSE i \in OpenOf(m) : TRUE,
          told |-> lastEvent[m]]
    ELSE [status |-> "gone"]

Life == INSTANCE MonitorLife WITH life <- [m \in Monitor |-> LifeOf(m)]

(* However checks, edits, deletions, maintenance and purges overlap, what they
   leave is what results, edits and deletions leave that come one at a time. *)
OneAtATime == Life!Spec

(* What record and update rest on: transactions see the row they write, and
   incidents, statuses and announcements agree in every state. *)
RecordingInv ==
  /\ TypeOK
  /\ TransactionsSeeTheRow
  /\ DownIffOpenIncident
  /\ IndexNeverRefuses
  /\ EventsTellOpenIncident
=============================================================================
