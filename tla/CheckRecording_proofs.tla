------------------------ MODULE CheckRecording_proofs ------------------------
(***************************************************************************)
(* Proofs about CheckRecording, for any number of monitors, checks, edits  *)
(* and incidents and any bound on the thresholds.  Everything rests on     *)
(* Base: because of FOR UPDATE, a transaction that has begun still sees    *)
(* its row as it is.  On top of it, Announced is the agreement between a   *)
(* monitor's status, its open incident and the last event in the outbox.   *)
(***************************************************************************)
EXTENDS CheckRecording, TLAPS

Base == TypeOK /\ TransactionsSeeTheRow

-----------------------------------------------------------------------------
(* One recorded result. *)

LEMMA MoreType == ASSUME NEW n \in Counters PROVE More(n) \in Counters
BY ThresholdAssumption DEF More, Counters

LEMMA StatusType ==
  ASSUME NEW r \in Rows, NEW n
  PROVE  AfterSuccess(r, n) \in Status /\ AfterFailure(r, n) \in Status
BY DEF Rows, AfterSuccess, AfterFailure, Status

(* A result leaves a row a row. *)
LEMMA ApplyType ==
  ASSUME NEW r \in Rows, NEW ok \in BOOLEAN
  PROVE  ApplyResult(r, ok) \in Rows
<1> DEFINE up    == AfterSuccess(r, More(r.succs))
           down  == AfterFailure(r, More(r.fails))
           succs == More(r.succs)
           fails == More(r.fails)
<1>1. up \in Status /\ down \in Status
  BY StatusType
<1>2. succs \in Counters /\ fails \in Counters
  BY MoreType DEF Rows
<1>3. 0 \in Counters
  BY ThresholdAssumption DEF Counters
<1>4. ApplyResult(r, ok) =
        IF r.status = "paused" THEN r
        ELSE IF ok THEN [r EXCEPT !.status = up, !.fails = 0, !.succs = succs]
                   ELSE [r EXCEPT !.status = down, !.fails = fails, !.succs = 0]
  BY DEF ApplyResult
<1> HIDE DEF up, down, succs, fails
<1> QED
  BY <1>1, <1>2, <1>3, <1>4 DEF Rows

LEMMA NewRowType ==
  ASSUME NEW f \in Thresholds, NEW r \in Thresholds
  PROVE  NewRow(f, r) \in Rows
BY ThresholdAssumption DEF NewRow, Rows, Status, Counters

(* A flush onto the row as it was read leaves the new row. *)
LEMMA FlushOnRead ==
  ASSUME NEW m \in Monitor, NEW new \in Rows, row \in [Monitor -> Rows],
         Flush(m, row[m], new)
  PROVE  row' = [row EXCEPT ![m] = new]
<1> DEFINE old == row[m]
<1>1. old \in Rows
  OBVIOUS
<1>2. DOMAIN old = DOMAIN new
  BY <1>1 DEF Rows
<1>3. new = [c \in DOMAIN new |-> new[c]]
  BY DEF Rows
<1>4. ASSUME NEW c PROVE (IF new[c] # old[c] THEN new[c] ELSE old[c]) = new[c]
  BY Zenon
<1>5. row' = [row EXCEPT ![m] =
         [c \in DOMAIN old |-> IF new[c] # old[c] THEN new[c] ELSE old[c]]]
  BY Zenon DEF Flush
<1>6. [c \in DOMAIN old |-> IF new[c] # old[c] THEN new[c] ELSE old[c]]
        = [c \in DOMAIN old |-> new[c]]
  BY <1>4, Zenon
<1> QED
  BY <1>2, <1>3, <1>5, <1>6, Zenon

-----------------------------------------------------------------------------
(* Transactions see the row. *)

(* What each commit writes, once it is known to write from the row as it is. *)
LEMMA CommitWrites ==
  ASSUME Base, NEW p \in Process, NEW m \in Monitor, RecordCommit(p, m)
  PROVE  /\ job[p].read = row[m] /\ m \in live /\ rowLock[m] = p
         /\ job[p].ok \in BOOLEAN
         /\ After(p) = ApplyResult(row[m], job[p].ok)
         /\ row' = [row EXCEPT ![m] = ApplyResult(row[m], job[p].ok)]
<1>1. job[p].read = row[m] /\ m \in live /\ rowLock[m] = p
  BY DEF Base, TransactionsSeeTheRow, Began, RecordCommit
<1>2. job[p].ok \in BOOLEAN
  BY DEF Base, TypeOK, Jobs
<1>3. After(p) = ApplyResult(row[m], job[p].ok)
  BY <1>1 DEF After
<1>4. row \in [Monitor -> Rows]
  BY DEF Base, TypeOK
<1>5. ApplyResult(row[m], job[p].ok) \in Rows
  BY <1>2, <1>4, ApplyType
<1>6. Flush(m, row[m], ApplyResult(row[m], job[p].ok))
  BY <1>1, <1>3 DEF RecordCommit
<1> QED
  BY <1>1, <1>2, <1>3, <1>4, <1>5, <1>6, FlushOnRead

LEMMA EditWrites ==
  ASSUME Base, NEW p \in Process, NEW m \in Monitor, EditCommit(p, m)
  PROVE  /\ job[p].read = row[m] /\ m \in live /\ rowLock[m] = p
         /\ \E f, r \in Thresholds :
              row' = [row EXCEPT ![m] = [row[m] EXCEPT !.failTh = f, !.recTh = r]]
<1>1. job[p].read = row[m] /\ m \in live /\ rowLock[m] = p
  BY DEF Base, TransactionsSeeTheRow, Began, EditCommit
<1>2. PICK f \in Thresholds, r \in Thresholds :
        Flush(m, row[m], [row[m] EXCEPT !.failTh = f, !.recTh = r])
  BY <1>1 DEF EditCommit
<1>3. row \in [Monitor -> Rows]
  BY DEF Base, TypeOK
<1> DEFINE new == [row[m] EXCEPT !.failTh = f, !.recTh = r]
<1>4. new \in Rows
  BY <1>3 DEF Rows
<1>5. row' = [row EXCEPT ![m] = new]
  <2> HIDE DEF new
  <2> QED
    BY <1>2, <1>3, <1>4, FlushOnRead DEF new
<1> QED
  BY <1>1, <1>5

-----------------------------------------------------------------------------
(* The case split used by every step proof. *)
LEMMA StepCases ==
  ASSUME Next
  PROVE  \/ \E p \in Process, m \in Monitor :
              \/ p \in Scheduled /\ Claim(p, m)
              \/ p \in Manual /\ RunManual(p, m)
              \/ RecordBegin(p, m) \/ RecordDiscard(p, m)
              \/ RecordQuiet(p, m) \/ RecordCommit(p, m)
              \/ EditBegin(p, m) \/ EditCommit(p, m)
         \/ \E m \in Monitor : TableStep(m)
         \/ \E p \in Process : Abort(p)
         \/ \E i \in Incident : Purge(i)
BY DEF Next, CheckStep, EditStep, Process

LEMMA IdleType == Idle \in Jobs /\ Idle.monitor = NoOne /\ Idle.stage = "idle"
BY DEF Idle, Jobs

LEMMA ProbingType ==
  ASSUME NEW m \in Monitor
  PROVE  Probing(m) \in Jobs /\ Probing(m).stage = "probing"
BY DEF Probing, Idle, Jobs

LEMMA InitBase == Init => Base
<1> SUFFICES ASSUME Init PROVE Base
  OBVIOUS
<1>1. NewRow(1, 1) \in Rows
  BY NewRowType, ThresholdAssumption DEF Thresholds
<1>2. [ok |-> TRUE, length |-> 0] \in Streaks
  BY ThresholdAssumption DEF Streaks, Counters
<1>3. TypeOK
  BY <1>1, <1>2, IdleType DEF Init, TypeOK
<1>4. TransactionsSeeTheRow
  BY IdleType DEF Init, TransactionsSeeTheRow, Began
<1> QED
  BY <1>3, <1>4 DEF Base

LEMMA TypeStep == Base /\ [Next]_vars => TypeOK'
<1> SUFFICES ASSUME Base, [Next]_vars PROVE TypeOK'
  OBVIOUS
<1> USE DEF TypeOK
<1>0. TypeOK
  BY DEF Base
<1>1. CASE UNCHANGED vars
  BY <1>0, <1>1 DEF vars
<1>2. ASSUME NEW p \in Scheduled, NEW m \in Monitor, Claim(p, m) PROVE TypeOK'
  BY <1>0, <1>2, ProbingType DEF Claim
<1>3. ASSUME NEW p \in Manual, NEW m \in Monitor, RunManual(p, m) PROVE TypeOK'
  BY <1>0, <1>3, ProbingType DEF RunManual
<1>4. ASSUME NEW p \in Process, NEW m \in Monitor, RecordBegin(p, m)
      PROVE TypeOK'
  <2>1. PICK ok \in BOOLEAN : job' = [job EXCEPT ![p] =
          [@ EXCEPT !.stage = "recording", !.ok = ok, !.read = row[m],
                    !.quiet = window[m]]]
    BY <1>4 DEF RecordBegin
  <2>2. [job[p] EXCEPT !.stage = "recording", !.ok = ok, !.read = row[m],
                       !.quiet = window[m]] \in Jobs
    BY <1>0 DEF Jobs
  <2>3. job' \in [Process -> Jobs]
    BY <1>0, <2>1, <2>2
  <2> QED
    BY <1>0, <1>4, <2>3 DEF RecordBegin
<1>5. ASSUME NEW p \in Process, NEW m \in Monitor, RecordDiscard(p, m)
      PROVE TypeOK'
  BY <1>0, <1>5, IdleType DEF RecordDiscard, Finish
<1>6. ASSUME NEW p \in Process, NEW m \in Monitor, RecordQuiet(p, m)
      PROVE TypeOK'
  BY <1>0, <1>6, IdleType DEF RecordQuiet, Finish, GiveUp
<1>7. ASSUME NEW p \in Process, NEW m \in Monitor, RecordCommit(p, m)
      PROVE TypeOK'
  <2>1. row' \in [Monitor -> Rows]
    <3>1. /\ job[p].ok \in BOOLEAN
          /\ row' = [row EXCEPT ![m] = ApplyResult(row[m], job[p].ok)]
      BY <1>7, CommitWrites
    <3>2. ApplyResult(row[m], job[p].ok) \in Rows
      BY <1>0, <3>1, ApplyType
    <3> QED
      BY <1>0, <3>1, <3>2
  <2>2. /\ lease' \in [Monitor -> Scheduled \cup {NoOne}]
        /\ rowLock' \in [Monitor -> Process \cup {NoOne}]
        /\ job' \in [Process -> Jobs]
        /\ live' \in SUBSET Monitor /\ window' \in [Monitor -> BOOLEAN]
    BY <1>0, <1>7, IdleType DEF RecordCommit, Finish, GiveUp
  <2>3. trail' \in [Monitor -> Streaks]
    <3>1. Extend(trail[m], job[p].ok) \in Streaks
      <4>1. 1 \in Counters
        BY ThresholdAssumption DEF Counters
      <4>2. job[p].ok \in BOOLEAN
        BY <1>0 DEF Jobs
      <4>3. trail[m].length \in Counters
        BY <1>0 DEF Streaks
      <4> QED
        BY <4>1, <4>2, <4>3, MoreType DEF Extend, Streaks
    <3> QED
      BY <1>0, <1>7, <3>1 DEF RecordCommit
  <2>4. /\ incident' \in [Incident -> Entries \cup {NoOne}]
        /\ lastEvent' \in [Monitor -> Events \cup {NoOne}]
    <3>1. CASE UNCHANGED <<incident, lastEvent>>
      BY <1>0, <3>1
    <3>2. CASE OpenIncident(m)
      BY <1>0, <3>2 DEF OpenIncident, Opened, Entries, Events
    <3>3. CASE ResolveIncident(m)
      <4>1. OpenOf(m) # {} => (CHOOSE i \in OpenOf(m) : TRUE) \in Incident
        BY DEF OpenOf
      <4> QED
        BY <1>0, <3>3, <4>1 DEF ResolveIncident, Entries, Events
    <3> QED
      BY <1>7, <3>1, <3>2, <3>3 DEF RecordCommit
  <2> QED
    BY <2>1, <2>2, <2>3, <2>4
<1>8. ASSUME NEW p \in Process, NEW m \in Monitor, EditBegin(p, m)
      PROVE TypeOK'
  <2>1. [Idle EXCEPT !.stage = "editing", !.monitor = m, !.read = row[m]]
          \in Jobs
    BY <1>0 DEF Idle, Jobs
  <2> QED
    BY <1>0, <1>8, <2>1 DEF EditBegin
<1>9. ASSUME NEW p \in Process, NEW m \in Monitor, EditCommit(p, m)
      PROVE TypeOK'
  <2>1. row' \in [Monitor -> Rows]
    <3>1. PICK f \in Thresholds, r \in Thresholds :
            row' = [row EXCEPT ![m] = [row[m] EXCEPT !.failTh = f, !.recTh = r]]
      BY <1>9, EditWrites
    <3>2. [row[m] EXCEPT !.failTh = f, !.recTh = r] \in Rows
      BY <1>0 DEF Rows
    <3> QED
      BY <1>0, <3>1, <3>2
  <2> QED
    BY <1>0, <1>9, <2>1, IdleType DEF EditCommit, Finish
<1>10. ASSUME NEW m \in Monitor, TableStep(m) PROVE TypeOK'
  <2>1. CASE Create(m)
    <3>1. [ok |-> TRUE, length |-> 0] \in Streaks
      BY ThresholdAssumption DEF Streaks, Counters
    <3> QED
      BY <1>0, <2>1, <3>1, NewRowType DEF Create
  <2>2. CASE Delete(m)
    BY <1>0, <2>2 DEF Delete
  <2>3. CASE WindowChanges(m)
    BY <1>0, <2>3 DEF WindowChanges
  <2>4. CASE LeaseExpires(m)
    BY <1>0, <2>4 DEF LeaseExpires
  <2> QED
    BY <1>10, <2>1, <2>2, <2>3, <2>4 DEF TableStep
<1>11. ASSUME NEW p \in Process, Abort(p) PROVE TypeOK'
  BY <1>0, <1>11, IdleType DEF Abort, Finish, GiveUp
<1>12. ASSUME NEW i \in Incident, Purge(i) PROVE TypeOK'
  BY <1>0, <1>12 DEF Purge
<1> QED
  BY <1>1, <1>2, <1>3, <1>4, <1>5, <1>6, <1>7, <1>8, <1>9, <1>10, <1>11, <1>12,
     StepCases

(* A transaction that ends leaves every other one as it was. *)
LEMMA FinishKeeps ==
  ASSUME NEW p \in Process, Finish(p), NEW q \in Process, NEW m \in Monitor,
         TypeOK, Began(q, m)'
  PROVE  q # p /\ Began(q, m) /\ job'[q] = job[q]
         /\ (rowLock[m] = q => rowLock'[m] = q)
<1>1. job' = [job EXCEPT ![p] = Idle]
  BY DEF Finish
<1>2. q # p /\ job'[q] = job[q]
  BY <1>1, IdleType DEF TypeOK, Began
<1> QED
  BY <1>2 DEF Finish, Began

LEMMA SeeStep == Base /\ [Next]_vars => TransactionsSeeTheRow'
<1> SUFFICES ASSUME Base, [Next]_vars,
                    NEW q \in Process, NEW n \in Monitor, Began(q, n)'
             PROVE  n \in live' /\ rowLock'[n] = q /\ job'[q].read = row'[n]
  BY DEF TransactionsSeeTheRow, Began
<1> DEFINE Seen == n \in live' /\ rowLock'[n] = q /\ job'[q].read = row'[n]
<1>0. TypeOK /\ (Began(q, n) =>
        n \in live /\ rowLock[n] = q /\ job[q].read = row[n])
  BY DEF Base, TransactionsSeeTheRow
<1>N. NoOne \notin Process \cup Monitor
  BY ProcessAssumption
<1>1. CASE UNCHANGED vars
  BY <1>0, <1>1 DEF vars, Began
<1>2. ASSUME NEW p \in Scheduled, NEW m \in Monitor, Claim(p, m) PROVE Seen
  BY <1>0, <1>2, ProbingType DEF Claim, Began, TypeOK
<1>3. ASSUME NEW p \in Manual, NEW m \in Monitor, RunManual(p, m) PROVE Seen
  BY <1>0, <1>3, ProbingType DEF RunManual, Began, TypeOK
<1>4. ASSUME NEW p \in Process, NEW m \in Monitor, RecordBegin(p, m)
      PROVE Seen
  <2>1. PICK ok \in BOOLEAN : job' = [job EXCEPT ![p] =
          [@ EXCEPT !.stage = "recording", !.ok = ok, !.read = row[m],
                    !.quiet = window[m]]]
    BY <1>4 DEF RecordBegin
  <2>2. job[p] = Probing(m) /\ m \in live /\ rowLock[m] = NoOne
        /\ rowLock' = [rowLock EXCEPT ![m] = p] /\ UNCHANGED <<row, live>>
    BY <1>4 DEF RecordBegin
  <2>3. CASE q = p
    <3>1. job'[p].monitor = m /\ job'[p].read = row[m]
      BY <1>0, <2>1, <2>2 DEF TypeOK, Jobs, Probing, Idle
    <3> QED
      BY <1>0, <2>2, <2>3, <3>1 DEF Began, TypeOK
  <2>4. CASE q # p
    <3>1. job'[q] = job[q]
      BY <1>0, <2>1, <2>4 DEF TypeOK
    <3>2. n # m
      BY <1>0, <1>N, <2>2, <3>1 DEF Began
    <3> QED
      BY <1>0, <2>2, <3>1, <3>2 DEF Began, TypeOK
  <2> QED
    BY <2>3, <2>4
<1>5. ASSUME NEW p \in Process, NEW m \in Monitor, RecordDiscard(p, m)
      PROVE Seen
  BY <1>0, <1>5, FinishKeeps DEF RecordDiscard
<1>6. ASSUME NEW p \in Process, NEW m \in Monitor, RecordQuiet(p, m)
      PROVE Seen
  BY <1>0, <1>6, FinishKeeps DEF RecordQuiet
<1>7. ASSUME NEW p \in Process, NEW m \in Monitor,
             RecordCommit(p, m) \/ EditCommit(p, m)
      PROVE Seen
  <2>1. Finish(p) /\ live' = live
    BY <1>7 DEF RecordCommit, EditCommit
  <2>2. q # p /\ Began(q, n) /\ job'[q] = job[q] /\ rowLock'[n] = q
    BY <1>0, <2>1, FinishKeeps
  <2>3. rowLock[m] = p
    BY <1>7, CommitWrites, EditWrites
  <2>4. n # m
    BY <1>0, <2>2, <2>3
  <2>5. row'[n] = row[n]
    BY <1>0, <1>7, <2>4, Zenon DEF RecordCommit, EditCommit, Flush, TypeOK
  <2> QED
    BY <1>0, <2>1, <2>2, <2>5
<1>8. ASSUME NEW p \in Process, NEW m \in Monitor, EditBegin(p, m)
      PROVE Seen
  <2>1. job' = [job EXCEPT ![p] =
          [Idle EXCEPT !.stage = "editing", !.monitor = m, !.read = row[m]]]
        /\ m \in live /\ rowLock[m] = NoOne
        /\ rowLock' = [rowLock EXCEPT ![m] = p] /\ UNCHANGED <<row, live>>
    BY <1>8 DEF EditBegin
  <2>2. CASE q = p
    <3>1. job'[p].monitor = m /\ job'[p].read = row[m]
      BY <1>0, <2>1 DEF TypeOK, Jobs, Idle
    <3> QED
      BY <1>0, <2>1, <2>2, <3>1 DEF Began, TypeOK
  <2>3. CASE q # p
    <3>1. job'[q] = job[q]
      BY <1>0, <2>1, <2>3 DEF TypeOK
    <3>2. n # m
      BY <1>0, <1>N, <2>1, <3>1 DEF Began
    <3> QED
      BY <1>0, <2>1, <3>1, <3>2 DEF Began, TypeOK
  <2> QED
    BY <2>2, <2>3
<1>9. ASSUME NEW m \in Monitor, TableStep(m) PROVE Seen
  <2>1. Began(q, n) /\ job' = job /\ rowLock' = rowLock
    BY <1>9 DEF TableStep, Create, Delete, WindowChanges, LeaseExpires, Began
  <2>2. CASE Create(m)
    BY <1>0, <2>1, <2>2 DEF Create, Began, TypeOK
  <2>3. CASE Delete(m)
    BY <1>0, <1>N, <2>1, <2>3 DEF Delete
  <2>4. CASE WindowChanges(m) \/ LeaseExpires(m)
    BY <1>0, <2>1, <2>4 DEF WindowChanges, LeaseExpires
  <2> QED
    BY <1>9, <2>2, <2>3, <2>4 DEF TableStep
<1>10. ASSUME NEW p \in Process, Abort(p) PROVE Seen
  BY <1>0, <1>10, FinishKeeps DEF Abort
<1>11. ASSUME NEW i \in Incident, Purge(i) PROVE Seen
  BY <1>0, <1>11 DEF Purge, Began
<1> QED
  BY <1>1, <1>2, <1>3, <1>4, <1>5, <1>6, <1>7, <1>8, <1>9, <1>10, <1>11,
     StepCases

(* Base is an invariant. *)
LEMMA BaseInvariant == Spec => []Base
<1>1. Base /\ [Next]_vars => Base'
  BY TypeStep, SeeStep DEF Base
<1> QED
  BY InitBase, <1>1, PTL DEF Spec

(* TypeOK holds for every number of monitors, checks and edits. *)
THEOREM TypeCorrect == Spec => []TypeOK
<1>1. Base => TypeOK
  BY DEF Base
<1> QED
  BY BaseInvariant, <1>1, PTL

(* No commit of a check or an edit overwrites what it has not read. *)
THEOREM NoLostUpdate == Spec => []TransactionsSeeTheRow
<1>1. Base => TransactionsSeeTheRow
  BY DEF Base
<1> QED
  BY BaseInvariant, <1>1, PTL

-----------------------------------------------------------------------------
(* The row, its open incident and the last event. *)

Announced == DownIffOpenIncident /\ EventsTellOpenIncident

Still == UNCHANGED <<row, live, incident, lastEvent, trail>>

(* Most steps touch neither the tables nor the outbox. *)
LEMMA StepKinds ==
  ASSUME [Next]_vars
  PROVE  \/ Still
         \/ \E p \in Process, m \in Monitor : RecordCommit(p, m)
         \/ \E p \in Process, m \in Monitor : EditCommit(p, m)
         \/ \E m \in Monitor : Create(m)
         \/ \E m \in Monitor : Delete(m)
         \/ \E i \in Incident : Purge(i)
<1>1. CASE UNCHANGED vars
  BY <1>1 DEF vars, Still
<1>2. CASE \E m \in Monitor : TableStep(m)
  BY <1>2 DEF TableStep, WindowChanges, LeaseExpires, Still
<1>3. CASE \E p \in Process : Abort(p)
  BY <1>3 DEF Abort, Still
<1>4. ASSUME NEW p \in Process, NEW m \in Monitor,
             Claim(p, m) \/ RunManual(p, m) \/ RecordBegin(p, m)
               \/ RecordDiscard(p, m) \/ RecordQuiet(p, m) \/ EditBegin(p, m)
      PROVE Still
  BY <1>4 DEF Claim, RunManual, RecordBegin, RecordDiscard, RecordQuiet,
              EditBegin, Still
<1> QED
  BY <1>1, <1>2, <1>3, <1>4, StepCases

(* From DOWN a result leads to DOWN or UP only. *)
LEMMA FromDown ==
  ASSUME NEW r \in Rows, r.status = "down", NEW ok \in BOOLEAN
  PROVE  ApplyResult(r, ok).status \in {"down", "up"}
BY DEF ApplyResult, AfterSuccess, AfterFailure, Rows

LEMMA OpenedIsEntry ==
  ASSUME NEW m \in Monitor
  PROVE  Opened(m) \in Entries /\ Opened(m) # NoOne
         /\ Opened(m).status = "open" /\ Opened(m).monitor = m
BY NullAssumption DEF Opened, Entries

(* The three ways in which a recorded result moves the incident of its monitor
   and its events. *)
LEMMA CommitAnnounces ==
  ASSUME Base, Announced, NEW p \in Process, NEW m \in Monitor,
         RecordCommit(p, m)
  PROVE  \/ /\ row[m].status # "down" /\ row'[m].status = "down"
            /\ OpenOf(m) = {}
            /\ \E i \in Incident :
                 /\ incident[i] = NoOne
                 /\ incident' = [incident EXCEPT ![i] = Opened(m)]
                 /\ lastEvent' = [lastEvent EXCEPT ![m] =
                                   [kind |-> "opened", incident |-> i]]
         \/ /\ row[m].status = "down" /\ row'[m].status = "up"
            /\ \E i \in Incident :
                 /\ OpenOf(m) = {i}
                 /\ incident' = [incident EXCEPT ![i] =
                                  [monitor |-> m, status |-> "resolved"]]
                 /\ lastEvent' = [lastEvent EXCEPT ![m] =
                                   [kind |-> "resolved", incident |-> i]]
         \/ /\ row[m].status = "down" <=> row'[m].status = "down"
            /\ UNCHANGED <<incident, lastEvent>>
<1> DEFINE before == row[m].status
           after  == ApplyResult(row[m], job[p].ok).status
<1>0. TypeOK /\ m \in live /\ row[m] \in Rows
  BY CommitWrites DEF Base, TypeOK
<1>1. row'[m].status = after /\ job[p].read.status = before
      /\ After(p).status = after
  BY <1>0, CommitWrites DEF TypeOK
<1>2. before = "down" => after \in {"down", "up"}
  BY <1>0, CommitWrites, FromDown
<1>3. before = "down" <=> OpenOf(m) # {}
  BY <1>0 DEF Announced, DownIffOpenIncident
<1> HIDE DEF before, after
<1>4. CASE Opens(before, after) /\ OpenIncident(m)
  BY <1>1, <1>4 DEF Opens, OpenIncident, before
<1>5. CASE Resolves(before, after) /\ ResolveIncident(m)
  <2> DEFINE i == CHOOSE j \in OpenOf(m) : TRUE
  <2>1. OpenOf(m) # {} /\ before = "down" /\ after = "up"
    BY <1>3, <1>5 DEF Resolves
  <2>2. i \in OpenOf(m)
    BY <2>1
  <2>3. i \in Incident /\ incident[i] = Opened(m)
    BY <2>2 DEF OpenOf
  <2>4. OpenOf(m) = {i}
    <3>1. ASSUME NEW j \in OpenOf(m) PROVE j = i
      <4>1. j \in Incident /\ incident[j] = incident[i]
        BY <2>3 DEF OpenOf
      <4>2. incident[j] # NoOne /\ incident[j].status = "open"
        BY <2>3, <4>1, OpenedIsEntry
      <4> QED
        BY <2>3, <4>1, <4>2 DEF Announced, DownIffOpenIncident
    <3> QED
      BY <2>2, <3>1
  <2>5. lastEvent' = [lastEvent EXCEPT ![m] =
                       [kind |-> "resolved", incident |-> i]]
    BY <1>5, <2>1 DEF ResolveIncident
  <2>6. incident' = [k \in Incident |->
          IF k = i THEN [monitor |-> m, status |-> "resolved"] ELSE incident[k]]
    BY <1>5, <2>1 DEF ResolveIncident
  <2>7. incident' = [incident EXCEPT ![i] =
                      [monitor |-> m, status |-> "resolved"]]
    BY <1>0, <2>6 DEF TypeOK
  <2> QED
    BY <1>1, <2>1, <2>3, <2>4, <2>5, <2>7 DEF before
<1>6. CASE /\ ~Opens(before, after) /\ ~Resolves(before, after)
           /\ UNCHANGED <<incident, lastEvent>>
  BY <1>1, <1>2, <1>6 DEF Opens, Resolves, before
<1> QED
  BY <1>1, <1>4, <1>5, <1>6 DEF RecordCommit

(* What the last event says is open. *)
Told(m) == IF lastEvent[m] # NoOne /\ lastEvent[m].kind = "opened"
             THEN {lastEvent[m].incident} ELSE {}

LEMMA EventType ==
  ASSUME NEW i \in Incident, NEW k \in {"opened", "resolved"}
  PROVE  [kind |-> k, incident |-> i] # NoOne
BY NullAssumption DEF Events

LEMMA InitAnnounced == Init => Announced
BY DEF Init, Announced, DownIffOpenIncident, EventsTellOpenIncident

(* The row and the last event agree with the open incident after a step. *)
LEMMA AgreeStep ==
  ASSUME Base, Base', Announced, [Next]_vars, NEW n \in live'
  PROVE  /\ (row[n].status = "down" <=> OpenOf(n) # {})'
         /\ (OpenOf(n) = Told(n))'
<1> DEFINE Agree == /\ (row[n].status = "down" <=> OpenOf(n) # {})'
                    /\ (OpenOf(n) = Told(n))'
<1>0. TypeOK /\ TypeOK'
  BY DEF Base
<1>a. n \in live => /\ row[n].status = "down" <=> OpenOf(n) # {}
                    /\ OpenOf(n) = Told(n)
  BY DEF Announced, DownIffOpenIncident, EventsTellOpenIncident, Told
<1>1. CASE Still
  BY <1>1, <1>a DEF Still, OpenOf, Told
<1>2. ASSUME NEW p \in Process, NEW m \in Monitor, RecordCommit(p, m)
      PROVE  Agree
  <2>0. m \in live /\ live' = live /\ n \in live /\ n \in Monitor
        /\ (n # m => row'[n] = row[n])
    <3>1. m \in live /\ row' = [row EXCEPT ![m] = ApplyResult(row[m], job[p].ok)]
      BY <1>2, CommitWrites
    <3>2. live' = live
      BY <1>2 DEF RecordCommit
    <3> QED
      BY <1>0, <3>1, <3>2 DEF TypeOK
  <2>1. CASE /\ row[m].status # "down" /\ row'[m].status = "down"
             /\ OpenOf(m) = {}
             /\ \E i \in Incident :
                  /\ incident[i] = NoOne
                  /\ incident' = [incident EXCEPT ![i] = Opened(m)]
                  /\ lastEvent' = [lastEvent EXCEPT ![m] =
                                    [kind |-> "opened", incident |-> i]]
    <3>1. PICK i \in Incident :
            /\ incident[i] = NoOne
            /\ incident' = [incident EXCEPT ![i] = Opened(m)]
            /\ lastEvent' = [lastEvent EXCEPT ![m] =
                              [kind |-> "opened", incident |-> i]]
      BY <2>1
    <3>2. CASE n = m
      <4>1. OpenOf(m)' = {i}
        BY <1>0, <2>1, <3>1 DEF OpenOf, Opened, TypeOK
      <4>2. Told(m)' = {i}
        BY <1>0, <3>1, EventType DEF Told, TypeOK
      <4> QED
        BY <2>1, <3>2, <4>1, <4>2
    <3>3. CASE n # m
      <4>1. Opened(n) # Opened(m) /\ Opened(n) # NoOne
        BY <2>0, <3>3, OpenedIsEntry
      <4>2. OpenOf(n)' = OpenOf(n)
        <5>1. ASSUME NEW k \in Incident
              PROVE  incident'[k] = Opened(n) <=> incident[k] = Opened(n)
          BY <1>0, <3>1, <4>1 DEF TypeOK
        <5>2. Opened(n)' = Opened(n)
          BY DEF Opened
        <5> QED
          BY <5>1, <5>2 DEF OpenOf
      <4>3. Told(n)' = Told(n)
        BY <1>0, <3>1, <3>3 DEF Told, TypeOK
      <4> QED
        BY <1>a, <2>0, <3>3, <4>2, <4>3
    <3> QED
      BY <3>2, <3>3
  <2>2. CASE /\ row[m].status = "down" /\ row'[m].status = "up"
             /\ \E i \in Incident :
                  /\ OpenOf(m) = {i}
                  /\ incident' = [incident EXCEPT ![i] =
                                   [monitor |-> m, status |-> "resolved"]]
                  /\ lastEvent' = [lastEvent EXCEPT ![m] =
                                    [kind |-> "resolved", incident |-> i]]
    <3>1. PICK i \in Incident :
            /\ OpenOf(m) = {i}
            /\ incident' = [incident EXCEPT ![i] =
                             [monitor |-> m, status |-> "resolved"]]
            /\ lastEvent' = [lastEvent EXCEPT ![m] =
                              [kind |-> "resolved", incident |-> i]]
      BY <2>2
    <3>2. CASE n = m
      <4>1. OpenOf(m)' = {}
        BY <1>0, <3>1 DEF OpenOf, Opened, TypeOK
      <4>2. Told(m)' = {}
        BY <1>0, <3>1, EventType DEF Told, TypeOK
      <4> QED
        BY <2>2, <3>2, <4>1, <4>2
    <3>3. CASE n # m
      <4>1. Opened(n) # [monitor |-> m, status |-> "resolved"]
            /\ Opened(n) # Opened(m) /\ incident[i] = Opened(m)
        BY <2>0, <3>1, <3>3, OpenedIsEntry DEF OpenOf, Opened
      <4>2. OpenOf(n)' = OpenOf(n)
        <5>1. ASSUME NEW k \in Incident
              PROVE  incident'[k] = Opened(n) <=> incident[k] = Opened(n)
          BY <1>0, <3>1, <4>1 DEF TypeOK
        <5>2. Opened(n)' = Opened(n)
          BY DEF Opened
        <5> QED
          BY <5>1, <5>2 DEF OpenOf
      <4>3. Told(n)' = Told(n)
        BY <1>0, <3>1, <3>3 DEF Told, TypeOK
      <4> QED
        BY <1>a, <2>0, <3>3, <4>2, <4>3
    <3> QED
      BY <3>2, <3>3
  <2>3. CASE /\ row[m].status = "down" <=> row'[m].status = "down"
             /\ UNCHANGED <<incident, lastEvent>>
    <3>1. OpenOf(n)' = OpenOf(n) /\ Told(n)' = Told(n)
      BY <2>3 DEF OpenOf, Told, Opened
    <3> QED
      BY <1>a, <2>0, <2>3, <3>1
  <2> QED
    BY <1>2, <2>1, <2>2, <2>3, CommitAnnounces
<1>3. ASSUME NEW p \in Process, NEW m \in Monitor, EditCommit(p, m)
      PROVE  Agree
  <2>1. PICK f \in Thresholds, r \in Thresholds :
          row' = [row EXCEPT ![m] = [row[m] EXCEPT !.failTh = f, !.recTh = r]]
    BY <1>3, EditWrites
  <2>2. UNCHANGED <<live, incident, lastEvent>>
    BY <1>3 DEF EditCommit
  <2>3. row'[n].status = row[n].status
    BY <1>0, <2>1, <2>2 DEF TypeOK, Rows
  <2>4. OpenOf(n)' = OpenOf(n) /\ Told(n)' = Told(n)
    BY <2>2 DEF OpenOf, Told, Opened
  <2> QED
    BY <1>a, <2>2, <2>3, <2>4
<1>4. ASSUME NEW m \in Monitor, Create(m) PROVE Agree
  <2>1. OpenOf(n)' = OpenOf(n) /\ incident' = incident
    BY <1>4 DEF Create, OpenOf, Opened
  <2>2. CASE n = m
    <3>1. OpenOf(m) = {}
      BY <1>0, <1>4, OpenedIsEntry
         DEF Create, OpenOf, Announced, DownIffOpenIncident, TypeOK
    <3>2. Told(m)' = {}
      BY <1>0, <1>4 DEF Create, Told, TypeOK
    <3>3. row'[m].status = "pending"
      BY <1>0, <1>4 DEF Create, NewRow, TypeOK
    <3> QED
      BY <2>1, <2>2, <3>1, <3>2, <3>3
  <2>3. CASE n # m
    <3>1. n \in live /\ n \in Monitor /\ row'[n] = row[n]
      BY <1>0, <1>4, <2>3 DEF Create, TypeOK
    <3>2. Told(n)' = Told(n)
      BY <1>0, <1>4, <2>3 DEF Create, Told, TypeOK
    <3> QED
      BY <1>a, <2>1, <3>1, <3>2
  <2> QED
    BY <2>2, <2>3
<1>5. ASSUME NEW m \in Monitor, Delete(m) PROVE Agree
  <2>1. n \in live /\ n # m /\ n \in Monitor /\ row' = row
    BY <1>0, <1>5 DEF Delete, TypeOK
  <2>2. ASSUME NEW k \in Incident
        PROVE  incident'[k] = Opened(n) <=> incident[k] = Opened(n)
    BY <1>0, <1>5, <2>1, OpenedIsEntry DEF Delete, TypeOK
  <2>3. OpenOf(n)' = OpenOf(n)
    BY <2>2 DEF OpenOf, Opened
  <2>4. Told(n)' = Told(n)
    BY <1>5 DEF Delete, Told
  <2> QED
    BY <1>a, <2>1, <2>3, <2>4
<1>6. ASSUME NEW i \in Incident, Purge(i) PROVE Agree
  <2>1. n \in live /\ n \in Monitor /\ row' = row
    BY <1>0, <1>6 DEF Purge, TypeOK
  <2>2. ASSUME NEW k \in Incident
        PROVE  incident'[k] = Opened(n) <=> incident[k] = Opened(n)
    BY <1>0, <1>6, <2>1, OpenedIsEntry DEF Purge, TypeOK
  <2>3. OpenOf(n)' = OpenOf(n)
    BY <2>2 DEF OpenOf, Opened
  <2>4. Told(n)' = Told(n)
    BY <1>6 DEF Purge, Told
  <2> QED
    BY <1>a, <2>1, <2>3, <2>4
<1> QED
  BY <1>1, <1>2, <1>3, <1>4, <1>5, <1>6, StepKinds

(* Open incidents of one monitor are one incident, and every incident belongs
   to a monitor that is there. *)
Unique(inc, i, j) ==
  inc[i] # NoOne /\ inc[i] = inc[j] /\ inc[i].status = "open" => i = j

LEMMA UniqueStep ==
  ASSUME Base, Base', Announced, [Next]_vars,
         NEW i \in Incident, NEW j \in Incident
  PROVE  /\ Unique(incident', i, j)
         /\ incident'[i] # NoOne => incident'[i].monitor \in live'
<1> DEFINE Good == /\ Unique(incident', i, j)
                   /\ incident'[i] # NoOne => incident'[i].monitor \in live'
<1>0. TypeOK /\ TypeOK'
  BY DEF Base
<1>a. \A a, b \in Incident :
        /\ Unique(incident, a, b)
        /\ incident[a] # NoOne => incident[a].monitor \in live
  BY DEF Announced, DownIffOpenIncident, Unique
<1>1. ASSUME live \subseteq live', incident' = incident PROVE Good
  BY <1>1, <1>a DEF Unique
<1>2. ASSUME NEW p \in Process, NEW m \in Monitor, RecordCommit(p, m)
      PROVE  Good
  <2>0. m \in live /\ live' = live
    <3>1. m \in live
      BY <1>2, CommitWrites
    <3> QED
      BY <1>2, <3>1 DEF RecordCommit
  <2>1. ASSUME OpenOf(m) = {}, NEW k \in Incident, incident[k] = NoOne,
               incident' = [incident EXCEPT ![k] = Opened(m)]
        PROVE  Good
    <3>1. \A a \in Incident : incident[a] # Opened(m)
      BY <2>1 DEF OpenOf
    <3>2. incident'[k] = Opened(m)
          /\ \A a \in Incident \ {k} : incident'[a] = incident[a]
      BY <1>0, <2>1 DEF TypeOK
    <3>3. Unique(incident', i, j)
      BY <1>a, <3>1, <3>2 DEF Unique
    <3>4. incident'[i] # NoOne => incident'[i].monitor \in live'
      BY <1>a, <2>0, <3>2, OpenedIsEntry
    <3> QED
      BY <3>3, <3>4
  <2>2. ASSUME NEW k \in Incident,
               incident' = [incident EXCEPT ![k] =
                             [monitor |-> m, status |-> "resolved"]]
        PROVE  Good
    <3>1. incident'[k] = [monitor |-> m, status |-> "resolved"]
          /\ \A a \in Incident \ {k} : incident'[a] = incident[a]
      BY <1>0, <2>2 DEF TypeOK
    <3>2. incident'[k].status = "resolved" /\ incident'[k].monitor = m
      BY <3>1
    <3>3. Unique(incident', i, j)
      BY <1>a, <3>1, <3>2 DEF Unique
    <3>4. incident'[i] # NoOne => incident'[i].monitor \in live'
      BY <1>a, <2>0, <3>1, <3>2
    <3> QED
      BY <3>3, <3>4
  <2> QED
    BY <1>1, <1>2, <2>0, <2>1, <2>2, CommitAnnounces
<1>3. ASSUME NEW p \in Process, NEW m \in Monitor, EditCommit(p, m)
      PROVE  Good
  BY <1>1, <1>3 DEF EditCommit
<1>4. ASSUME NEW m \in Monitor, Create(m) PROVE Good
  BY <1>1, <1>4 DEF Create
<1>5. ASSUME NEW m \in Monitor, Delete(m) PROVE Good
  <2>1. \A a \in Incident :
          \/ incident'[a] = NoOne
          \/ incident'[a] = incident[a] /\ incident[a].monitor # m
    BY <1>5 DEF Delete
  <2>2. live' = live \ {m}
    BY <1>5 DEF Delete
  <2> QED
    BY <1>a, <2>1, <2>2 DEF Unique
<1>6. ASSUME NEW k \in Incident, Purge(k) PROVE Good
  <2>1. \A a \in Incident :
          incident'[a] = NoOne \/ incident'[a] = incident[a]
    BY <1>0, <1>6 DEF Purge, TypeOK
  <2>2. live' = live
    BY <1>6 DEF Purge
  <2> QED
    BY <1>a, <2>1, <2>2 DEF Unique
<1>7. CASE Still
  BY <1>1, <1>7 DEF Still
<1> QED
  BY <1>2, <1>3, <1>4, <1>5, <1>6, <1>7, StepKinds

LEMMA AnnouncedStep == Base /\ Base' /\ Announced /\ [Next]_vars => Announced'
<1> SUFFICES ASSUME Base, Base', Announced, [Next]_vars PROVE Announced'
  OBVIOUS
<1>1. DownIffOpenIncident'
  <2>1. \A m \in live' : (row[m].status = "down" <=> OpenOf(m) # {})'
    BY AgreeStep
  <2>2. \A i, j \in Incident :
          /\ Unique(incident', i, j)
          /\ incident'[i] # NoOne => incident'[i].monitor \in live'
    BY UniqueStep
  <2> QED
    BY <2>1, <2>2 DEF DownIffOpenIncident, Unique
<1>2. EventsTellOpenIncident'
  BY AgreeStep, TypeStep DEF EventsTellOpenIncident, Told, Base, TypeOK
<1> QED
  BY <1>1, <1>2 DEF Announced

LEMMA AnnouncedInvariant == Spec => [](Base /\ Announced)
<1>1. Base /\ Announced /\ [Next]_vars => Base' /\ Announced'
  BY TypeStep, SeeStep, AnnouncedStep DEF Base
<1> QED
  BY InitBase, InitAnnounced, <1>1, PTL DEF Spec

(* A monitor is DOWN exactly while it has an open incident, and then one. *)
THEOREM OpenIncidentMeansDown == Spec => []DownIffOpenIncident
<1>1. Base /\ Announced => DownIffOpenIncident
  BY DEF Announced
<1> QED
  BY AnnouncedInvariant, <1>1, PTL

(* No check that opens an incident meets one that is open already. *)
THEOREM IndexIsNeverHit == Spec => []IndexNeverRefuses
<1>1. Base /\ Announced => IndexNeverRefuses
  <2> SUFFICES ASSUME Base, Announced, NEW p \in Process, NEW m \in Monitor,
                      job[p].stage = "recording", job[p].monitor = m,
                      Opens(job[p].read.status, After(p).status)
               PROVE  OpenOf(m) = {}
    BY DEF IndexNeverRefuses
  <2>1. m \in live /\ job[p].read = row[m]
    BY DEF Base, TransactionsSeeTheRow, Began
  <2>2. row[m].status # "down"
    BY <2>1 DEF Opens
  <2> QED
    BY <2>1, <2>2 DEF Announced, DownIffOpenIncident
<1> QED
  BY AnnouncedInvariant, <1>1, PTL

(* What has been announced is what is open. *)
THEOREM AnnouncementsAreTrue == Spec => []EventsTellOpenIncident
<1>1. Base /\ Announced => EventsTellOpenIncident
  BY DEF Announced
<1> QED
  BY AnnouncedInvariant, <1>1, PTL

(* A monitor's openings and resolutions alternate. *)
THEOREM AnnouncementsAlternate == Spec => EventsAlternate
<1> DEFINE Alternates(m) ==
      lastEvent'[m] # lastEvent[m] =>
        IF lastEvent'[m].kind = "resolved"
          THEN lastEvent[m] = [lastEvent'[m] EXCEPT !.kind = "opened"]
          ELSE lastEvent[m] = NoOne \/ lastEvent[m].kind = "resolved"
<1>1. ASSUME Base, Announced, [Next]_vars, NEW n \in live PROVE Alternates(n)
  <2>0. TypeOK /\ n \in Monitor
    BY <1>1 DEF Base, TypeOK
  <2>1. CASE UNCHANGED lastEvent
    BY <2>1
  <2>2. ASSUME NEW p \in Process, NEW m \in Monitor, RecordCommit(p, m)
        PROVE  Alternates(n)
    <3>1. ASSUME OpenOf(m) = {}, NEW i \in Incident,
                 lastEvent' = [lastEvent EXCEPT ![m] =
                                [kind |-> "opened", incident |-> i]]
          PROVE  Alternates(n)
      <4>1. CASE n = m
        <5>1. Told(m) = {}
          BY <1>1, <3>1, <4>1 DEF Announced, EventsTellOpenIncident, Told
        <5>2. lastEvent[m] = NoOne \/ lastEvent[m].kind = "resolved"
          BY <2>0, <5>1 DEF Told, TypeOK, Events
        <5>3. lastEvent'[m].kind = "opened"
          BY <2>0, <3>1 DEF TypeOK
        <5> QED
          BY <4>1, <5>2, <5>3
      <4>2. CASE n # m
        BY <2>0, <3>1, <4>2 DEF TypeOK
      <4> QED
        BY <4>1, <4>2
    <3>2. ASSUME NEW i \in Incident, OpenOf(m) = {i},
                 lastEvent' = [lastEvent EXCEPT ![m] =
                                [kind |-> "resolved", incident |-> i]]
          PROVE  Alternates(n)
      <4>1. CASE n = m
        <5>1. Told(m) = {i}
          BY <1>1, <3>2, <4>1 DEF Announced, EventsTellOpenIncident, Told
        <5>2. lastEvent[m] \in Events /\ lastEvent[m].kind = "opened"
              /\ lastEvent[m].incident = i
          BY <2>0, <5>1 DEF Told, TypeOK
        <5>3. lastEvent[m] = [kind |-> "opened", incident |-> i]
          BY <5>2 DEF Events
        <5>4. lastEvent'[m] = [kind |-> "resolved", incident |-> i]
          BY <2>0, <3>2 DEF TypeOK
        <5> QED
          BY <4>1, <5>3, <5>4
      <4>2. CASE n # m
        BY <2>0, <3>2, <4>2 DEF TypeOK
      <4> QED
        BY <4>1, <4>2
    <3> QED
      BY <1>1, <2>1, <2>2, <3>1, <3>2, CommitAnnounces
  <2>3. ASSUME NEW m \in Monitor, Create(m) PROVE Alternates(n)
    BY <1>1, <2>0, <2>3 DEF Create, TypeOK
  <2> QED
    BY <1>1, <2>1, <2>2, <2>3, StepKinds
       DEF Still, EditCommit, Delete, Purge
<1>2. Base /\ Announced /\ [Next]_vars
        => [\A m \in live : Alternates(m)]_vars
  BY <1>1
<1> QED
  BY AnnouncedInvariant, <1>2, PTL DEF Spec, EventsAlternate

-----------------------------------------------------------------------------
(* The counters and what they are for. *)

(* No row of this module is PAUSED: a paused monitor is not checked. *)
Counted ==
  /\ CountersAreExact
  /\ \A m \in Monitor : row[m].status # "paused"

LEMMA InitCounted == Init => Counted
BY DEF Init, Counted, CountersAreExact, NewRow

(* What one more result does to the counters and to the streak. *)
LEMMA ResultCounts ==
  ASSUME NEW r \in Rows, r.status # "paused", NEW ok \in BOOLEAN,
         NEW streak \in Streaks,
         r.fails = IF streak.ok THEN 0 ELSE streak.length,
         r.succs = IF streak.ok THEN streak.length ELSE 0
  PROVE  LET new  == ApplyResult(r, ok)
             more == Extend(streak, ok)
         IN  /\ new.status # "paused"
             /\ more.ok = ok
             /\ new.fails = IF ok THEN 0 ELSE more.length
             /\ new.succs = IF ok THEN more.length ELSE 0
             /\ Opens(r.status, new.status) => ~ok /\ more.length >= r.failTh
             /\ Resolves(r.status, new.status) => ok /\ more.length >= r.recTh
<1> DEFINE new  == ApplyResult(r, ok)
           more == Extend(streak, ok)
<1>1. More(0) = 1
  BY ThresholdAssumption DEF More
<1>2. streak.ok \in BOOLEAN
  BY DEF Streaks
<1>3. CASE ok
  <2>1. /\ new.status = AfterSuccess(r, More(r.succs))
        /\ new.fails = 0 /\ new.succs = More(r.succs)
    BY <1>3 DEF ApplyResult, Rows
  <2>2. more.ok = ok /\ more.length = More(r.succs)
    BY <1>1, <1>2, <1>3 DEF Extend
  <2>3. /\ AfterSuccess(r, More(r.succs)) # "paused"
        /\ Resolves(r.status, AfterSuccess(r, More(r.succs)))
             => More(r.succs) >= r.recTh
        /\ ~Opens(r.status, AfterSuccess(r, More(r.succs)))
    BY DEF AfterSuccess, Resolves, Opens
  <2> QED
    BY <1>3, <2>1, <2>2, <2>3
<1>4. CASE ~ok
  <2>1. /\ new.status = AfterFailure(r, More(r.fails))
        /\ new.fails = More(r.fails) /\ new.succs = 0
    BY <1>4 DEF ApplyResult, Rows
  <2>2. more.ok = ok /\ more.length = More(r.fails)
    BY <1>1, <1>2, <1>4 DEF Extend
  <2>3. /\ AfterFailure(r, More(r.fails)) # "paused"
        /\ Opens(r.status, AfterFailure(r, More(r.fails)))
             => More(r.fails) >= r.failTh
        /\ ~Resolves(r.status, AfterFailure(r, More(r.fails)))
    BY DEF AfterFailure, Resolves, Opens
  <2> QED
    BY <1>4, <2>1, <2>2, <2>3
<1> QED
  BY <1>3, <1>4

(* A recorded result, in terms of the row and the streak of its monitor. *)
LEMMA CommitCounts ==
  ASSUME Base, Counted, NEW p \in Process, NEW m \in Monitor,
         RecordCommit(p, m)
  PROVE  /\ row'[m].status # "paused"
         /\ row'[m].fails = IF trail'[m].ok THEN 0 ELSE trail'[m].length
         /\ row'[m].succs = IF trail'[m].ok THEN trail'[m].length ELSE 0
         /\ Opens(row[m].status, row'[m].status) =>
              ~trail'[m].ok /\ trail'[m].length >= row[m].failTh
         /\ Resolves(row[m].status, row'[m].status) =>
              trail'[m].ok /\ trail'[m].length >= row[m].recTh
         /\ \A n \in Monitor \ {m} : row'[n] = row[n] /\ trail'[n] = trail[n]
<1> DEFINE ok == job[p].ok
<1>1. /\ m \in live /\ ok \in BOOLEAN
      /\ row' = [row EXCEPT ![m] = ApplyResult(row[m], ok)]
  BY CommitWrites
<1>2. trail' = [trail EXCEPT ![m] = Extend(trail[m], ok)]
  BY DEF RecordCommit
<1>3. row \in [Monitor -> Rows] /\ trail \in [Monitor -> Streaks]
  BY DEF Base, TypeOK
<1> HIDE DEF ok
<1>4. row'[m] = ApplyResult(row[m], ok) /\ trail'[m] = Extend(trail[m], ok)
  BY <1>1, <1>2, <1>3
<1>5. /\ row[m].status # "paused" /\ row[m] \in Rows /\ trail[m] \in Streaks
      /\ row[m].fails = IF trail[m].ok THEN 0 ELSE trail[m].length
      /\ row[m].succs = IF trail[m].ok THEN trail[m].length ELSE 0
  BY <1>1, <1>3 DEF Counted, CountersAreExact
<1>6. \A n \in Monitor \ {m} : row'[n] = row[n] /\ trail'[n] = trail[n]
  BY <1>1, <1>2, <1>3
<1> QED
  BY <1>1, <1>4, <1>5, <1>6, ResultCounts

LEMMA CountedStep == Base /\ Counted /\ [Next]_vars => Counted'
<1> SUFFICES ASSUME Base, Counted, [Next]_vars PROVE Counted'
  OBVIOUS
<1> DEFINE Exact(n) ==
      /\ row[n].fails = IF trail[n].ok THEN 0 ELSE trail[n].length
      /\ row[n].succs = IF trail[n].ok THEN trail[n].length ELSE 0
<1>0. TypeOK
  BY DEF Base
<1>a. (\A n \in live : Exact(n)) /\ \A n \in Monitor : row[n].status # "paused"
  BY DEF Counted, CountersAreExact
<1>1. ASSUME NEW p \in Process, NEW m \in Monitor, RecordCommit(p, m)
      PROVE  Counted'
  <2>1. live' = live
    BY <1>1 DEF RecordCommit
  <2> QED
    BY <1>0, <1>1, <1>a, <2>1, CommitCounts DEF Counted, CountersAreExact, TypeOK
<1>2. ASSUME NEW p \in Process, NEW m \in Monitor, EditCommit(p, m)
      PROVE  Counted'
  <2>1. PICK f \in Thresholds, r \in Thresholds :
          row' = [row EXCEPT ![m] = [row[m] EXCEPT !.failTh = f, !.recTh = r]]
    BY <1>2, EditWrites
  <2>2. UNCHANGED <<live, trail>>
    BY <1>2 DEF EditCommit
  <2>3. \A n \in Monitor : /\ row'[n].status = row[n].status
                           /\ row'[n].fails = row[n].fails
                           /\ row'[n].succs = row[n].succs
    BY <1>0, <2>1 DEF TypeOK, Rows
  <2> QED
    BY <1>0, <1>a, <2>2, <2>3 DEF Counted, CountersAreExact, TypeOK
<1>3. ASSUME NEW m \in Monitor, Create(m) PROVE Counted'
  <2>1. row'[m].status = "pending" /\ row'[m].fails = 0 /\ row'[m].succs = 0
        /\ \A n \in Monitor \ {m} : row'[n] = row[n]
    BY <1>0, <1>3 DEF Create, NewRow, TypeOK
  <2>2. trail'[m].ok = TRUE /\ trail'[m].length = 0
        /\ \A n \in Monitor \ {m} : trail'[n] = trail[n]
    BY <1>0, <1>3 DEF Create, TypeOK
  <2>3. live' = live \cup {m}
    BY <1>3 DEF Create
  <2> QED
    BY <1>0, <1>a, <2>1, <2>2, <2>3 DEF Counted, CountersAreExact, TypeOK
<1>4. ASSUME live' \subseteq live, UNCHANGED <<row, trail>> PROVE Counted'
  BY <1>4 DEF Counted, CountersAreExact
<1> QED
  BY <1>1, <1>2, <1>3, <1>4, StepKinds DEF Still, Delete, Purge

LEMMA CountedInvariant == Spec => [](Base /\ Counted)
<1>1. Base /\ Counted /\ [Next]_vars => Base' /\ Counted'
  BY TypeStep, SeeStep, CountedStep DEF Base
<1> QED
  BY InitBase, InitCounted, <1>1, PTL DEF Spec

(* Overlapping checks, edits and failures never make the counters wrong. *)
THEOREM EveryResultCounts == Spec => []CountersAreExact
<1>1. Base /\ Counted => CountersAreExact
  BY DEF Counted
<1> QED
  BY CountedInvariant, <1>1, PTL

(* A monitor goes down and recovers only when it has earned it. *)
THEOREM StatusIsEarned == Spec => TransitionsAreEarned
<1> DEFINE Earned(m) ==
      /\ Opens(row[m].status, row'[m].status) =>
           ~trail'[m].ok /\ trail'[m].length >= row[m].failTh
      /\ Resolves(row[m].status, row'[m].status) =>
           trail'[m].ok /\ trail'[m].length >= row[m].recTh
<1>1. ASSUME Base, Counted, [Next]_vars, NEW n \in live \cap live'
      PROVE  Earned(n)
  <2>0. TypeOK /\ n \in Monitor /\ n \in live
    BY <1>1 DEF Base, TypeOK
  <2>1. ASSUME row'[n].status = row[n].status PROVE Earned(n)
    BY <2>1 DEF Opens, Resolves
  <2>2. ASSUME NEW p \in Process, NEW m \in Monitor, RecordCommit(p, m)
        PROVE  Earned(n)
    BY <1>1, <2>0, <2>1, <2>2, CommitCounts
  <2>3. ASSUME NEW p \in Process, NEW m \in Monitor, EditCommit(p, m)
        PROVE  row'[n].status = row[n].status
    <3>1. PICK f \in Thresholds, r \in Thresholds :
            row' = [row EXCEPT ![m] = [row[m] EXCEPT !.failTh = f, !.recTh = r]]
      BY <1>1, <2>3, EditWrites
    <3> QED
      BY <2>0, <3>1 DEF TypeOK, Rows
  <2>4. ASSUME NEW m \in Monitor, Create(m) PROVE row'[n].status = row[n].status
    BY <2>0, <2>4 DEF Create, TypeOK
  <2> QED
    BY <1>1, <2>1, <2>2, <2>3, <2>4, StepKinds DEF Still, Delete, Purge
<1>2. Base /\ Counted /\ [Next]_vars
        => [\A m \in live \cap live' : Earned(m)]_vars
  BY <1>1
<1> QED
  BY CountedInvariant, <1>2, PTL DEF Spec, TransitionsAreEarned

-----------------------------------------------------------------------------
(* CheckRecording implements MonitorLife. *)

Shape(r, o, t) ==
  [status |-> r.status, ok |-> r.fails = 0,
   length |-> IF r.fails = 0 THEN r.succs ELSE r.fails,
   failTh |-> r.failTh, recTh |-> r.recTh, open |-> o, told |-> t]

TheOpen(m) == IF OpenOf(m) = {} THEN NoOne ELSE CHOOSE i \in OpenOf(m) : TRUE

Lives == [m \in Monitor |-> LifeOf(m)]

LEMMA LifeIsShape ==
  ASSUME NEW m \in Monitor
  PROVE  LifeOf(m) = IF m \in live THEN Shape(row[m], TheOpen(m), lastEvent[m])
                                   ELSE Life!Gone
BY DEF LifeOf, Shape, TheOpen, Life!Gone

LEMMA NextLifeIsShape ==
  ASSUME NEW m \in Monitor, m \in live'
  PROVE  LifeOf(m)' = Shape(row'[m], TheOpen(m)', lastEvent'[m])
BY Zenon DEF LifeOf, Shape, TheOpen

LEMMA ShapeIsNotGone ==
  ASSUME NEW r \in Rows, NEW o, NEW t PROVE Shape(r, o, t) # Life!Gone
<1>1. Shape(r, o, t).status \in Status /\ Life!Gone.status = "gone"
  BY DEF Shape, Rows, Life!Gone
<1> QED
  BY <1>1 DEF Status

(* The counters of the row decide as the streak does. *)
LEMMA ShapeOfResult ==
  ASSUME NEW r \in Rows, NEW ok \in BOOLEAN, NEW o, NEW t,
         r.status # "paused", r.fails = 0 \/ r.succs = 0
  PROVE  Shape(ApplyResult(r, ok), o, t) = Life!Recorded(Shape(r, o, t), ok)
<1> DEFINE l   == Shape(r, o, t)
           new == ApplyResult(r, ok)
<1>1. /\ l.status = r.status /\ l.failTh = r.failTh /\ l.recTh = r.recTh
      /\ l.ok = (r.fails = 0)
      /\ l.length = IF r.fails = 0 THEN r.succs ELSE r.fails
  BY DEF Shape
<1>2. r.fails \in Nat /\ r.succs \in Nat /\ r.failTh \in Nat /\ r.recTh \in Nat
  BY DEF Rows, Counters, Thresholds
<1>3. \A n : More(n) = Life!Longer(n)
  BY DEF More, Life!Longer
<1>4. More(0) = 1 /\ \A n \in Nat : More(n) # 0
  BY ThresholdAssumption DEF More
<1>5. CASE ok
  <2>1. Life!Length(l, ok) = More(r.succs)
    BY <1>1, <1>2, <1>3, <1>4, <1>5 DEF Life!Length
  <2>2. Life!Verdict(l, ok) = AfterSuccess(r, More(r.succs))
    <3>1. More(r.succs) \in Nat
      BY <1>2, ThresholdAssumption DEF More
    <3>2. r.status \in Status
      BY DEF Rows
    <3>3. /\ l.status = "down" /\ More(r.succs) < r.recTh =>
                 Life!Verdict(l, ok) = "down"
          /\ ~(l.status = "down" /\ More(r.succs) < r.recTh) =>
                 Life!Verdict(l, ok) = "up"
      BY <1>1, <1>5, <2>1 DEF Life!Verdict
    <3> HIDE DEF l, new
    <3> QED
      BY <1>1, <1>2, <3>1, <3>2, <3>3 DEF AfterSuccess, Status
  <2>3. new = [r EXCEPT !.status = AfterSuccess(r, More(r.succs)), !.fails = 0,
                        !.succs = More(r.succs)]
    BY <1>5 DEF ApplyResult
  <2>4. Shape(new, o, t) =
          [status |-> AfterSuccess(r, More(r.succs)), ok |-> TRUE,
           length |-> More(r.succs), failTh |-> r.failTh, recTh |-> r.recTh,
           open |-> o, told |-> t]
    BY <2>3 DEF Shape, Rows
  <2>5. Life!Recorded(l, ok) =
          [status |-> AfterSuccess(r, More(r.succs)), ok |-> TRUE,
           length |-> More(r.succs), failTh |-> r.failTh, recTh |-> r.recTh,
           open |-> o, told |-> t]
    <3> DEFINE status == AfterSuccess(r, More(r.succs))
               length == More(r.succs)
    <3>1. Life!Recorded(l, ok) =
            [l EXCEPT !.status = status, !.ok = TRUE, !.length = length]
      BY <1>5, <2>1, <2>2 DEF Life!Recorded
    <3> HIDE DEF status, length
    <3> QED
      BY <3>1 DEF Shape, status, length
  <2> QED
    BY <2>4, <2>5
<1>6. CASE ~ok
  <2>1. Life!Length(l, ok) = More(r.fails)
    BY <1>1, <1>2, <1>3, <1>4, <1>6 DEF Life!Length
  <2>2. Life!Verdict(l, ok) = AfterFailure(r, More(r.fails))
    BY <1>1, <1>6, <2>1 DEF Life!Verdict, AfterFailure
  <2>3. new = [r EXCEPT !.status = AfterFailure(r, More(r.fails)),
                        !.fails = More(r.fails), !.succs = 0]
    BY <1>6 DEF ApplyResult
  <2>4. Shape(new, o, t) =
          [status |-> AfterFailure(r, More(r.fails)), ok |-> FALSE,
           length |-> More(r.fails), failTh |-> r.failTh, recTh |-> r.recTh,
           open |-> o, told |-> t]
    BY <1>2, <1>4, <2>3 DEF Shape, Rows
  <2>5. Life!Recorded(l, ok) =
          [status |-> AfterFailure(r, More(r.fails)), ok |-> FALSE,
           length |-> More(r.fails), failTh |-> r.failTh, recTh |-> r.recTh,
           open |-> o, told |-> t]
    <3> DEFINE status == AfterFailure(r, More(r.fails))
               length == More(r.fails)
    <3>1. Life!Recorded(l, ok) =
            [l EXCEPT !.status = status, !.ok = FALSE, !.length = length]
      BY <1>6, <2>1, <2>2 DEF Life!Recorded
    <3> HIDE DEF status, length
    <3> QED
      BY <3>1 DEF Shape, status, length
  <2> QED
    BY <2>4, <2>5
<1> QED
  BY <1>5, <1>6

(* What becomes of a life when its thresholds change, when its incident and
   event do, and when a result is recorded. *)
AllOf(s, b, n, f, g, o, t) ==
  [status |-> s, ok |-> b, length |-> n, failTh |-> f, recTh |-> g, open |-> o,
   told |-> t]

WithLimits(l, f, g) == [l EXCEPT !.failTh = f, !.recTh = g]

WithEvent(l, o, t) == [l EXCEPT !.open = o, !.told = t]

LEMMA LimitsChange ==
  ASSUME NEW s, NEW b, NEW n, NEW f, NEW g, NEW o, NEW t, NEW h, NEW i
  PROVE  WithLimits(AllOf(s, b, n, f, g, o, t), h, i) = AllOf(s, b, n, h, i, o, t)
<1> DEFINE l == AllOf(s, b, n, f, g, o, t)
           k == [l EXCEPT !.failTh = h]
<1>1. k = AllOf(s, b, n, h, g, o, t)
  BY DEF AllOf
<1>2. WithLimits(l, h, i) = [k EXCEPT !.recTh = i]
  BY DEF WithLimits
<1> HIDE DEF k
<1>3. [k EXCEPT !.recTh = i] = AllOf(s, b, n, h, i, o, t)
  BY <1>1 DEF AllOf
<1> QED
  BY <1>2, <1>3, Zenon

LEMMA EventChanges ==
  ASSUME NEW s, NEW b, NEW n, NEW f, NEW g, NEW o, NEW t, NEW u, NEW v
  PROVE  WithEvent(AllOf(s, b, n, f, g, o, t), u, v) = AllOf(s, b, n, f, g, u, v)
<1> DEFINE l == AllOf(s, b, n, f, g, o, t)
           k == [l EXCEPT !.open = u]
<1>1. k = AllOf(s, b, n, f, g, u, t)
  BY DEF AllOf
<1>2. WithEvent(l, u, v) = [k EXCEPT !.told = v]
  BY DEF WithEvent
<1> HIDE DEF k
<1>3. [k EXCEPT !.told = v] = AllOf(s, b, n, f, g, u, v)
  BY <1>1 DEF AllOf
<1> QED
  BY <1>2, <1>3, Zenon

LEMMA ResultChanges ==
  ASSUME NEW s, NEW b, NEW n, NEW f, NEW g, NEW o, NEW t, NEW x, NEW y, NEW z
  PROVE  [[status |-> s, ok |-> b, length |-> n, failTh |-> f, recTh |-> g,
           open |-> o, told |-> t]
            EXCEPT !.status = x, !.ok = y, !.length = z] =
           [status |-> x, ok |-> y, length |-> z, failTh |-> f, recTh |-> g,
            open |-> o, told |-> t]
<1> DEFINE l == [status |-> s, ok |-> b, length |-> n, failTh |-> f,
                 recTh |-> g, open |-> o, told |-> t]
           k == [l EXCEPT !.status = x]
           j == [k EXCEPT !.ok = y]
<1>1. k = [status |-> x, ok |-> b, length |-> n, failTh |-> f, recTh |-> g,
           open |-> o, told |-> t]
  OBVIOUS
<1>2. [l EXCEPT !.status = x, !.ok = y, !.length = z] = [j EXCEPT !.length = z]
  BY Zenon
<1> HIDE DEF k
<1>3. j = [status |-> x, ok |-> y, length |-> n, failTh |-> f, recTh |-> g,
           open |-> o, told |-> t]
  BY <1>1
<1> HIDE DEF j
<1>4. [j EXCEPT !.length = z] =
        [status |-> x, ok |-> y, length |-> z, failTh |-> f, recTh |-> g,
         open |-> o, told |-> t]
  BY <1>3
<1> QED
  BY <1>2, <1>4, Zenon

(* An edit changes the thresholds and nothing else. *)
LEMMA ShapeOfEdit ==
  ASSUME NEW r \in Rows, NEW f, NEW g, NEW o, NEW t
  PROVE  Shape(WithLimits(r, f, g), o, t) = WithLimits(Shape(r, o, t), f, g)
<1> DEFINE new    == WithLimits(r, f, g)
           none   == r.fails = 0
           streak == IF none THEN r.succs ELSE r.fails
<1>1. /\ new.status = r.status /\ new.fails = r.fails /\ new.succs = r.succs
      /\ new.failTh = f /\ new.recTh = g
  BY DEF Rows, WithLimits
<1>2. Shape(r, o, t) = AllOf(r.status, none, streak, r.failTh, r.recTh, o, t)
  BY DEF Shape, AllOf
<1> HIDE DEF new
<1>3. Shape(new, o, t) = AllOf(r.status, none, streak, f, g, o, t)
  BY <1>1, Zenon DEF Shape, AllOf
<1> HIDE DEF none, streak
<1> QED
  BY <1>2, <1>3, LimitsChange DEF new

(* A result decides nothing by the open incident and the last event. *)
LEMMA RecordedKeepsRest ==
  ASSUME NEW r, NEW ok, NEW o, NEW t, NEW u, NEW v
  PROVE  Life!Recorded(Shape(r, u, v), ok) =
           WithEvent(Life!Recorded(Shape(r, o, t), ok), u, v)
<1> DEFINE l == Shape(r, o, t)
           k == Shape(r, u, v)
<1>1. Life!Length(k, ok) = Life!Length(l, ok)
  BY DEF Life!Length, Shape
<1>2. Life!Verdict(k, ok) = Life!Verdict(l, ok)
  BY <1>1 DEF Life!Verdict, Shape
<1> DEFINE status == Life!Verdict(l, ok)
           length == Life!Length(l, ok)
<1>3. /\ Life!Recorded(l, ok) =
           [l EXCEPT !.status = status, !.ok = ok, !.length = length]
      /\ Life!Recorded(k, ok) =
           [k EXCEPT !.status = status, !.ok = ok, !.length = length]
  BY <1>1, <1>2 DEF Life!Recorded
<1> DEFINE none   == r.fails = 0
           streak == IF none THEN r.succs ELSE r.fails
<1>4. /\ l = [status |-> r.status, ok |-> none, length |-> streak,
              failTh |-> r.failTh, recTh |-> r.recTh, open |-> o, told |-> t]
      /\ k = [status |-> r.status, ok |-> none, length |-> streak,
              failTh |-> r.failTh, recTh |-> r.recTh, open |-> u, told |-> v]
  BY DEF Shape
<1> HIDE DEF status, length, none, streak, l, k
<1>5. /\ Life!Recorded(l, ok) =
           AllOf(status, ok, length, r.failTh, r.recTh, o, t)
      /\ Life!Recorded(k, ok) =
           AllOf(status, ok, length, r.failTh, r.recTh, u, v)
  BY <1>3, <1>4, ResultChanges DEF AllOf
<1> QED
  BY <1>5, EventChanges DEF l, k

(* A monitor's life does not change with what it is not made of. *)
LEMMA SameLife ==
  ASSUME NEW n \in Monitor, n \in live' <=> n \in live,
         n \in live => row'[n] = row[n] /\ lastEvent'[n] = lastEvent[n],
         \A k \in Incident : incident'[k] = Opened(n) <=> incident[k] = Opened(n)
  PROVE  LifeOf(n)' = LifeOf(n)
<1>1. OpenOf(n)' = OpenOf(n)
  BY DEF OpenOf, Opened
<1> QED
  BY <1>1 DEF LifeOf

LEMMA OneLifeChanges ==
  ASSUME NEW m \in Monitor, \A n \in Monitor \ {m} : LifeOf(n)' = LifeOf(n)
  PROVE  Lives' = [Lives EXCEPT ![m] = LifeOf(m)']
BY DEF Lives

(* A free incident is nobody's open one. *)
LEMMA FreeIsUnused ==
  ASSUME TypeOK, NEW i \in Incident, incident[i] = NoOne
  PROVE  i \in Life!Unused
<1>1. ASSUME NEW m \in Monitor, Lives[m] # Life!Gone PROVE Lives[m].open # i
  <2>1. m \in live /\ Lives[m].open = TheOpen(m)
    BY <1>1, LifeIsShape DEF Lives, Shape
  <2>2. i \notin OpenOf(m)
    BY OpenedIsEntry DEF OpenOf
  <2>3. OpenOf(m) = {} \/ TheOpen(m) \in OpenOf(m)
    BY DEF TheOpen
  <2>4. i # NoOne
    BY ProcessAssumption
  <2> QED
    BY <2>1, <2>2, <2>3, <2>4 DEF TheOpen
<1> QED
  BY <1>1 DEF Life!Unused, Lives

(* A recorded result is a result of MonitorLife. *)
LEMMA CommitIsResult ==
  ASSUME Base, Base', Announced, Counted, NEW p \in Process, NEW m \in Monitor,
         RecordCommit(p, m)
  PROVE  Life!Result(m)
<1> DEFINE ok  == job[p].ok
           r   == row[m]
           new == Life!Recorded(Lives[m], ok)
<1>0. TypeOK /\ TypeOK'
  BY DEF Base
<1>1. /\ m \in live /\ live' = live /\ ok \in BOOLEAN
      /\ row' = [row EXCEPT ![m] = ApplyResult(r, ok)]
  BY CommitWrites DEF RecordCommit
<1>2. r \in Rows /\ r.status # "paused" /\ (r.fails = 0 \/ r.succs = 0)
  BY <1>0, <1>1 DEF Counted, CountersAreExact, TypeOK
<1>3. Lives[m] = Shape(r, TheOpen(m), lastEvent[m]) /\ Lives[m] # Life!Gone
  BY <1>1, <1>2, LifeIsShape, ShapeIsNotGone DEF Lives
<1>4. row'[m] = ApplyResult(r, ok) /\ \A n \in Monitor \ {m} : row'[n] = row[n]
  BY <1>0, <1>1 DEF TypeOK
<1> HIDE DEF ok, r
<1>5. LifeOf(m)' = Shape(ApplyResult(r, ok), TheOpen(m)', lastEvent'[m])
  BY <1>1, <1>4, NextLifeIsShape, Zenon
<1>6. LifeOf(m)' = [new EXCEPT !.open = TheOpen(m)', !.told = lastEvent'[m]]
  <2>1. LifeOf(m)' = Life!Recorded(Shape(r, TheOpen(m)', lastEvent'[m]), ok)
    BY <1>1, <1>2, <1>5, ShapeOfResult
  <2>2. new = Life!Recorded(Shape(r, TheOpen(m), lastEvent[m]), ok)
    BY <1>3
  <2>3. Life!Recorded(Shape(r, TheOpen(m)', lastEvent'[m]), ok) =
          WithEvent(Life!Recorded(Shape(r, TheOpen(m), lastEvent[m]), ok),
                    TheOpen(m)', lastEvent'[m])
    BY RecordedKeepsRest
  <2> HIDE DEF new
  <2> QED
    BY <2>1, <2>2, <2>3, Zenon DEF WithEvent
<1>7. /\ Lives[m].status = r.status /\ new.status = row'[m].status
      /\ Lives[m].open = TheOpen(m)
  <2>1. LifeOf(m)'.status = row'[m].status
    BY <1>4, <1>5 DEF Shape
  <2>2. new.status = LifeOf(m)'.status
    BY <1>3, <1>6 DEF Life!Recorded, Shape
  <2> QED
    BY <1>3, <2>1, <2>2 DEF Shape
<1>8. ASSUME \A n \in Monitor \ {m}, k \in Incident :
               incident'[k] = Opened(n) <=> incident[k] = Opened(n),
             \A n \in Monitor \ {m} : lastEvent'[n] = lastEvent[n]
      PROVE  Lives' = [Lives EXCEPT ![m] =
               [new EXCEPT !.open = TheOpen(m)', !.told = lastEvent'[m]]]
  <2> HIDE DEF new
  <2>1. \A n \in Monitor \ {m} : LifeOf(n)' = LifeOf(n)
    BY <1>1, <1>4, <1>8, SameLife
  <2> QED
    BY <1>6, <2>1, OneLifeChanges
<1> HIDE DEF new
<1>9. CASE /\ r.status # "down" /\ row'[m].status = "down"
           /\ OpenOf(m) = {}
           /\ \E i \in Incident :
                /\ incident[i] = NoOne
                /\ incident' = [incident EXCEPT ![i] = Opened(m)]
                /\ lastEvent' = [lastEvent EXCEPT ![m] =
                                  [kind |-> "opened", incident |-> i]]
  <2>1. PICK i \in Incident :
          /\ incident[i] = NoOne
          /\ incident' = [incident EXCEPT ![i] = Opened(m)]
          /\ lastEvent' = [lastEvent EXCEPT ![m] =
                            [kind |-> "opened", incident |-> i]]
    BY <1>9
  <2>2. OpenOf(m)' = {i}
    BY <1>0, <1>9, <2>1 DEF OpenOf, Opened, TypeOK
  <2>3. TheOpen(m)' = i
    BY <2>2 DEF TheOpen
  <2>4. lastEvent'[m] = [kind |-> "opened", incident |-> i]
    BY <1>0, <2>1 DEF TypeOK
  <2>5. \A n \in Monitor \ {m}, k \in Incident :
          incident'[k] = Opened(n) <=> incident[k] = Opened(n)
    <3>1. \A n \in Monitor \ {m} : Opened(n) # Opened(m) /\ Opened(n) # NoOne
      BY OpenedIsEntry
    <3> QED
      BY <1>0, <2>1, <3>1 DEF TypeOK
  <2>6. \A n \in Monitor \ {m} : lastEvent'[n] = lastEvent[n]
    BY <1>0, <2>1 DEF TypeOK
  <2>7. Lives' = [Lives EXCEPT ![m] =
          [new EXCEPT !.open = i, !.told = [kind |-> "opened", incident |-> i]]]
    BY <1>8, <2>3, <2>4, <2>5, <2>6
  <2>8. i \in Life!Unused
    BY <1>0, <2>1, FreeIsUnused
  <2>9. Life!GoesDown(m, new)
    BY <1>7, <1>9, <2>7, <2>8 DEF Life!GoesDown, Lives
  <2> QED
    BY <1>1, <1>3, <2>9 DEF Life!Result, Lives, new
<1>10. CASE /\ r.status = "down" /\ row'[m].status = "up"
            /\ \E i \in Incident :
                 /\ OpenOf(m) = {i}
                 /\ incident' = [incident EXCEPT ![i] =
                                  [monitor |-> m, status |-> "resolved"]]
                 /\ lastEvent' = [lastEvent EXCEPT ![m] =
                                   [kind |-> "resolved", incident |-> i]]
  <2>1. PICK i \in Incident :
          /\ OpenOf(m) = {i}
          /\ incident' = [incident EXCEPT ![i] =
                           [monitor |-> m, status |-> "resolved"]]
          /\ lastEvent' = [lastEvent EXCEPT ![m] =
                            [kind |-> "resolved", incident |-> i]]
    BY <1>10
  <2>2. OpenOf(m)' = {}
    BY <1>0, <2>1 DEF OpenOf, Opened, TypeOK
  <2>3. TheOpen(m) = i /\ TheOpen(m)' = NoOne
    BY <2>1, <2>2 DEF TheOpen
  <2>4. lastEvent'[m] = [kind |-> "resolved", incident |-> i]
    BY <1>0, <2>1 DEF TypeOK
  <2>5. \A n \in Monitor \ {m}, k \in Incident :
          incident'[k] = Opened(n) <=> incident[k] = Opened(n)
    <3>1. ASSUME NEW n \in Monitor \ {m}
          PROVE  /\ Opened(n) # [monitor |-> m, status |-> "resolved"]
                 /\ Opened(n) # Opened(m) /\ incident[i] = Opened(m)
      BY <2>1, OpenedIsEntry DEF OpenOf, Opened
    <3> QED
      BY <1>0, <2>1, <3>1 DEF TypeOK
  <2>6. \A n \in Monitor \ {m} : lastEvent'[n] = lastEvent[n]
    BY <1>0, <2>1 DEF TypeOK
  <2>7. Lives' = [Lives EXCEPT ![m] =
          [new EXCEPT !.open = NoOne,
                      !.told = [kind |-> "resolved", incident |-> Lives[m].open]]]
    BY <1>7, <1>8, <2>3, <2>4, <2>5, <2>6
  <2>8. Life!ComesUp(m, new)
    BY <1>7, <1>10, <2>7 DEF Life!ComesUp, Lives
  <2> QED
    BY <1>1, <1>3, <2>8 DEF Life!Result, Lives, new
<1>11. CASE /\ r.status = "down" <=> row'[m].status = "down"
            /\ UNCHANGED <<incident, lastEvent>>
  <2>1. TheOpen(m)' = TheOpen(m)
    BY <1>11 DEF TheOpen, OpenOf, Opened
  <2>2. Lives' = [Lives EXCEPT ![m] = new]
    <3>1. LifeOf(m)' = new
      <4>1. LifeOf(m)' = Shape(ApplyResult(r, ok), TheOpen(m), lastEvent[m])
        BY <1>5, <1>11, <2>1
      <4> QED
        BY <1>1, <1>2, <1>3, <4>1, ShapeOfResult DEF new
    <3>2. \A n \in Monitor \ {m} : LifeOf(n)' = LifeOf(n)
      BY <1>1, <1>4, <1>11, SameLife
    <3> QED
      BY <3>1, <3>2, OneLifeChanges
  <2>3. Life!Stays(m, new)
    BY <1>7, <1>11, <2>2 DEF Life!Stays, Lives
  <2> QED
    BY <1>1, <1>3, <2>3 DEF Life!Result, Lives, new
<1> QED
  BY <1>9, <1>10, <1>11, CommitAnnounces DEF r

(* Every other step is one of MonitorLife too, or changes nothing of it. *)
LEMMA StepImplements ==
  ASSUME Base, Base', Announced, Counted, [Next]_vars
  PROVE  [Life!Next]_Lives
<1>0. TypeOK /\ TypeOK'
  BY DEF Base
<1>1. CASE Still
  BY <1>1, SameLife DEF Still, Lives
<1>2. ASSUME NEW p \in Process, NEW m \in Monitor, RecordCommit(p, m)
      PROVE  Life!Next
  BY <1>2, CommitIsResult DEF Life!Next
<1>3. ASSUME NEW p \in Process, NEW m \in Monitor, EditCommit(p, m)
      PROVE  Life!Next
  <2>1. PICK f \in Thresholds, r \in Thresholds :
          row' = [row EXCEPT ![m] = [row[m] EXCEPT !.failTh = f, !.recTh = r]]
    BY <1>3, EditWrites
  <2>2. m \in live /\ UNCHANGED <<live, incident, lastEvent>>
    BY <1>3, EditWrites DEF EditCommit
  <2>3. \A n \in Monitor \ {m} : LifeOf(n)' = LifeOf(n)
    BY <1>0, <2>1, <2>2, SameLife DEF TypeOK
  <2>4. TheOpen(m)' = TheOpen(m)
    BY <2>2 DEF TheOpen, OpenOf, Opened
  <2>5. LifeOf(m)' = Shape([row[m] EXCEPT !.failTh = f, !.recTh = r],
                           TheOpen(m), lastEvent[m])
    <3>1. row'[m] = [row[m] EXCEPT !.failTh = f, !.recTh = r]
      BY <1>0, <2>1 DEF TypeOK
    <3> QED
      BY <2>2, <2>4, <3>1, NextLifeIsShape, Zenon
  <2>6. LifeOf(m)' = [Lives[m] EXCEPT !.failTh = f, !.recTh = r]
    <3>1. Lives[m] = Shape(row[m], TheOpen(m), lastEvent[m]) /\ row[m] \in Rows
      BY <1>0, <2>2, LifeIsShape DEF Lives, TypeOK
    <3> QED
      <4>1. LifeOf(m)' = Shape(WithLimits(row[m], f, r), TheOpen(m), lastEvent[m])
        BY <2>5, Zenon DEF WithLimits
      <4>2. LifeOf(m)' = WithLimits(Lives[m], f, r)
        BY <3>1, <4>1, ShapeOfEdit
      <4> QED
        BY <4>2, Zenon DEF WithLimits
  <2>7. Lives[m] # Life!Gone
    BY <1>0, <2>2, LifeIsShape, ShapeIsNotGone DEF Lives, TypeOK
  <2>8. Lives' = [Lives EXCEPT ![m] = [Lives[m] EXCEPT !.failTh = f, !.recTh = r]]
    BY <2>3, <2>6, OneLifeChanges
  <2> QED
    <3>1. Life!Edit(m)
      BY <2>7, <2>8 DEF Life!Edit, Life!Limits, Lives, Thresholds
    <3> QED
      BY <3>1 DEF Life!Next
<1>4. ASSUME NEW m \in Monitor, Create(m) PROVE Life!Next
  <2>1. PICK f \in Thresholds, r \in Thresholds :
          row' = [row EXCEPT ![m] = NewRow(f, r)]
    BY <1>4 DEF Create
  <2>2. /\ m \notin live /\ live' = live \cup {m} /\ incident' = incident
        /\ lastEvent' = [lastEvent EXCEPT ![m] = NoOne]
    BY <1>4 DEF Create
  <2>3. \A n \in Monitor \ {m} : LifeOf(n)' = LifeOf(n)
    BY <1>0, <2>1, <2>2, SameLife DEF TypeOK
  <2>4. TheOpen(m)' = NoOne
    <3>1. OpenOf(m)' = {}
      BY <2>2, OpenedIsEntry DEF OpenOf, Opened, Announced, DownIffOpenIncident
    <3> QED
      BY <3>1 DEF TheOpen
  <2>5. LifeOf(m)' = Life!Born(f, r)
    BY <1>0, <2>1, <2>2, <2>4
       DEF LifeOf, TheOpen, NewRow, Life!Born, TypeOK
  <2>6. Lives' = [Lives EXCEPT ![m] = Life!Born(f, r)]
    BY <2>3, <2>5, OneLifeChanges
  <2>7. Lives[m] = Life!Gone
    BY <2>2, LifeIsShape DEF Lives
  <2> QED
    BY <2>6, <2>7 DEF Life!Next, Life!Create, Life!Limits, Lives, Thresholds
<1>5. ASSUME NEW m \in Monitor, Delete(m) PROVE Life!Next
  <2>1. /\ m \in live /\ live' = live \ {m} /\ UNCHANGED <<row, lastEvent>>
        /\ incident' = [i \in Incident |->
             IF incident[i] # NoOne /\ incident[i].monitor = m
               THEN NoOne ELSE incident[i]]
    BY <1>5 DEF Delete
  <2>2. ASSUME NEW n \in Monitor \ {m}, NEW k \in Incident
        PROVE  incident'[k] = Opened(n) <=> incident[k] = Opened(n)
    BY <2>1, <2>2, OpenedIsEntry
  <2>3. \A n \in Monitor \ {m} : LifeOf(n)' = LifeOf(n)
    BY <2>1, <2>2, SameLife
  <2>4. LifeOf(m)' = Life!Gone
    BY <2>1 DEF LifeOf, Life!Gone
  <2>5. Lives' = [Lives EXCEPT ![m] = Life!Gone]
    BY <2>3, <2>4, OneLifeChanges
  <2>6. Lives[m] # Life!Gone
    BY <1>0, <2>1, LifeIsShape, ShapeIsNotGone DEF Lives, TypeOK
  <2> QED
    BY <2>5, <2>6 DEF Life!Next, Life!Delete, Lives
<1>6. ASSUME NEW i \in Incident, Purge(i) PROVE Lives' = Lives
  <2>1. UNCHANGED <<row, live, lastEvent>>
    BY <1>6 DEF Purge
  <2>2. ASSUME NEW n \in Monitor, NEW k \in Incident
        PROVE  incident'[k] = Opened(n) <=> incident[k] = Opened(n)
    BY <1>0, <1>6, <2>2, OpenedIsEntry DEF Purge, TypeOK
  <2> QED
    BY <2>1, <2>2, SameLife DEF Lives
<1> QED
  BY <1>1, <1>2, <1>3, <1>4, <1>5, <1>6, StepKinds

(* Whatever overlaps, results, edits and deletions have the effects they have one
   at a time: CheckRecording implements MonitorLife. *)
THEOREM RecordingIsSerial == Spec => OneAtATime
<1>1. Init => Life!Init
  BY DEF Init, Life!Init, LifeOf, Life!Gone
<1>2. Base /\ Base' /\ Announced /\ Counted /\ [Next]_vars => [Life!Next]_Lives
  BY StepImplements
<1> QED
  BY <1>1, <1>2, AnnouncedInvariant, CountedInvariant, PTL
     DEF Spec, OneAtATime, Life!Spec, Lives

(* All of what record and update rest on holds for any number of checks, edits,
   monitors and incidents and any thresholds. *)
THEOREM RecordingHolds == Spec => []RecordingInv
BY TypeCorrect, NoLostUpdate, OpenIncidentMeansDown, IndexIsNeverHit,
   AnnouncementsAreTrue, PTL DEF RecordingInv

=============================================================================
