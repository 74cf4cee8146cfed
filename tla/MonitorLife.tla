---------------------------- MODULE MonitorLife ----------------------------
(***************************************************************************)
(* What the check service promises about a monitor, whoever checks it: its *)
(* results, edits and deletion take effect one at a time, the streak of    *)
(* results alone decides its status, and its incident opens and closes     *)
(* with that status and is announced in the same step.  There are no       *)
(* transactions, locks or leases here, no counters and no incidents table. *)
(* CheckRecording implements it.                                           *)
(***************************************************************************)
EXTENDS Naturals

CONSTANTS Monitor,      \* monitor ids
          Incident,     \* incident ids
          NoOne,        \* no incident, no event
          MaxThreshold  \* bound of both thresholds

VARIABLE life  \* all there is to say of each monitor

Limits == 1 .. MaxThreshold
Gone   == [status |-> "gone"]

Born(f, r) ==
  [status |-> "pending", ok |-> TRUE, length |-> 0, failTh |-> f, recTh |-> r,
   open |-> NoOne, told |-> NoOne]

Init == life = [m \in Monitor |-> Gone]

(* The length of a streak after one more result; only its relation to the
   thresholds matters. *)
Longer(n) == IF n < MaxThreshold THEN n + 1 ELSE n
Length(l, ok) == IF l.ok = ok THEN Longer(l.length) ELSE 1

(* apply_check_result: failure_threshold failures take a monitor down, and
   recovery_threshold successes bring it up again. *)
Verdict(l, ok) ==
  IF ok THEN IF l.status = "down" /\ Length(l, ok) < l.recTh THEN "down" ELSE "up"
        ELSE IF Length(l, ok) >= l.failTh THEN "down" ELSE l.status

Recorded(l, ok) ==
  [l EXCEPT !.status = Verdict(l, ok), !.ok = ok, !.length = Length(l, ok)]

(* An incident that nobody has open. *)
Unused == {i \in Incident : \A m \in Monitor : life[m] # Gone => life[m].open # i}

GoesDown(m, new) ==
  /\ life[m].status # "down" /\ new.status = "down"
  /\ \E i \in Unused : life' = [life EXCEPT ![m] =
       [new EXCEPT !.open = i, !.told = [kind |-> "opened", incident |-> i]]]

(* The incident that is resolved is the one that was open. *)
ComesUp(m, new) ==
  /\ life[m].status = "down" /\ new.status # "down"
  /\ life' = [life EXCEPT ![m] =
       [new EXCEPT !.open = NoOne,
                   !.told = [kind |-> "resolved", incident |-> life[m].open]]]

Stays(m, new) ==
  /\ life[m].status = "down" <=> new.status = "down"
  /\ life' = [life EXCEPT ![m] = new]

(* record, outside maintenance. *)
Result(m) ==
  /\ life[m] # Gone
  /\ \E ok \in BOOLEAN : LET new == Recorded(life[m], ok)
                         IN  GoesDown(m, new) \/ ComesUp(m, new) \/ Stays(m, new)

Create(m) ==
  /\ life[m] = Gone
  /\ \E f, r \in Limits : life' = [life EXCEPT ![m] = Born(f, r)]

(* update: nothing changes but the thresholds. *)
Edit(m) ==
  /\ life[m] # Gone
  /\ \E f, r \in Limits :
       life' = [life EXCEPT ![m] = [@ EXCEPT !.failTh = f, !.recTh = r]]

Delete(m) ==
  /\ life[m] # Gone
  /\ life' = [life EXCEPT ![m] = Gone]

Next == \E m \in Monitor : Result(m) \/ Create(m) \/ Edit(m) \/ Delete(m)

Spec == Init /\ [][Next]_life
=============================================================================
