---------------------------- MODULE MonitorState ----------------------------
(***************************************************************************)
(* What one recorded result does to a monitor: apply_check_result, and the *)
(* incident transition that CheckService derives from the two statuses.    *)
(***************************************************************************)
EXTENDS Naturals

CONSTANT MaxThreshold  \* bound of both thresholds; the schemas have 10

ASSUME ThresholdAssumption == MaxThreshold \in Nat \ {0}

Status     == {"pending", "up", "down", "paused"}
Thresholds == 1 .. MaxThreshold

(* One more consecutive result.  The counters are compared with thresholds
   only, so counting stops at the largest threshold. *)
More(n) == IF n < MaxThreshold THEN n + 1 ELSE n

(* The status after a success, by then the succs-th in a row. *)
AfterSuccess(mon, succs) ==
  IF mon.status = "pending" \/ (mon.status = "down" /\ succs >= mon.recTh)
    THEN "up" ELSE mon.status

(* The status after a failure, by then the fails-th in a row. *)
AfterFailure(mon, fails) == IF fails >= mon.failTh THEN "down" ELSE mon.status

(* Mutants of ApplyResult: a success does not restart the count of failures;
   recovery takes one success more than its threshold says. *)
ApplyResult_NoReset(mon, success) ==
  IF success
    THEN [mon EXCEPT !.status = AfterSuccess(mon, More(mon.succs)),
                     !.succs = More(mon.succs)]
    ELSE [mon EXCEPT !.status = AfterFailure(mon, More(mon.fails)),
                     !.fails = More(mon.fails), !.succs = 0]

ApplyResult_Late(mon, success) ==
  IF success
    THEN [mon EXCEPT !.status = AfterSuccess(mon, mon.succs),
                     !.fails = 0, !.succs = More(mon.succs)]
    ELSE [mon EXCEPT !.status = AfterFailure(mon, More(mon.fails)),
                     !.fails = More(mon.fails), !.succs = 0]

ApplyResult(mon, success) ==
  IF mon.status = "paused" THEN mon
  ELSE IF success
    THEN [mon EXCEPT !.status = AfterSuccess(mon, More(mon.succs)),
                     !.fails = 0, !.succs = More(mon.succs)]
    ELSE [mon EXCEPT !.status = AfterFailure(mon, More(mon.fails)),
                     !.fails = More(mon.fails), !.succs = 0]

(* _handle_incident_transition opens an incident when a monitor goes down and
   resolves the open one when it comes up again. *)
Opens(before, after)    == before # "down" /\ after = "down"
Resolves(before, after) == before = "down" /\ after = "up"
=============================================================================
