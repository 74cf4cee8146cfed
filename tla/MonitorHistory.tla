--------------------------- MODULE MonitorHistory ---------------------------
(***************************************************************************)
(* A monitor and the history of the results recorded for it, to compare    *)
(* apply_check_result, which keeps two counters, with what the thresholds  *)
(* mean: a definition over the whole history that keeps none.              *)
(***************************************************************************)
EXTENDS MonitorState, Sequences

CONSTANT MaxResults  \* bound of the history

VARIABLES mon,   \* the monitor's status, counters and thresholds
          hist   \* the successes and failures so far

vars == <<mon, hist>>

Pending(f, r) ==
  [status |-> "pending", fails |-> 0, succs |-> 0, failTh |-> f, recTh |-> r]

Init ==
  /\ hist = <<>>
  /\ \E f, r \in Thresholds : mon = Pending(f, r)

Record(success) ==
  /\ Len(hist) < MaxResults
  /\ hist' = Append(hist, success)
  /\ mon' = ApplyResult(mon, success)

Next == \E success \in BOOLEAN : Record(success)

Spec == Init /\ [][Next]_vars

-----------------------------------------------------------------------------
(* The results from i to j of the history h are all alike. *)
All(h, i, j, success) == i >= 1 /\ \A k \in i .. j : h[k] = success

(* The last streak of failTh failures has not been followed by a streak of recTh
   successes. *)
IsDown(h, failTh, recTh) ==
  \E i \in 1 .. Len(h) :
    /\ All(h, i - failTh + 1, i, FALSE)
    /\ ~ \E j \in i + recTh .. Len(h) : All(h, j - recTh + 1, j, TRUE)

IsPending(h) == \A k \in 1 .. Len(h) : ~h[k]

(* The status is a function of the history alone: DOWN from failure_threshold
   failures in a row until recovery_threshold successes in a row, otherwise
   PENDING before the first success and UP after it. *)
StatusFollowsHistory ==
  mon.status = IF IsDown(hist, mon.failTh, mon.recTh) THEN "down"
               ELSE IF IsPending(hist) THEN "pending" ELSE "up"

-----------------------------------------------------------------------------
(* The inductive invariant behind it. *)

TypeOK ==
  /\ mon \in [status : {"pending", "up", "down"}, fails : 0 .. MaxThreshold,
              succs : 0 .. MaxThreshold, failTh : Thresholds, recTh : Thresholds]
  /\ hist \in Seq(BOOLEAN)

(* The last n results of h are alike, and no more if more could be counted. *)
Streak(h, n, success) ==
  /\ n <= Len(h) /\ All(h, Len(h) - n + 1, Len(h), success)
  /\ n < MaxThreshold /\ n < Len(h) => h[Len(h) - n] # success

CountersFollowHistory == Streak(hist, mon.fails, FALSE) /\ Streak(hist, mon.succs, TRUE)

HistoryInv == TypeOK /\ CountersFollowHistory /\ StatusFollowsHistory
=============================================================================
