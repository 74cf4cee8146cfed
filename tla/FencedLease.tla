---------------------------- MODULE FencedLease ----------------------------
(***************************************************************************)
(* What the lease columns of a table promise to the processes that share   *)
(* it, whoever they are.  In each row a claim installs a token that is not *)
(* the one that is there, a result is accepted from the current holder     *)
(* only, and accepting it gives the lease up in the same step, so that no  *)
(* claim has two accepted results.  One transaction may touch many rows.   *)
(* Processes, locks and clocks are not part of the promise.  CheckLease    *)
(* and NotificationDelivery implement it.                                  *)
(***************************************************************************)
CONSTANTS Item,     \* the rows of the table
          Token,    \* the uuid4 lease tokens
          NoToken   \* NULL in the token column

VARIABLES holder,   \* the token in each row
          accepted  \* the token whose result ended each row's last lease

vars == <<holder, accepted>>

Tables == [Item -> Token \cup {NoToken}]

Init == /\ holder = [i \in Item |-> NoToken]
        /\ accepted = [i \in Item |-> NoToken]

Keep(i) == holder'[i] = holder[i] /\ accepted'[i] = accepted[i]

(* claim_due puts a new token over an absent or an expired one. *)
Claim(i) ==
  holder'[i] \in Token \ {holder[i]} /\ accepted'[i] = NoToken

(* record accepts the holder's result and releases its lease. *)
Accept(i) ==
  holder[i] # NoToken /\ accepted'[i] = holder[i] /\ holder'[i] = NoToken

(* release_check_lease, or the deletion of the row, ends a lease unused. *)
Drop(i) ==
  holder[i] # NoToken /\ accepted'[i] = accepted[i] /\ holder'[i] = NoToken

Next ==
  /\ holder' \in Tables /\ accepted' \in Tables
  /\ \A i \in Item : Keep(i) \/ Claim(i) \/ Accept(i) \/ Drop(i)

Spec == Init /\ [][Next]_vars
=============================================================================
