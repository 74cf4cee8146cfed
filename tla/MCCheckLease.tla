---------------------------- MODULE MCCheckLease ----------------------------
(* Small instances of CheckLease for TLC. *)
EXTENDS CheckLease, TLC

(* Schedulers, monitors and tokens are interchangeable: CheckLease compares
   them for equality only. *)
Symmetry ==
  Permutations(Scheduler) \cup Permutations(Monitor) \cup Permutations(Token)
=============================================================================
