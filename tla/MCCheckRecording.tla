-------------------------- MODULE MCCheckRecording --------------------------
(* Small instances of CheckRecording for TLC. *)
EXTENDS CheckRecording, TLC

(* Jobs of one kind, monitors and incidents are interchangeable. *)
Symmetry ==
  Permutations(Scheduled) \cup Permutations(Manual) \cup Permutations(Monitor)
    \cup Permutations(Incident)
=============================================================================
