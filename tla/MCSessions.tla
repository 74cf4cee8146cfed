----------------------------- MODULE MCSessions -----------------------------
(* Small instances of Sessions for TLC. *)
EXTENDS Sessions, TLC

(* Tabs, requests and organizations are compared for equality only. *)
Symmetry ==
  Permutations(Tab) \cup Permutations(Req) \cup Permutations(Organization)
=============================================================================
