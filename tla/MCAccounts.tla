----------------------------- MODULE MCAccounts -----------------------------
(* Small instances of Accounts for TLC. *)
EXTENDS Accounts, TLC

(* Users and requests are compared for equality only. *)
Symmetry == Permutations(User) \cup Permutations(Request)
=============================================================================
