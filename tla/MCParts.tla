------------------------------ MODULE MCParts ------------------------------
(* Instances of Parts for TLC. *)
EXTENDS Parts, TLC

CONSTANTS o1, o2  \* the organizations

(* The destination is another organization's, and so is one of the pages. *)
MCHome     == [x \in Owned |-> IF x \in Destination THEN o2 ELSE o1]
MCParent   == [w \in Window |-> CHOOSE m \in Monitor : TRUE]
MCPageHome == [x \in Page \cup Listed |-> IF x \in Others(Page) THEN o2 ELSE o1]

(* The requests are alike, except in StatusPages's and Settings's data. *)
Symmetry == Permutations(Request)
=============================================================================
