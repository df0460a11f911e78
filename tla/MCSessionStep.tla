--------------------------- MODULE MCSessionStep ---------------------------
(* SessionStep on small instances: attempts are interchangeable. *)
EXTENDS SessionStep, TLC

Symmetry == Permutations(Attempt) \cup Permutations(Settler)
=============================================================================
