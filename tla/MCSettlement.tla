----------------------------- MODULE MCSettlement -----------------------------
(* Settlement on small instances: settlements are interchangeable. *)
EXTENDS Settlement, TLC

Symmetry == Permutations(Settler)
=============================================================================
