----------------------------- MODULE MCConsole -----------------------------
(* Console on small instances: requests of a kind are interchangeable, and   *)
(* so are the workers.                                                       *)
EXTENDS Console, TLC

Symmetry == Permutations(Drive) \cup Permutations(Stop) \cup Permutations(Nudge)
                \cup Permutations(Worker)
=============================================================================
