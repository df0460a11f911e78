------------------------------- MODULE MCPage -------------------------------
(* Page on small instances: requests of a kind are interchangeable. *)
EXTENDS Page, TLC

Symmetry == Permutations(Stream) \cup Permutations(Click)
=============================================================================
