----------------------------- MODULE MCRateLimit -----------------------------
(* RateLimit on small instances: callers are interchangeable. *)
EXTENDS RateLimit, TLC

Symmetry == Permutations(Caller)
=============================================================================
