----------------------------- MODULE MCTTLCache -----------------------------
(* Instances of TTLCache for TLC. *)
EXTENDS TTLCache, TLC

CONSTANTS k1, p1, p2

CallerSymmetry == Permutations(Callers)
=============================================================================
