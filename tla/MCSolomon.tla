----------------------------- MODULE MCSolomon -----------------------------
(* Instances of Solomon for TLC. *)
EXTENDS Solomon, TLC

CONSTANTS s1, s2, s3, w1, w2

Symmetry == Permutations(Calls) \union Permutations(Workers)
=============================================================================
