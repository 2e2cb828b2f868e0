------------------------------ MODULE MCWorker ------------------------------
(***************************************************************************)
(* Worker for TLC: two of the parser calls have a key in common.            *)
(***************************************************************************)
EXTENDS Worker

CONSTANTS j1, j2, j3, j4, k1, s1, s2, s3

CommonKey == [j \in Jobs |-> IF j \in {j1, j2} THEN k1 ELSE j]

=============================================================================
