------------------------------- MODULE MCFSM -------------------------------
(***************************************************************************)
(* TimedFSM for TLC: this node, one other host, two configurations.         *)
(***************************************************************************)
EXTENDS TimedFSM

CONSTANTS me, other, c1, c2

=============================================================================
