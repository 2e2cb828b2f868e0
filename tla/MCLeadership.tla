---------------------------- MODULE MCLeadership ----------------------------
(***************************************************************************)
(* Leadership for TLC: two nodes and one config.                            *)
(***************************************************************************)
EXTENDS Leadership

CONSTANTS n1, n2, c1

=============================================================================
