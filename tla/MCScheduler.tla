---------------------------- MODULE MCScheduler ----------------------------
(***************************************************************************)
(* Scheduler for TLC.                                                       *)
(***************************************************************************)
EXTENDS Scheduler

CONSTANTS h1, h2, h3, c1, c2, c3, c4, c5

\* No step prefers a host or a config.
Symmetry == Permutations(Hosts) \union Permutations(Configs)

(***************************************************************************)
(* Settling from the assignments that need several rounds: the repository   *)
(* lists every config, each config is on one host, dead or alive, or on     *)
(* none.                                                                    *)
(***************************************************************************)
ScannedInit ==
  /\ Init
  /\ repo = Configs
  /\ \A c \in Configs : Cardinality(Holders(c)) =< 1

SettleSpec == ScannedInit /\ Settling

=============================================================================
