----------------------------- MODULE MCCluster -----------------------------
(***************************************************************************)
(* ClusterServices for TLC.  The three modules share no variable, so that   *)
(* their interleavings add nothing: the initial state chooses which of them *)
(* moves.                                                                   *)
(***************************************************************************)
EXTENDS ClusterServices

CONSTANTS me, h1, c1

VARIABLE part  \* the module that moves

MCInit == part \in {"membership", "shutdown", "resolver"} /\ ClusterInit

MCNext ==
  /\ \/ part = "membership" /\ MembershipMoves
     \/ part = "shutdown" /\ ShutdownMoves
     \/ part = "resolver" /\ ResolverMoves
  /\ UNCHANGED part

MCSpec ==
  /\ MCInit /\ [][MCNext]_<<part, membershipVars, shutdownVars, resolverVars>>
  /\ \/ part = "membership" /\ Cluster!Fairness
     \/ part = "shutdown" /\ Stop!Fairness
     \/ part = "resolver" /\ Addrs!Fairness

-----------------------------------------------------------------------------
(* Properties *)

\* EventHandler never gets stuck on the bounded reconcileCh, and a leader that
\* stays makes good for dropped and outdated events
\* (combainer/cluster.go:336-339, leader.go:94-125).
MembersReconciled ==
  (part = "membership" => Cluster!EventsReceived) /\ Cluster!MembersReconciled

=============================================================================
