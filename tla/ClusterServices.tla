-------------------------- MODULE ClusterServices --------------------------
(***************************************************************************)
(* Membership, Shutdown and Resolver side by side.  They share no variable. *)
(* Two variables are named for what sets them apart from Leadership's:      *)
(* assigned is the store of Membership, goroutine the loops of Shutdown.    *)
(***************************************************************************)
EXTENDS Integers, Sequences, FiniteSets

CONSTANTS
  Hosts, Me, Listed, Expect, QueueSize, MaxChanges, MaxTerms,  \* of Membership
  LeaderLoops,                                                 \* of Shutdown
  MaxVersion                                                   \* of Resolver

VARIABLES
  status, changes, eventCh, expect, raft, leading, terms, servers, assigned, reconcileCh,
  pc, listening, todo, member,
  server, goroutine, field, reads, closed,
  members, rn, tick, armed, watcher, looked, addrs, close, asked

membershipVars ==
  <<status, changes, eventCh, expect, raft, leading, terms, servers, assigned, reconcileCh,
    pc, listening, todo, member>>
shutdownVars == <<server, goroutine, field, reads, closed>>
resolverVars == <<members, rn, tick, armed, watcher, looked, addrs, close, asked>>

Cluster == INSTANCE Membership WITH Configs <- Listed, store <- assigned
Stop == INSTANCE Shutdown WITH loop <- goroutine
Addrs == INSTANCE Resolver

ASSUME ClusterAssumption ==
  /\ Cluster!MembershipAssumption /\ Stop!ShutdownAssumption /\ Addrs!ResolverAssumption

MembershipMoves == Cluster!Next /\ UNCHANGED <<shutdownVars, resolverVars>>
ShutdownMoves == Stop!Next /\ UNCHANGED <<membershipVars, resolverVars>>
ResolverMoves == Addrs!Next /\ UNCHANGED <<membershipVars, shutdownVars>>

ClusterInit == Cluster!Init /\ Stop!Init /\ Addrs!Init

ClusterNext == MembershipMoves \/ ShutdownMoves \/ ResolverMoves

ClusterSpec == ClusterInit /\ [][ClusterNext]_<<membershipVars, shutdownVars, resolverVars>>

-----------------------------------------------------------------------------
(* Properties *)

\* Only a server without configs is removed, whichever of the commands that
\* take them away fails (combainer/leader.go:153-187).
RemovedHasNoConfigs == Cluster!RemovedHasNoConfigs

\* A loop in its select when Shutdown closes shutdownCh does not stay there,
\* whenever the field is set to nil (combainer/cluster.go:361-366).
WaitingLoopsEnd == Stop!WaitingLoopsEnd

\* gRPC gets no addresses after Close has returned, and no older list after a
\* newer one (combainer/resolver.go:74-97).
AddressesInOrder == Addrs!AddressesInOrder

\* No ResolveNow is lost, addresses never go back in time nor come after
\* Close, and Close returns (combainer/resolver.go:66-97).
ResolverServes ==
  AddressesInOrder /\ Addrs!ResolveNowServed /\ Addrs!CloseReturns

=============================================================================
