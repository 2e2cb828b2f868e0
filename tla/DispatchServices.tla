-------------------------- MODULE DispatchServices --------------------------
(***************************************************************************)
(* Session and the Discovery of its hosts side by side.  They share no      *)
(* variable.  The names without D! are Session's.                           *)
(***************************************************************************)
EXTENDS Session, Sequences

CONSTANTS Sessions, Groups, Geo, Kinds, Answers, MaxAsked  \* of Discovery

VARIABLES kind, cache, answers, group, geo, allHosts, listed

discoveryVars == <<kind, cache, answers, group, geo, allHosts, listed>>

D == INSTANCE Discovery WITH asked <- answers, hosts <- allHosts

ASSUME DispatchAssumption == SessionAssumption /\ D!DiscoveryAssumption

DiscoverySpec == D!Init /\ [][D!Next]_discoveryVars

-----------------------------------------------------------------------------
(* Properties *)

\* The hosts of a session are what the services listed for its groups
\* (common/discovery.go:173-277, 306-387, 410-454, 492-553).
HostsAsListed == D!HostsAsListed

=============================================================================
