------------------------------ MODULE Resolver ------------------------------
(***************************************************************************)
(* The gRPC resolver of the scheme serf (combainer/resolver.go): a watcher  *)
(* goroutine that gives the addresses of the cluster's members to gRPC when *)
(* its timer fires or ResolveNow asks for it, until Close.                  *)
(*                                                                         *)
(* The member list is external and is known by its version.                 *)
(***************************************************************************)
EXTENDS Naturals

CONSTANT MaxVersion  \* bound on the changes of the member list

ResolverAssumption == MaxVersion \in Nat

VARIABLES
  members,  \* the version of the member list
  rn,       \* the channel rn holds a request
  tick,     \* the channel r.t.C holds a tick
  armed,    \* the timer runs
  watcher,  \* "select", "resolve", "publish" or "gone"
  looked,   \* the version that resolve looked up
  addrs,    \* the version that gRPC has been given
  close,    \* Close: "no", "waiting" for the watcher, or "returned"
  asked     \* the version at the last ResolveNow (a history variable)

vars == <<members, rn, tick, armed, watcher, looked, addrs, close, asked>>

\* Build: NewTimer(0), and the watcher.
Init ==
  /\ members = 1 /\ rn = FALSE /\ tick = FALSE /\ armed = TRUE
  /\ watcher = "select" /\ looked = 0 /\ addrs = 0 /\ close = "no" /\ asked = 0

MembersChange ==
  /\ members < MaxVersion /\ members' = members + 1
  /\ UNCHANGED <<rn, tick, armed, watcher, looked, addrs, close, asked>>

\* A send that is dropped unless the watcher waits for it.
ResolveNowUnbuffered ==
  /\ close = "no"
  /\ rn' = (rn \/ watcher = "select")
  /\ asked' = members
  /\ UNCHANGED <<members, tick, armed, watcher, looked, addrs, close>>

\* The channel has room for one: a request that finds one there is dropped.
ResolveNow ==
  /\ close = "no"
  /\ rn' = TRUE
  /\ asked' = members
  /\ UNCHANGED <<members, tick, armed, watcher, looked, addrs, close>>

Fire ==
  /\ armed /\ armed' = FALSE /\ tick' = TRUE
  /\ UNCHANGED <<members, rn, watcher, looked, addrs, close, asked>>

\* select: the context first or last, as any other channel that is ready.
Select ==
  /\ watcher = "select"
  /\ \/ close # "no" /\ watcher' = "gone" /\ UNCHANGED <<rn, tick>>
     \/ tick /\ tick' = FALSE /\ watcher' = "resolve" /\ UNCHANGED rn
     \/ rn /\ rn' = FALSE /\ watcher' = "resolve" /\ UNCHANGED tick
  /\ UNCHANGED <<members, armed, looked, addrs, close, asked>>

\* lookup, and Reset: a tick that is in the channel stays there.
Resolve ==
  /\ watcher = "resolve"
  /\ looked' = members /\ armed' = TRUE /\ watcher' = "publish"
  /\ UNCHANGED <<members, rn, tick, addrs, close, asked>>

NewAddress ==
  /\ watcher = "publish"
  /\ addrs' = looked /\ watcher' = "select"
  /\ UNCHANGED <<members, rn, tick, armed, looked, close, asked>>

\* cancel, and wg.Wait begins.
Close ==
  /\ close = "no" /\ close' = "waiting"
  /\ UNCHANGED <<members, rn, tick, armed, watcher, looked, addrs, asked>>

\* The watcher is done, and the timer is stopped.
Closed ==
  /\ close = "waiting" /\ watcher = "gone"
  /\ close' = "returned" /\ armed' = FALSE
  /\ UNCHANGED <<members, rn, tick, watcher, looked, addrs, asked>>

Watch == Select \/ Resolve \/ NewAddress

Next == MembersChange \/ ResolveNow \/ Fire \/ Watch \/ Close \/ Closed

Spec == Init /\ [][Next]_vars

\* The watcher runs; a select with several channels ready does not pass over
\* the context for ever; a Close that can go on does.
Fairness ==
  /\ WF_vars(Watch) /\ SF_vars(Select /\ watcher' = "gone") /\ WF_vars(Closed)

FairSpec == Spec /\ Fairness

-----------------------------------------------------------------------------
(* Properties *)

(***************************************************************************)
(* No ResolveNow is lost: unless the resolver is closed, gRPC is given a    *)
(* member list at least as new as the one at the call, although a request   *)
(* that finds another in the channel is dropped, and the watcher may be     *)
(* anywhere in its loop (resolver.go:66-72, 81-97).                         *)
(***************************************************************************)
ResolveNowServed ==
  \A v \in 1 .. MaxVersion : asked = v ~> (addrs >= v \/ close # "no")

(***************************************************************************)
(* gRPC gets no addresses after Close has returned, and no older list after *)
(* a newer one (resolver.go:74-97).                                         *)
(***************************************************************************)
AddressesInOrder == [][addrs' >= addrs /\ (close = "returned" => addrs' = addrs)]_vars

(***************************************************************************)
(* Close returns (resolver.go:74-79).                                       *)
(***************************************************************************)
CloseReturns == []<>(close # "waiting")

=============================================================================
