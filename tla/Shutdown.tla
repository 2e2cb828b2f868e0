------------------------------ MODULE Shutdown ------------------------------
(***************************************************************************)
(* How a combainer stops (Shutdown of combainer/cluster.go, Serve of        *)
(* server.go): the channel shutdownCh that EventHandler, Run and every      *)
(* leaderLoop select on, each reading the field c.shutdownCh anew in every  *)
(* round, and Shutdown that closes the channel and then sets the field to   *)
(* nil, with no lock between them.                                          *)
(***************************************************************************)
EXTENDS FiniteSets, Naturals

CONSTANT LeaderLoops  \* the leaderLoops that Run may start

ShutdownAssumption == IsFiniteSet(LeaderLoops)

Loops == {"EventHandler", "Run"} \union LeaderLoops

VARIABLES
  server,   \* Serve: "joining", "serving", "closed", "nilled", "raft", "stopped"
  loop,     \* loop[l]: "none", "busy", "select" or "gone"
  field,    \* c.shutdownCh: "chan" or "nil"
  reads,    \* reads[l]: the channel that the select of l waits on
  closed    \* the channel is closed

vars == <<server, loop, field, reads, closed>>

Init ==
  /\ server = "joining"
  /\ loop = [l \in Loops |-> "none"]
  /\ field = "chan" /\ closed = FALSE
  /\ reads = [l \in Loops |-> "chan"]

\* NewCluster starts EventHandler, Serve starts Run once it has joined, and
\* Run starts the leaderLoops.
Starts(l) ==
  /\ loop[l] = "none"
  /\ l = "Run" => server = "serving"
  /\ l \in LeaderLoops => loop["Run"] \notin {"none", "gone"}
  /\ loop' = [loop EXCEPT ![l] = "busy"]
  /\ UNCHANGED <<server, field, reads, closed>>

\* The next round of the loop evaluates c.shutdownCh.
Selects(l) ==
  /\ loop[l] = "busy"
  /\ reads' = [reads EXCEPT ![l] = field]
  /\ loop' = [loop EXCEPT ![l] = "select"]
  /\ UNCHANGED <<server, field, closed>>

\* Another channel of the select is ready.
Works(l) ==
  /\ loop[l] = "select"
  /\ loop' = [loop EXCEPT ![l] = "busy"]
  /\ UNCHANGED <<server, field, reads, closed>>

\* <-c.shutdownCh
Ends(l) ==
  /\ loop[l] = "select" /\ reads[l] = "chan" /\ closed
  /\ loop' = [loop EXCEPT ![l] = "gone"]
  /\ UNCHANGED <<server, field, reads, closed>>

\* joinSerf gets through, and Run is started.
Joined ==
  /\ server = "joining" /\ server' = "serving"
  /\ UNCHANGED <<loop, field, reads, closed>>

\* A Shutdown that only forgets the channel.
CloseForgotten ==
  /\ server \in {"joining", "serving"} /\ field # "nil"
  /\ server' = "closed"
  /\ UNCHANGED <<loop, field, reads, closed>>

\* A signal, or nobody to join; the deferred Shutdown closes the channel,
CloseShutdownCh ==
  /\ server \in {"joining", "serving"} /\ field # "nil"
  /\ closed' = TRUE /\ server' = "closed"
  /\ UNCHANGED <<loop, field, reads>>

\* and sets the field to nil;
SetNil ==
  /\ server = "closed" /\ field' = "nil" /\ server' = "nilled"
  /\ UNCHANGED <<loop, reads, closed>>

\* then it shuts raft down and closes the transport.
StopRaft ==
  /\ server \in {"nilled", "raft"}
  /\ server' = IF server = "nilled" THEN "raft" ELSE "stopped"
  /\ UNCHANGED <<loop, field, reads, closed>>

Next ==
  \/ Joined \/ CloseShutdownCh \/ SetNil \/ StopRaft
  \/ \E l \in Loops : Starts(l) \/ Selects(l) \/ Works(l) \/ Ends(l)

Spec == Init /\ [][Next]_vars

\* Shutdown goes on, loops run, and a select does not pass over a channel
\* that stays ready for ever.
Fairness ==
  /\ WF_vars(SetNil) /\ WF_vars(StopRaft)
  /\ \A l \in Loops : WF_vars(Selects(l)) /\ SF_vars(Ends(l))

FairSpec == Spec /\ Fairness

-----------------------------------------------------------------------------
(* Properties *)

(***************************************************************************)
(* A loop that is in its select when the channel is closed does not stay    *)
(* there: it ends unless other work comes first, whenever Shutdown gets to  *)
(* setting the field to nil.  One that does other work in that moment may   *)
(* select on a nil channel ever after (cluster.go:293-295, 361-366,         *)
(* leader.go:30-31, 67-68).                                                 *)
(***************************************************************************)
WaitingLoopsEnd ==
  \A l \in Loops :
    server = "closed" /\ loop[l] = "select" /\ reads[l] = "chan" ~> loop[l] \in {"busy", "gone"}

=============================================================================
