----------------------------- MODULE Membership -----------------------------
(***************************************************************************)
(* Serf membership and the raft configuration of one node                   *)
(* (combainer/cluster.go, combainer/leader.go): EventHandler bootstraps     *)
(* raft and forwards member events to a bounded channel, leaderLoop brings  *)
(* the raft servers in line with the members, by event and by ticker.       *)
(*                                                                         *)
(* Serf and raft are external: serf reports the changes it sees in order;   *)
(* a raft call fails when this node does not lead, and then may have taken  *)
(* effect or not.  A round of distributeTasks is one step here (module      *)
(* Scheduler has it in detail), and a new loop starts only when the one     *)
(* before has returned (module Leadership has the overlap).                 *)
(***************************************************************************)
EXTENDS Integers, Sequences, FiniteSets

CONSTANTS
  Hosts,       \* every host that may be a member
  Me,          \* the host of this node
  Configs,     \* what the repository lists
  Expect,      \* config.BootstrapExpect as configured
  QueueSize,   \* capacity of reconcileCh
  MaxChanges,  \* bound on the changes of membership serf sees
  MaxTerms     \* bound on how often this node becomes the leader

MembershipAssumption ==
  /\ IsFiniteSet(Hosts) /\ Me \in Hosts
  /\ {Expect, QueueSize, MaxChanges, MaxTerms} \subseteq Nat

Statuses == {"none", "alive", "failed", "left"}

VARIABLES
  status,       \* status[h]: what serf.Members says of h, "none": not listed
  changes,      \* number of changes of status so far
  eventCh,      \* <<type, host>> events EventHandler has still to receive
  expect,       \* c.config.BootstrapExpect
  raft,         \* c.raft is not nil
  leading,      \* raft.State() = raft.Leader
  terms,        \* how often this node has become the leader
  servers,      \* the hosts in the raft configuration
  store,        \* store[h]: the configs the FSMStore has for h
  reconcileCh,  \* <<status, host>> members queued for the loop
  pc,           \* where leaderLoop is
  listening,    \* the loop's own reconcileCh is not nil
  todo,         \* members reconcile has still to visit
  member        \* the member removeRaftPeer is at work on, and where to go on

serfVars == <<status, changes>>
raftVars == <<raft, leading, terms>>
loopVars == <<pc, listening, todo, member>>
vars == <<status, changes, eventCh, expect, raft, leading, terms, servers, store,
          reconcileCh, pc, listening, todo, member>>

NoMember == <<"none", Me, "wait">>

Init ==
  /\ status = [h \in Hosts |-> IF h = Me THEN "alive" ELSE "none"]
  /\ changes = 0
  /\ eventCh = <<<<"join", Me>>>>
  /\ expect = IF Expect = 0 THEN 1 ELSE Expect
  /\ raft = FALSE /\ leading = FALSE /\ terms = 0
  /\ servers = {}
  /\ store = [h \in Hosts |-> {}]
  /\ reconcileCh = <<>>
  /\ pc = "none" /\ listening = FALSE /\ todo = {} /\ member = NoMember

\* AliveMembers, and Hosts.
AliveMembers == {h \in Hosts : status[h] = "alive"}

\* Peers
Peers == servers \intersect AliveMembers

IsLeader == raft /\ leading

-----------------------------------------------------------------------------
(* Serf and raft *)

\* The event that reports a change to a status.
EventOf == [alive |-> "join", failed |-> "failed", left |-> "leave", none |-> "reap"]

May(old, new) ==
  IF new = "alive" THEN old # "alive"
  ELSE IF new = "none" THEN old \in {"failed", "left"}
  ELSE old = "alive"

SerfChange(h, new) ==
  /\ h # Me /\ changes < MaxChanges /\ May(status[h], new)
  /\ status' = [status EXCEPT ![h] = new]
  /\ changes' = changes + 1
  /\ eventCh' = Append(eventCh, <<EventOf[new], h>>)
  /\ UNCHANGED <<expect, raftVars, servers, store, reconcileCh, loopVars>>

\* Run starts leaderLoop when leadership is acquired.
Acquire ==
  /\ raft /\ ~leading /\ terms < MaxTerms /\ Me \in servers /\ pc = "none"
  /\ leading' = TRUE /\ terms' = terms + 1
  /\ pc' = "barrier" /\ listening' = FALSE
  /\ UNCHANGED <<serfVars, eventCh, expect, raft, servers, store, reconcileCh, todo, member>>

Lose ==
  /\ leading
  /\ leading' = FALSE
  /\ UNCHANGED <<serfVars, eventCh, expect, raft, terms, servers, store, reconcileCh, loopVars>>

\* While another node leads it adds and removes servers and distributes.
OtherLeader ==
  /\ raft /\ ~leading /\ terms < MaxTerms
  /\ \E h \in Hosts \ {Me} :
       \/ servers' \in {servers \union {h}, servers \ {h}} /\ UNCHANGED store
       \/ h \in servers /\ (\E cs \in SUBSET Configs : store' = [store EXCEPT ![h] = cs])
          /\ UNCHANGED servers
  /\ UNCHANGED <<serfVars, eventCh, expect, raftVars, reconcileCh, loopVars>>

-----------------------------------------------------------------------------
(* EventHandler *)

\* nodeJoin and maybeBootstrap: once, when enough members are alive.  An
\* error of raft leaves it to the next join.
maybeBootstrap ==
  \/ /\ expect # 0 /\ Cardinality(AliveMembers) >= expect
     /\ raft' = TRUE /\ servers' = AliveMembers /\ expect' = 0
  \/ UNCHANGED <<raft, servers, expect>>

\* The status a queued member has: reap events come with one of their own.
QueuedStatus == [join |-> "alive", failed |-> "failed", leave |-> "left", reap |-> "reap"]

\* localMemberEvent: dropped unless this node leads and there is room.
localMemberEvent(e) ==
  reconcileCh' = IF IsLeader /\ Len(reconcileCh) < QueueSize
                 THEN Append(reconcileCh, <<QueuedStatus[e[1]], e[2]>>)
                 ELSE reconcileCh

EventHandler ==
  /\ eventCh # <<>>
  /\ eventCh' = Tail(eventCh)
  /\ IF Head(eventCh)[1] = "join" THEN maybeBootstrap ELSE UNCHANGED <<raft, servers, expect>>
  /\ localMemberEvent(Head(eventCh))
  /\ UNCHANGED <<serfVars, leading, terms, store, loopVars>>

-----------------------------------------------------------------------------
(* leaderLoop *)

OnlyLoop == UNCHANGED <<serfVars, eventCh, expect, raftVars, servers, store, reconcileCh>>

\* RECONCILE: Barrier, then reconcile over what serf lists at this moment.
Barrier ==
  /\ pc = "barrier"
  /\ listening' = FALSE
  /\ IF leading
     THEN pc' = "reconcile" /\ todo' = {<<status[h], h>> : h \in Hosts} \ ({"none"} \X Hosts)
     ELSE pc' = "wait" /\ UNCHANGED todo
  /\ UNCHANGED member /\ OnlyLoop

\* reconcileMember does nothing about this node and about failed members.
Ignored(m) == m[2] = Me \/ m[1] = "failed"

\* reconcile is through with all members: the loop listens to events.
Reconciled ==
  /\ pc = "reconcile" /\ todo = {}
  /\ listening' = TRUE /\ pc' = "wait"
  /\ UNCHANGED <<todo, member>> /\ OnlyLoop

\* After a raft call: to where it was called from, or out of reconcile.
Continue(ok, place) ==
  IF ok \/ place = "wait"
  THEN pc' = place /\ UNCHANGED todo
  ELSE pc' = "wait" /\ todo' = {}

\* addRaftPeer: nothing to do for a server, else AddVoter.
addRaftPeer(m, place) ==
  /\ UNCHANGED <<store, member>>
  /\ IF m[2] \in servers
     THEN UNCHANGED servers /\ pc' = place
     ELSE IF leading
          THEN servers' = servers \union {m[2]} /\ pc' = place
          ELSE servers' \in {servers, servers \union {m[2]}} /\ pc' = "wait"

\* reconcileMember, called by reconcile or for an event.  removeRaftPeer
\* takes more than one step.
reconcileMember(m, place) ==
  IF Ignored(m) THEN UNCHANGED <<servers, store, member>> /\ pc' = place
  ELSE IF m[1] = "alive" THEN addRaftPeer(m, place)
  ELSE pc' = "remove" /\ member' = <<m[1], m[2], place>> /\ UNCHANGED <<servers, store>>

Visit(m) ==
  /\ pc = "reconcile" /\ m \in todo
  /\ reconcileMember(m, "reconcile")
  /\ todo' = IF pc' = "wait" THEN {} ELSE todo \ {m}
  /\ UNCHANGED <<serfVars, eventCh, expect, raftVars, reconcileCh, listening>>

\* The reconcileCh case of the select.
Event ==
  /\ pc = "wait" /\ listening /\ reconcileCh # <<>>
  /\ reconcileCh' = Tail(reconcileCh)
  /\ IF IsLeader
     THEN reconcileMember(Head(reconcileCh), "wait")
     ELSE UNCHANGED <<pc, servers, store, member>>
  /\ UNCHANGED <<serfVars, eventCh, expect, raftVars, listening, todo>>

\* removeRaftPeer goes on to RemoveServer after a failed command.
removeConfigOrGoOn(c) ==
  /\ pc = "remove" /\ c \in store[member[2]]
  /\ LET after == [store EXCEPT ![member[2]] = @ \ {c}]
     IN  IF leading THEN store' = after ELSE store' \in {store, after}
  /\ servers' = IF leading THEN servers ELSE servers \ {member[2]}
  /\ IF leading THEN UNCHANGED <<pc, todo, member>>
                ELSE Continue(FALSE, member[3]) /\ member' = NoMember
  /\ UNCHANGED <<serfVars, eventCh, expect, raftVars, reconcileCh, listening>>

\* removeRaftPeer: raftApply for each config of the host, until one fails.
removeConfig(c) ==
  /\ pc = "remove" /\ c \in store[member[2]]
  /\ LET after == [store EXCEPT ![member[2]] = @ \ {c}]
     IN  IF leading THEN store' = after ELSE store' \in {store, after}
  /\ IF leading THEN UNCHANGED <<pc, todo, member>>
                ELSE Continue(FALSE, member[3]) /\ member' = NoMember
  /\ UNCHANGED <<serfVars, eventCh, expect, raftVars, servers, reconcileCh, listening>>

\* removeRaftPeer: RemoveServer, if the host is a server at all.
removeServer ==
  /\ pc = "remove" /\ store[member[2]] = {}
  /\ IF leading \/ member[2] \notin servers
     THEN servers' = servers \ {member[2]} /\ Continue(TRUE, member[3])
     ELSE servers' \in {servers, servers \ {member[2]}} /\ Continue(FALSE, member[3])
  /\ member' = NoMember
  /\ UNCHANGED <<serfVars, eventCh, expect, raftVars, store, reconcileCh, listening>>

\* A ticker that repeats reconcile only after it failed.
ReconcileOnceDone ==
  /\ pc = "wait" /\ ~listening
  /\ pc' = "barrier"
  /\ UNCHANGED <<listening, todo, member>> /\ OnlyLoop

\* reconcileTicker
ReconcileTicker ==
  /\ pc = "wait"
  /\ pc' = "barrier"
  /\ UNCHANGED <<listening, todo, member>> /\ OnlyLoop

\* updateTicker: a round over the alive peers, which may leave a config over;
\* without any it changes nothing.
UpdateTicker ==
  /\ pc = "wait" /\ leading /\ Peers # {}
  /\ \E cs \in SUBSET Configs : \E host \in [cs -> Peers] :
       store' = [h \in Hosts |-> {c \in cs : host[c] = h}]
  /\ UNCHANGED <<serfVars, eventCh, expect, raftVars, servers, reconcileCh, loopVars>>

\* Run has closed stopCh.
Return ==
  /\ pc = "wait" /\ ~leading
  /\ pc' = "none"
  /\ UNCHANGED <<listening, todo, member>> /\ OnlyLoop

-----------------------------------------------------------------------------

LoopStep ==
  \/ Barrier \/ Reconciled \/ removeServer
  \/ \E m \in todo : Visit(m)
  \/ \E c \in Configs : removeConfig(c)

Next ==
  \/ \E h \in Hosts, new \in Statuses : SerfChange(h, new)
  \/ Acquire \/ Lose \/ OtherLeader
  \/ EventHandler
  \/ LoopStep \/ Event \/ ReconcileTicker \/ UpdateTicker \/ Return

Spec == Init /\ [][Next]_vars

(***************************************************************************)
(* The Go scheduler runs EventHandler and the loop; the select of the loop  *)
(* is random among the cases that are ready, so each of them is taken in    *)
(* the end.  Nothing makes this node the leader.                            *)
(***************************************************************************)
Fairness ==
  /\ WF_vars(EventHandler) /\ WF_vars(LoopStep)
  /\ SF_vars(Event) /\ SF_vars(ReconcileTicker) /\ SF_vars(UpdateTicker)
  /\ SF_vars(Return)

FairSpec == Spec /\ Fairness

-----------------------------------------------------------------------------
(* Properties *)

(***************************************************************************)
(* While this node leads, and whenever it is done with removeRaftPeer, a    *)
(* server leaves the raft configuration only when no config is assigned to  *)
(* it, although the commands that take them away may fail one by one, and   *)
(* maybeBootstrap may replace the configuration as a whole                  *)
(* (leader.go:153-187, cluster.go:180-221).                                 *)
(***************************************************************************)
RemovedHasNoConfigs ==
  [][leading \/ (pc = "remove" /\ member' # member) =>
       \A h \in servers \ servers' : store'[h] = {}]_vars

(***************************************************************************)
(* EventHandler never gets stuck: it receives every event, although nobody  *)
(* takes members out of reconcileCh while this node does not lead           *)
(* (cluster.go:336-339).                                                    *)
(***************************************************************************)
EventsReceived == []<>(eventCh = <<>>)

(***************************************************************************)
(* Events are dropped, arrive while nobody leads, or are handled when they  *)
(* are out of date; if this node leads for good, every alive member is a    *)
(* server in the end, every member that left is none, and nothing is        *)
(* assigned to a member that is not alive (leader.go:94-125).               *)
(***************************************************************************)
MembersReconciled ==
  <>[]leading =>
    <>[](\A h \in Hosts \ {Me} :
           /\ status[h] = "alive" => h \in servers
           /\ status[h] = "left" => h \notin servers
           /\ status[h] # "alive" => store[h] = {})

=============================================================================
