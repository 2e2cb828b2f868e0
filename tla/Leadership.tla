----------------------------- MODULE Leadership -----------------------------
(***************************************************************************)
(* Leadership over time (combainer/leader.go): Run starts a leaderLoop when *)
(* raft tells it that this node leads and closes its stopCh when it no      *)
(* longer does; the loops' rounds send commands through raftApply; every    *)
(* node's FSM applies the committed log at its own pace.                    *)
(*                                                                         *)
(* Raft is external: one log, of which a new leader has any part that       *)
(* includes what is committed.  Commands in flight when leadership is lost  *)
(* fail, whether or not they are committed later.  The rounds are those of  *)
(* module Scheduler without the moves of the balancer: the scan keeps the   *)
(* first copy of a config and releases the others, then what nobody has is  *)
(* assigned.  All nodes stay members (module Membership has those changes). *)
(***************************************************************************)
EXTENDS Integers, Sequences, FiniteSets

CONSTANTS
  Nodes,         \* the members of the raft cluster
  Configs,       \* what the repository lists
  None,          \* no leader
  MaxElections,  \* bound on the elections
  MaxLog         \* bound on the commands

ASSUME LeadershipAssumption ==
  /\ IsFiniteSet(Nodes) /\ IsFiniteSet(Configs)
  /\ None \notin Nodes
  /\ MaxElections \in Nat /\ MaxLog \in Nat

Loops == 1 .. MaxElections

VARIABLES
  leader,     \* the node raft has as leader
  elections,  \* number of elections so far
  log,        \* the commands in the leader's log, see raftApply
  applied,    \* applied[n]: how many of them node n has applied
  store,      \* store[n][h]: the configs of h in the FSMStore of n
  leaderCh,   \* leaderCh[n]: notifications Run has still to receive
  current,    \* current[n]: the loop whose stopCh Run of n holds, 0: none
  stopped,    \* the loops whose stopCh is closed
  loop        \* loop[l]: the goroutine of leaderLoop l, see NoLoop

raftVars == <<leader, elections, log, leaderCh>>
fsmVars == <<applied, store>>
runVars == <<current, stopped>>
vars == <<leader, elections, log, applied, store, leaderCh, current,
          stopped, loop>>

(***************************************************************************)
(* A leaderLoop: the node it runs on, where it is, whether its Barrier was  *)
(* answered, the log index whose application it waits for, and the locals   *)
(* of its round: whether it began Alone (history), freeConfigSet, the hosts *)
(* the scan has still to visit and what it has still to release of one      *)
(* host.  pc is "none", "barrier", "catchup", "wait", "round", "apply" or   *)
(* "exit".                                                                  *)
(***************************************************************************)
NoLoop ==
  [on |-> None, pc |-> "none", caught |-> FALSE, awaits |-> 0, fresh |-> FALSE,
   free |-> {}, left |-> {}, todo |-> {}]

\* The loop at a place where no round is under way.
Between(r, pc) ==
  [r EXCEPT !.pc = pc, !.awaits = 0, !.fresh = FALSE, !.free = {}, !.left = {},
            !.todo = {}]

Empty == [h \in Nodes |-> {}]

Init ==
  /\ leader = None /\ elections = 0
  /\ log = <<>>
  /\ applied = [n \in Nodes |-> 0]
  /\ store = [n \in Nodes |-> Empty]
  /\ leaderCh = [n \in Nodes |-> <<>>]
  /\ current = [n \in Nodes |-> 0]
  /\ stopped = {}
  /\ loop = [l \in Loops |-> NoLoop]

-----------------------------------------------------------------------------
(* Raft *)

\* The i-th command is committed when the first node applies it.
committed(i) == \E n \in Nodes : applied[n] >= i

\* A node is elected with all that is committed and perhaps more.
Elect(n) ==
  /\ leader = None /\ elections < MaxElections
  /\ leader' = n
  /\ elections' = elections + 1
  /\ \E k \in 0 .. Len(log) : /\ \A i \in k + 1 .. Len(log) : ~committed(i)
                             /\ log' = SubSeq(log, 1, k)
  /\ leaderCh' = [leaderCh EXCEPT ![n] = Append(@, TRUE)]
  /\ UNCHANGED <<fsmVars, runVars, loop>>

\* The leader steps down: every future in flight on it fails, and the round
\* with it.  The last leader of a behaviour stays.
StepDown ==
  /\ leader # None /\ elections < MaxElections
  /\ leader' = None
  /\ leaderCh' = [leaderCh EXCEPT ![leader] = Append(@, FALSE)]
  /\ loop' = [l \in Loops |->
                IF loop[l].pc \in {"catchup", "apply"} /\ loop[l].on = leader
                THEN Between(loop[l], "wait") ELSE loop[l]]
  /\ UNCHANGED <<elections, log, fsmVars, runVars>>

After(st, cmd) ==
  [st EXCEPT ![cmd.host] = IF cmd.type = "assign" THEN @ \union {cmd.config}
                                                  ELSE @ \ {cmd.config}]

\* FSM.Apply on node n (module FSM): nothing new is committed without a leader.
Apply(n) ==
  /\ applied[n] < Len(log) /\ (leader # None \/ committed(applied[n] + 1))
  /\ applied' = [applied EXCEPT ![n] = @ + 1]
  /\ store' = [store EXCEPT ![n] = After(@, log[applied[n] + 1].cmd)]
  /\ UNCHANGED <<raftVars, runVars, loop>>

-----------------------------------------------------------------------------
(* Run *)

\* A Run that forgets the stopCh of the loop without closing it.
RunKeepsLoop(n) ==
  /\ leaderCh[n] # <<>> /\ ~Head(leaderCh[n])
  /\ leaderCh' = [leaderCh EXCEPT ![n] = Tail(@)]
  /\ current' = [current EXCEPT ![n] = 0]
  /\ UNCHANGED <<leader, elections, log, fsmVars, stopped, loop>>

RunLost(n) ==
  /\ leaderCh[n] # <<>> /\ ~Head(leaderCh[n])
  /\ leaderCh' = [leaderCh EXCEPT ![n] = Tail(@)]
  /\ stopped' = stopped \union ({current[n]} \ {0})
  /\ current' = [current EXCEPT ![n] = 0]
  /\ UNCHANGED <<leader, elections, log, fsmVars, loop>>

\* A new loop with a stopCh of its own; the earlier ones end when they do.
RunAcquired(n) ==
  /\ leaderCh[n] # <<>> /\ Head(leaderCh[n])
  /\ leaderCh' = [leaderCh EXCEPT ![n] = Tail(@)]
  /\ \E l \in Loops :
       /\ loop[l].pc = "none" /\ \A k \in 1 .. l - 1 : loop[k].pc # "none"
       /\ current' = [current EXCEPT ![n] = l]
       /\ loop' = [loop EXCEPT ![l] = [NoLoop EXCEPT !.on = n, !.pc = "barrier"]]
  /\ UNCHANGED <<leader, elections, log, fsmVars, stopped>>

-----------------------------------------------------------------------------
(* leaderLoop l *)

At(l, pc) == loop[l].pc = pc

Becomes(l, r) == loop' = [loop EXCEPT ![l] = r]

Leads(l) == leader = loop[l].on

OnlyLoop == UNCHANGED <<raftVars, fsmVars, runVars>>

\* Barrier fails on a node that does not lead, and the loop goes on to its
\* tickers all the same.
Barrier(l) ==
  /\ At(l, "barrier")
  /\ Becomes(l, IF Leads(l) THEN [loop[l] EXCEPT !.pc = "catchup", !.awaits = Len(log)]
                            ELSE Between(loop[l], "wait"))
  /\ OnlyLoop

\* The loop does not wait until the node has applied its log.
CaughtUpAtOnce(l) ==
  /\ At(l, "catchup")
  /\ Becomes(l, [Between(loop[l], "wait") EXCEPT !.caught = TRUE])
  /\ OnlyLoop

\* Barrier succeeds: the node has applied everything that was in its log.
CaughtUp(l) ==
  /\ At(l, "catchup") /\ applied[loop[l].on] >= loop[l].awaits
  /\ Becomes(l, [Between(loop[l], "wait") EXCEPT !.caught = TRUE])
  /\ OnlyLoop

\* stopCh is closed; the select may take a ticker that is ready instead.
Return(l) ==
  /\ At(l, "wait") /\ l \in stopped
  /\ Becomes(l, [NoLoop EXCEPT !.on = loop[l].on, !.pc = "exit"])
  /\ OnlyLoop

\* Loop l is the leader's only loop, Run has received everything raft sent
\* it, and the loop's Barrier has succeeded.
Alone(l) ==
  /\ ~At(l, "none") /\ Leads(l) /\ loop[l].caught
  /\ current[leader] = l /\ leaderCh[leader] = <<>>
  /\ \A k \in Loops \ {l} : loop[k].on = leader => At(k, "exit")

\* reconcileTicker: back to the Barrier.
ReconcileTicker(l) ==
  /\ At(l, "wait")
  /\ Becomes(l, [loop[l] EXCEPT !.pc = "barrier"])
  /\ OnlyLoop

\* updateTicker: distributeTasks begins.
Tick(l) ==
  /\ At(l, "wait")
  /\ Becomes(l, [loop[l] EXCEPT !.pc = "round", !.fresh = Alone(l),
                                !.free = Configs, !.left = Nodes])
  /\ OnlyLoop

\* The assignment at the end of the log, whoever has applied it.
LogStore == IF log = <<>> THEN Empty ELSE log[Len(log)].gives

\* raftApply by a loop whose locals are r if the command succeeds.  At the
\* bound on commands it times out.  An entry of the log has what it will give
\* when it is applied (history).
raftApply(l, type, h, c, r) ==
  /\ IF Leads(l) /\ Len(log) < MaxLog
     THEN /\ LET cmd == [type |-> type, host |-> h, config |-> c]
             IN  log' = Append(log, [cmd |-> cmd, gives |-> After(LogStore, cmd)])
          /\ Becomes(l, [r EXCEPT !.pc = "apply", !.awaits = Len(log) + 1])
     ELSE Becomes(l, Between(loop[l], "wait")) /\ UNCHANGED log
  /\ UNCHANGED <<leader, elections, leaderCh, fsmVars, runVars>>

\* The command is applied on this node: raftApply returns nil.
Applied(l) ==
  /\ At(l, "apply") /\ applied[loop[l].on] >= loop[l].awaits
  /\ Becomes(l, [loop[l] EXCEPT !.pc = "round", !.awaits = 0])
  /\ OnlyLoop

\* List of the next host, from this node's own store.  The configs seen for
\* the first time stay, the others are to be released.
ScanHost(l, h) ==
  /\ At(l, "round") /\ loop[l].todo = {} /\ h \in loop[l].left
  /\ LET cs == store[loop[l].on][h]
     IN  Becomes(l, [loop[l] EXCEPT !.left = @ \ {h}, !.free = @ \ cs,
                                    !.todo = {h} \X (cs \ loop[l].free)])
  /\ OnlyLoop

\* A scan that leaves second copies where they are.
ScanIgnoresCopies(l, p) ==
  /\ At(l, "round")
  /\ Becomes(l, [loop[l] EXCEPT !.todo = @ \ {p}])
  /\ OnlyLoop

ScanRelease(l, p) ==
  /\ At(l, "round")
  /\ raftApply(l, "remove", p[1], p[2], [loop[l] EXCEPT !.todo = @ \ {p}])

Scanned(l) == At(l, "round") /\ loop[l].todo = {} /\ loop[l].left = {}

Assign(l, h, c) ==
  /\ Scanned(l) /\ c \in loop[l].free
  /\ raftApply(l, "assign", h, c, [loop[l] EXCEPT !.free = @ \ {c}])

RoundEnds(l) ==
  /\ Scanned(l) /\ loop[l].free = {}
  /\ Becomes(l, Between(loop[l], "wait"))
  /\ OnlyLoop

-----------------------------------------------------------------------------

LoopStep(l) ==
  \/ Barrier(l) \/ CaughtUp(l) \/ Applied(l) \/ RoundEnds(l)
  \/ \E h \in Nodes : ScanHost(l, h) \/ \E c \in Configs : Assign(l, h, c)
  \/ \E p \in loop[l].todo : ScanRelease(l, p)

Next ==
  \/ \E n \in Nodes : Elect(n) \/ Apply(n) \/ RunLost(n) \/ RunAcquired(n)
  \/ StepDown
  \/ \E l \in Loops : LoopStep(l) \/ ReconcileTicker(l) \/ Tick(l) \/ Return(l)

Spec == Init /\ [][Next]_vars

(***************************************************************************)
(* Raft elects a leader and commits and applies what it has; the Go         *)
(* scheduler runs every goroutine.  A select with several ready cases takes *)
(* one at random, so a ticker or a closed stopCh is taken in the end.       *)
(***************************************************************************)
Fairness ==
  /\ WF_vars(\E n \in Nodes : Elect(n))
  /\ \A n \in Nodes : WF_vars(Apply(n)) /\ WF_vars(RunLost(n) \/ RunAcquired(n))
  /\ \A l \in Loops : WF_vars(LoopStep(l)) /\ SF_vars(Tick(l)) /\ SF_vars(Return(l))

FairSpec == Spec /\ Fairness

-----------------------------------------------------------------------------
(* Properties *)

Holders(st, c) == {h \in Nodes : c \in st[h]}

(***************************************************************************)
(* A round that began when the leader had caught up and its earlier loops   *)
(* had returned never gives a config to a second host, whatever was in      *)
(* flight when leadership changed hands (leader.go:50-54,                   *)
(* scheduler.go:178).  Without either condition it may: see LoopsSettle for *)
(* what happens then.                                                       *)
(***************************************************************************)
FreshRoundNeverDoubles ==
  [][\A l \in Loops : loop[l].fresh /\ Alone(l) /\ Len(log') > Len(log) =>
       LET cmd == log'[Len(log')].cmd
       IN  cmd.type = "assign" => Holders(LogStore, cmd.config) = {}]_vars

(***************************************************************************)
(* Loops do not pile up: when leadership stays with one node, only the loop *)
(* of its last election is left.  Every other one has been stopped and has  *)
(* returned, wherever the loss of leadership found it: in Barrier, in the   *)
(* middle of a round, waiting for a command (leader.go:21-28, 65-66).       *)
(***************************************************************************)
OneLoopRemains ==
  <>[](\A l \in Loops : ~At(l, "none") =>
         (At(l, "exit") <=> ~(Leads(l) /\ current[leader] = l)))

(***************************************************************************)
(* When leadership stays with one node, overlapping loops, rounds on a      *)
(* store that had not caught up and commands committed after their error    *)
(* are made good: in the end every node's store has each config on one and  *)
(* the same host (leader.go:37-87).  A behaviour that has used up the bound *)
(* on commands is excused, its last command cannot be answered.             *)
(***************************************************************************)
LoopsSettle ==
  <>[](\/ Len(log) = MaxLog
       \/ \E h \in [Configs -> Nodes] : \A n \in Nodes, c \in Configs :
            Holders(store[n], c) = {h[c]})

=============================================================================
