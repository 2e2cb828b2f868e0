----------------------------- MODULE Scheduler -----------------------------
(***************************************************************************)
(* The leader's scheduler: the rounds of distributeTasks and runBalancer    *)
(* (combainer/scheduler.go) that share the parsing configurations out among *)
(* the alive hosts, one raft command at a time.                             *)
(*                                                                         *)
(* The leader's FSMStore is a set of configs per host (module FSM has the   *)
(* channels behind it).  Go's map order and the unstable sort are           *)
(* nondeterministic choices.  raftApply returns once the leader's own store *)
(* has applied the command; when it returns an error (leadership lost) the  *)
(* command may have taken effect or not, and the round ends.                *)
(*                                                                         *)
(* A round reads the alive hosts and the repository once, at its start, so  *)
(* both change between rounds only.  A call with no hosts or with an        *)
(* unreadable repository returns at once and is left out.                   *)
(***************************************************************************)
EXTENDS Integers, SequencesExt

CONSTANTS
  Hosts,    \* every host that is or was a member
  Configs,  \* every parsing config the repository may list
  NoHost    \* overloadedHost outside runBalancer

ASSUME SchedulerAssumption ==
  IsFiniteSet(Hosts) /\ IsFiniteSet(Configs) /\ NoHost \notin Hosts

VARIABLES
  store,      \* store[h]: the configs the leader's FSMStore has for h
  alive,      \* what Peers returns now
  repo,       \* what ListParsingConfigs returns now
  phase,      \* which loop of the round is running
  hosts,      \* balance.hosts
  listed,     \* the configs listed at the start of the round
  quantity,   \* balance.quantity
  free,       \* freeConfigSet, later configSet
  turn,       \* index in hosts of the host whose turn it is
  over,       \* overloadedIndex, counted from 1
  overHost,   \* overloadedHost
  wantage,    \* how many configs the host of this turn should get
  todo        \* <<host, config>> pairs the innermost loop has yet to visit

envVars == <<alive, repo>>
roundVars == <<hosts, listed, quantity, free, turn, over, overHost, wantage, todo>>
vars == <<store, alive, repo, phase, hosts, listed, quantity, free, turn, over,
          overHost, wantage, todo>>

Phases == {"idle", "dead", "scan", "plan", "release", "assign", "done"}

Balancing == {"plan", "release", "assign", "done"}

Pairs(h, cs) == {h} \X cs

min(a, b) == IF a < b THEN a ELSE b
max(a, b) == IF a > b THEN a ELSE b

average == Cardinality(listed) \div Len(hosts)
permissibleNumber ==
  average + (IF Cardinality(listed) % Len(hosts) > 0 THEN 1 ELSE 0)

\* The locals of a round that is not running.
RoundReset ==
  /\ hosts' = <<>> /\ listed' = {} /\ free' = {} /\ todo' = {}
  /\ quantity' = [h \in Hosts |-> 0]
  /\ turn' = 0 /\ over' = 0 /\ wantage' = 0
  /\ overHost' = NoHost

(***************************************************************************)
(* A new leader may find any assignment: configs of hosts that are gone,    *)
(* configs the repository no longer has, and configs two hosts hold.        *)
(***************************************************************************)
Init ==
  /\ store \in [Hosts -> SUBSET Configs]
  /\ alive \in (SUBSET Hosts) \ {{}}
  /\ repo \in SUBSET Configs
  /\ phase = "idle"
  /\ hosts = <<>> /\ listed = {} /\ free = {} /\ todo = {}
  /\ quantity = [h \in Hosts |-> 0]
  /\ turn = 0 /\ over = 0 /\ wantage = 0
  /\ overHost = NoHost

-----------------------------------------------------------------------------
(* Raft commands *)

\* The round returns the error; its locals are gone.
Abort ==
  /\ phase' = "idle"
  /\ RoundReset
  /\ UNCHANGED envVars

\* releaseConfig: an error leaves it open whether the config was removed.
releaseConfig(p, ok) ==
  LET after == [store EXCEPT ![p[1]] = @ \ {p[2]}]
  IN  store' \in IF ok THEN {after} ELSE {store, after}

\* assignConfig, in the same way.
assignConfig(p, ok) ==
  LET after == [store EXCEPT ![p[1]] = @ \union {p[2]}]
  IN  store' \in IF ok THEN {after} ELSE {store, after}

-----------------------------------------------------------------------------
(* distributeTasks *)

\* The round reads the hosts, in some order, and the repository.
Start ==
  /\ phase = "idle"
  /\ alive # {}
  /\ phase' = "dead"
  /\ hosts' \in SetToSeqs(alive)
  /\ listed' = repo
  /\ free' = repo
  /\ quantity' = [h \in Hosts |-> 0]
  /\ turn' = 0 /\ over' = 0 /\ wantage' = 0 /\ todo' = {}
  /\ overHost' = NoHost
  /\ UNCHANGED <<store, envVars>>

\* A markDeadNodes that does not leave out the hosts that are alive.
EveryHost == {h \in Hosts : store[h] # {}}

\* The hosts markDeadNodes reports that still have configs.
DeadHosts == {h \in Hosts \ ToSet(hosts) : store[h] # {}}

\* List of the next dead host, or on to the alive ones.
NextDeadHost ==
  /\ phase = "dead" /\ todo = {}
  /\ \/ \E h \in DeadHosts : todo' = Pairs(h, store[h]) /\ UNCHANGED <<phase, turn>>
     \/ DeadHosts = {} /\ phase' = "scan" /\ turn' = 1
        /\ todo' = Pairs(hosts[1], store[hosts[1]])
  /\ UNCHANGED <<store, envVars, hosts, listed, quantity, free, over, overHost, wantage>>

ReleaseDead(p, ok) ==
  /\ phase = "dead" /\ p \in todo
  /\ releaseConfig(p, ok)
  /\ IF ok
     THEN /\ todo' = todo \ {p}
          /\ UNCHANGED <<phase, envVars, hosts, listed, quantity, free, turn, over,
                         overHost, wantage>>
     ELSE Abort

\* A scan that counts a kept config without taking it off the free set.
ScanKeepsFree(p) ==
  /\ phase = "scan" /\ p \in todo /\ p[2] \in free
  /\ quantity' = [quantity EXCEPT ![p[1]] = @ + 1]
  /\ todo' = todo \ {p}
  /\ UNCHANGED <<store, phase, envVars, hosts, listed, free, turn, over, overHost, wantage>>

\* A config seen for the first time stays where it is and counts.
ScanKeep(p) ==
  /\ phase = "scan" /\ p \in todo /\ p[2] \in free
  /\ quantity' = [quantity EXCEPT ![p[1]] = @ + 1]
  /\ free' = free \ {p[2]}
  /\ todo' = todo \ {p}
  /\ UNCHANGED <<store, phase, envVars, hosts, listed, turn, over, overHost, wantage>>

\* A config the repository does not list, or that an earlier host keeps.
ScanRelease(p, ok) ==
  /\ phase = "scan" /\ p \in todo /\ p[2] \notin free
  /\ releaseConfig(p, ok)
  /\ IF ok
     THEN /\ todo' = todo \ {p}
          /\ UNCHANGED <<phase, envVars, hosts, listed, quantity, free, turn, over,
                         overHost, wantage>>
     ELSE Abort

\* sort.Sort(state): by quantity, equal hosts in any order.
Sorted(s) ==
  /\ ToSet(s) = ToSet(hosts) /\ Len(s) = Len(hosts)
  /\ \A i, j \in DOMAIN s : i < j => quantity[s[i]] =< quantity[s[j]]

\* The next host of the scan, or the sort and on to runBalancer.
ScanNext ==
  /\ phase = "scan" /\ todo = {}
  /\ IF turn < Len(hosts)
     THEN /\ turn' = turn + 1
          /\ todo' = Pairs(hosts[turn + 1], store[hosts[turn + 1]])
          /\ UNCHANGED <<phase, hosts, over, overHost>>
     ELSE \E s \in SetToSeqs(ToSet(hosts)) :
            /\ Sorted(s)
            /\ hosts' = s
            /\ over' = Len(s)
            /\ overHost' = s[Len(s)]
            /\ phase' = "plan"
            /\ turn' = 1
            /\ UNCHANGED todo
  /\ UNCHANGED <<store, envVars, listed, quantity, free, wantage>>

-----------------------------------------------------------------------------
(* runBalancer *)

\* Which host to take from at this turn: the index moves on once the host
\* looked at has no more than the permissible number.
LookAtNext == quantity[overHost] - permissibleNumber =< 0 /\ over > 1

\* What the host of this turn lacks, before releases are considered.
Lack ==
  LET w == average - quantity[hosts[turn]]
  IN  IF w = 0 /\ free # {} THEN Cardinality(free) \div Len(hosts) ELSE w

\* A host at the average takes one config more from anyone above it.
TakesFromAnyAbove(lack, overload) == IF lack = 0 /\ overload > 0 THEN 1 ELSE lack

\* A host at the average takes one config from a host two above it.
Wantage(lack, overload) == IF lack = 0 /\ overload > 1 THEN 1 ELSE lack

\* toRelase
ToRelease(overload, want) == min(overload, want)

\* The head of a turn: how many configs this host should get and which
\* configs the overloaded host has to give up for that.
Plan ==
  /\ phase = "plan"
  /\ overHost' = IF LookAtNext THEN hosts[over] ELSE overHost
  /\ over' = IF LookAtNext THEN over - 1 ELSE over
  /\ LET overload == quantity[overHost'] - average
         given == store[overHost']
     IN  /\ wantage' = Wantage(Lack, overload)
         /\ \E cs \in SUBSET given :
              /\ Cardinality(cs) =
                   max(0, min(ToRelease(overload, wantage'), Cardinality(given)))
              /\ todo' = Pairs(overHost', cs)
  /\ phase' = "release"
  /\ UNCHANGED <<store, envVars, hosts, listed, quantity, free, turn>>

\* A balancer that goes on after a failed release as if it had succeeded.
ReleaseErrorIgnored(p, ok) ==
  /\ phase = "release" /\ p \in todo
  /\ releaseConfig(p, ok)
  /\ todo' = todo \ {p}
  /\ free' = free \union {p[2]}
  /\ quantity' = [quantity EXCEPT ![p[1]] = @ - 1]
  /\ UNCHANGED <<phase, envVars, hosts, listed, turn, over, overHost, wantage>>

BalancerRelease(p, ok) ==
  /\ phase = "release" /\ p \in todo
  /\ releaseConfig(p, ok)
  /\ IF ok
     THEN /\ todo' = todo \ {p}
          /\ free' = free \union {p[2]}
          /\ quantity' = [quantity EXCEPT ![p[1]] = @ - 1]
          /\ UNCHANGED <<phase, envVars, hosts, listed, turn, over, overHost, wantage>>
     ELSE Abort

\* configsToAssign cut off before the first config when toAdd is not positive.
ToAddOnly(want) == max(0, min(Cardinality(free), want))

\* One config for each turn, whatever the host lacks.
ToAddOne(want) == min(Cardinality(free), 1)

\* Length of configsToAssign: at least one as long as any config is free.
ToAdd(want) == min(Cardinality(free), max(1, want))

\* The configs of this turn's host are picked out of the free ones.
Pick ==
  /\ phase = "release" /\ todo = {}
  /\ \E cs \in SUBSET free :
       /\ Cardinality(cs) = ToAdd(wantage)
       /\ todo' = Pairs(hosts[turn], cs)
  /\ phase' = "assign"
  /\ UNCHANGED <<store, envVars, hosts, listed, quantity, free, turn, over, overHost,
                 wantage>>

BalancerAssign(p, ok) ==
  /\ phase = "assign" /\ p \in todo
  /\ assignConfig(p, ok)
  /\ IF ok
     THEN /\ todo' = todo \ {p}
          /\ free' = free \ {p[2]}
          /\ UNCHANGED <<phase, envVars, hosts, listed, quantity, turn, over, overHost,
                         wantage>>
     ELSE Abort

\* The next host's turn, or the end of the loop.
NextTurn ==
  /\ phase = "assign" /\ todo = {}
  /\ IF turn < Len(hosts)
     THEN turn' = turn + 1 /\ phase' = "plan"
     ELSE phase' = "done" /\ UNCHANGED turn
  /\ UNCHANGED <<store, envVars, hosts, listed, quantity, free, over, overHost, wantage,
                 todo>>

\* distributeTasks returns nil.
Finish ==
  /\ phase = "done"
  /\ phase' = "idle"
  /\ RoundReset
  /\ UNCHANGED <<store, envVars>>

-----------------------------------------------------------------------------

Round(ok) ==
  \/ Start \/ NextDeadHost \/ ScanNext \/ Plan \/ Pick \/ NextTurn \/ Finish
  \/ \E p \in todo : \/ ReleaseDead(p, ok)
                     \/ ScanKeep(p)
                     \/ ScanRelease(p, ok)
                     \/ BalancerRelease(p, ok)
                     \/ BalancerAssign(p, ok)

\* A host joins or dies, a config is added to the repository or removed.
Environment ==
  /\ phase = "idle"
  /\ \/ alive' \in SUBSET Hosts /\ UNCHANGED repo
     \/ repo' \in SUBSET Configs /\ UNCHANGED alive
  /\ UNCHANGED <<store, phase, roundVars>>

Next == (\E ok \in BOOLEAN : Round(ok)) \/ Environment

Spec == Init /\ [][Next]_vars

\* After the last disturbance: rounds without errors, hosts and repository
\* unchanged.  The leader's update ticker starts one round after another.
Settling == [][Round(TRUE)]_vars /\ WF_vars(Round(TRUE))

-----------------------------------------------------------------------------
(* Properties *)

TypeOK ==
  /\ store \in [Hosts -> SUBSET Configs]
  /\ alive \subseteq Hosts
  /\ repo \subseteq Configs
  /\ phase \in Phases
  /\ hosts \in Seq(Hosts)
  /\ listed \subseteq Configs
  /\ quantity \in [Hosts -> Int]
  /\ free \subseteq Configs
  /\ turn \in 0 .. Len(hosts)
  /\ over \in 0 .. Len(hosts)
  /\ overHost \in Hosts \union {NoHost}
  /\ wantage \in Int
  /\ todo \subseteq Hosts \X Configs

Holders(c) == {h \in Hosts : c \in store[h]}

(***************************************************************************)
(* Once the scan is over, and after every command of the balancer, each     *)
(* listed config is free or on exactly one alive host, and nothing else is  *)
(* assigned: the dead hosts, the configs that left the repository and the   *)
(* second copies are gone, and no move loses or doubles a config            *)
(* (scheduler.go:76-108, 151-183).                                          *)
(***************************************************************************)
BalancerPartition ==
  phase \in Balancing =>
    /\ \A h \in Hosts \ ToSet(hosts) : store[h] = {}
    /\ \A g, h \in Hosts : g # h => store[g] \intersect store[h] = {}
    /\ UNION {store[h] : h \in Hosts} = listed \ free

(***************************************************************************)
(* A round that ends without an error leaves fewer configs unassigned than  *)
(* there are hosts, although quantity does not count what a host got during *)
(* the round (scheduler.go:164-183).  The next round finds a place for them. *)
(***************************************************************************)
LeftoverBounded == phase = "done" => Cardinality(free) < Len(hosts)

(***************************************************************************)
(* A config is never assigned to a host while another host has it, even     *)
(* when the command that took it away failed (scheduler.go:151-160, 178).   *)
(***************************************************************************)
NoDoubleAssign ==
  [][\A c \in Configs : Holders(c)' \subseteq Holders(c) \/ Holders(c) = {}]_vars

\* Every config of the repository is on one alive host, nothing else is
\* assigned, and no two hosts differ by more than one config.
Settled ==
  /\ \A h \in Hosts \ alive : store[h] = {}
  /\ \A c \in Configs : Cardinality(Holders(c)) = IF c \in repo THEN 1 ELSE 0
  /\ \A g, h \in alive : Cardinality(store[g]) - Cardinality(store[h]) =< 1

(***************************************************************************)
(* A settled assignment stays as it is: rounds do not move configs to and   *)
(* fro while hosts and repository stay the same (scheduler.go:132-149).     *)
(***************************************************************************)
QuietWhenSettled == [][Settled => UNCHANGED store]_vars

(***************************************************************************)
(* From any assignment, error-free rounds with the same hosts and the same  *)
(* repository end in a settled one (scheduler.go:54-186).  One round need   *)
(* not be enough: it may leave configs free and hosts out of balance.       *)
(***************************************************************************)
EventuallySettled == <>[]Settled

-----------------------------------------------------------------------------
(* Refinement *)

\* The rounds as Assignment sees them: settled from the sort to the end.
A == INSTANCE Assignment WITH
       holders <- [c \in Configs |-> Holders(c)],
       members <- ToSet(hosts),
       settled <- phase \in Balancing

(***************************************************************************)
(* The scheduler implements Assignment, whatever command fails.  Beyond the *)
(* properties above: the scan of distributeTasks never takes a listed       *)
(* config from the last member that has it (scheduler.go:95-106).           *)
(***************************************************************************)
ImplementsAssignment == A!Spec

=============================================================================
