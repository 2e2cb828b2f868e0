-------------------------- MODULE LeadershipProofs --------------------------
(***************************************************************************)
(* Proofs about Leadership, for any nodes and configs and any number of     *)
(* elections and commands: a round of a leader that has caught up and is    *)
(* alone gives no config to a second host.                                  *)
(*                                                                         *)
(* FreshRoundNeverDoubles is about the log, and a round only knows the      *)
(* store of its node.  That the two are the same when it counts is what     *)
(* TermInv says of the loop of a term: once its Barrier was answered,       *)
(* whatever the node has not applied yet is a command some loop on that     *)
(* node waits for.  A loop that is alone waits for nothing while it scans,  *)
(* so that its node has then applied the whole log.                         *)
(*                                                                         *)
(* The last two parts are about the services of ClusterServices: a server   *)
(* leaves the cluster without configs (Membership), and gRPC never gets an  *)
(* older list of addresses after a newer one (Resolver).                    *)
(***************************************************************************)
EXTENDS Leadership, ClusterServices, TLAPS

Places == {"none", "barrier", "catchup", "wait", "round", "apply", "exit"}

Stores == [Nodes -> SUBSET Configs]

LoopRecord ==
  [on : Nodes \union {None}, pc : Places, caught : BOOLEAN, awaits : Nat, fresh : BOOLEAN,
   free : SUBSET Configs, left : SUBSET Nodes, todo : SUBSET (Nodes \X Configs)]

Command == [type : {"assign", "remove"}, host : Nodes, config : Configs]
Entry == [cmd : Command, gives : Stores]

TypeInv ==
  /\ leader \in Nodes \union {None}
  /\ log \in Seq(Entry)
  /\ applied \in [Nodes -> Nat] /\ \A n \in Nodes : applied[n] =< Len(log)
  /\ store \in [Nodes -> Stores]
  /\ leaderCh \in [Nodes -> Seq(BOOLEAN)]
  /\ current \in [Nodes -> Nat]
  /\ loop \in [Loops -> LoopRecord]
  /\ \A l \in Loops : loop[l].pc # "none" => loop[l].on \in Nodes

\* The assignment after the first i commands.
Prefix(i) == IF i = 0 THEN Empty ELSE log[i].gives

\* Every node has the assignment of what it has applied.
PrefixInv ==
  /\ \A i \in 1 .. Len(log) : log[i].gives = After(Prefix(i - 1), log[i].cmd)
  /\ \A n \in Nodes : store[n] = Prefix(applied[n])

\* Loop l is the one that Run has started for the term of the leader.
InTerm(l) ==
  /\ leader \in Nodes /\ loop[l].on = leader /\ loop[l].pc # "none"
  /\ current[leader] = l /\ leaderCh[leader] = <<>>

\* Some loop on node n waits for the i-th command.
Awaited(n, i) ==
  \E k \in Loops : loop[k].on = n /\ loop[k].pc = "apply" /\ loop[k].awaits = i

OthersExited(l) == \A k \in Loops \ {l} : loop[k].on = leader => loop[k].pc = "exit"

\* What is free is on no host that the scan has visited.
FreeOfScanned(free, left) == \A c \in free, h \in Nodes \ left : c \notin LogStore[h]

TermInv(l) ==
  /\ loop[l].caught => \A i \in 1 .. Len(log) : i =< applied[leader] \/ Awaited(leader, i)
  /\ loop[l].pc = "catchup" =>
       \A i \in 1 .. Len(log) :
         i =< loop[l].awaits \/ i =< applied[leader] \/ Awaited(leader, i)
  /\ loop[l].fresh =>
       loop[l].caught /\ OthersExited(l) /\ FreeOfScanned(loop[l].free, loop[l].left)

IInv == TypeInv /\ PrefixInv /\ \A l \in Loops : InTerm(l) => TermInv(l)

-----------------------------------------------------------------------------
(* The helpers *)

\* Loops are numbers other than 0.
LEMMA LoopNumbers == ASSUME NEW l \in Loops PROVE l \in Nat \ {0}
BY LeadershipAssumption DEF Loops

\* What is sent to Run and received by it.
LEMMA ChannelFacts ==
  ASSUME NEW S, NEW q \in Seq(S), NEW e \in S
  PROVE  /\ Append(q, e) \in Seq(S) /\ Append(q, e) # <<>>
         /\ q # <<>> => Tail(q) \in Seq(S)
<1>1. Append(q, e) \in Seq(S)
  OBVIOUS
<1>2. Append(q, e) # <<>>
  <2>1. Len(Append(q, e)) = Len(q) + 1 /\ Len(q) \in Nat
    OBVIOUS
  <2>2. Len(Append(q, e)) # 0
    BY <2>1
  <2>3. Len(<<>>) = 0
    OBVIOUS
  <2> QED BY <2>2, <2>3, Zenon
<1>3. q # <<>> => Tail(q) \in Seq(S)
  OBVIOUS
<1> QED BY <1>1, <1>2, <1>3

\* A command changes one host.
LEMMA AfterFacts ==
  ASSUME NEW st \in Stores, NEW cmd \in Command
  PROVE  /\ After(st, cmd) \in Stores
         /\ \A h \in Nodes : After(st, cmd)[h] \subseteq st[h] \union {cmd.config}
         /\ cmd.type = "remove" => \A h \in Nodes : After(st, cmd)[h] \subseteq st[h]
BY DEF Stores, Command, After

LEMMA BetweenFacts ==
  ASSUME NEW x \in LoopRecord, NEW p \in Places
  PROVE  /\ Between(x, p) \in LoopRecord
         /\ Between(x, p).on = x.on /\ Between(x, p).pc = p
         /\ Between(x, p).caught = x.caught /\ Between(x, p).fresh = FALSE
BY DEF LoopRecord, Between

\* LogStore is the assignment after all commands.
LEMMA LogStoreFacts ==
  ASSUME TypeInv
  PROVE  LogStore = Prefix(Len(log)) /\ LogStore \in Stores
<1>1. log \in Seq(Entry)
  BY DEF TypeInv
<1>2. Empty \in Stores
  BY DEF Empty, Stores
<1>3. CASE log = <<>>
  BY <1>2, <1>3 DEF LogStore, Prefix
<1>4. CASE log # <<>>
  <2>1. Len(log) \in 1 .. Len(log)
    BY <1>1, <1>4
  <2>2. log[Len(log)] \in Entry /\ Len(log) # 0
    BY <1>1, <2>1
  <2> QED BY <1>4, <2>2 DEF LogStore, Prefix, Entry
<1> QED BY <1>3, <1>4

LEMMA InitInv == Init => IInv
<1> SUFFICES ASSUME Init PROVE IInv
  OBVIOUS
<1>1. NoLoop \in LoopRecord /\ NoLoop.pc = "none"
  BY DEF NoLoop, LoopRecord, Places
<1>2. Empty \in Stores
  BY DEF Empty, Stores
<1>3. TypeInv
  BY <1>1, <1>2 DEF Init, TypeInv
<1>4. Len(log) = 0
  BY DEF Init
<1>5. PrefixInv
  BY <1>4 DEF Init, PrefixInv, Prefix
<1>6. \A l \in Loops : ~InTerm(l)
  BY <1>1 DEF Init, InTerm
<1> QED BY <1>3, <1>5, <1>6 DEF IInv

-----------------------------------------------------------------------------
(* Steps *)

\* The log and the loops are as they were, and nodes may have applied more.
LEMMA TermKept ==
  ASSUME NEW l \in Loops, TypeInv, TypeInv', InTerm(l), TermInv(l),
         UNCHANGED <<leader, log, loop>>, \A n \in Nodes : applied'[n] >= applied[n]
  PROVE  TermInv(l)'
<1>1. \A i \in 1 .. Len(log) : i =< applied[leader] => i =< applied'[leader']
  BY DEF TypeInv, InTerm
<1>2. \A i : Awaited(leader, i) => Awaited(leader, i)'
  BY DEF Awaited
<1>3. LogStore' = LogStore
  BY DEF LogStore
<1> QED BY <1>1, <1>2, <1>3 DEF TermInv, OthersExited, FreeOfScanned

\* The log is as it was.
LEMMA PrefixKept ==
  ASSUME PrefixInv, UNCHANGED <<log, applied, store>>
  PROVE  PrefixInv'
BY DEF PrefixInv, Prefix

\* Loop l moves: it waits for no command any more, or only for one that its
\* node has applied.  What is left to show is what TermInv says of it.
LEMMA LoopMoves ==
  ASSUME IInv, NEW l \in Loops, NEW r \in LoopRecord, Becomes(l, r),
         UNCHANGED <<leader, log, applied, store, leaderCh, current>>,
         r.on = loop[l].on, r.pc # "none", loop[l].pc \notin {"none", "exit"},
         loop[l].pc = "apply" => loop[l].awaits =< applied[loop[l].on],
         InTerm(l) /\ r.caught =>
           loop[l].caught \/ (loop[l].pc = "catchup" /\ loop[l].awaits =< applied[leader]),
         InTerm(l) /\ r.pc = "catchup" => r.awaits = Len(log),
         InTerm(l) /\ r.fresh => r.caught /\ OthersExited(l) /\ FreeOfScanned(r.free, r.left)
  PROVE  IInv'
<1>1. TypeInv /\ PrefixInv /\ \A k \in Loops : InTerm(k) => TermInv(k)
  BY DEF IInv
<1>2. /\ loop'[l] = r /\ \A k \in Loops : k # l => loop'[k] = loop[k]
      /\ loop' \in [Loops -> LoopRecord]
  BY <1>1 DEF Becomes, TypeInv
<1>3. TypeInv'
  BY <1>1, <1>2 DEF TypeInv
<1>4. PrefixInv'
  BY <1>1, PrefixKept
<1>5. \A k \in Loops : InTerm(k)' => InTerm(k)
  BY <1>2 DEF InTerm
<1>6. LogStore' = LogStore
  BY DEF LogStore
<1>7. ASSUME leader \in Nodes, NEW i \in 1 .. Len(log), Awaited(leader, i)
      PROVE  i =< applied[leader] \/ Awaited(leader, i)'
  <2>1. PICK k \in Loops : loop[k].on = leader /\ loop[k].pc = "apply" /\ loop[k].awaits = i
    BY <1>7 DEF Awaited
  <2>2. CASE k = l
    BY <2>1, <2>2
  <2>3. CASE k # l
    BY <1>2, <2>1, <2>3 DEF Awaited
  <2> QED BY <2>2, <2>3
<1>8. ASSUME NEW k \in Loops, InTerm(k)'
      PROVE  TermInv(k)'
  <2>1. InTerm(k) /\ TermInv(k) /\ leader \in Nodes
    BY <1>1, <1>5, <1>8 DEF InTerm
  <2>2. CASE k # l
    <3>1. loop'[k] = loop[k]
      BY <1>2, <2>2
    <3>2. OthersExited(k) => OthersExited(k)'
      BY <1>2 DEF OthersExited
    <3> QED BY <1>6, <1>7, <2>1, <3>1, <3>2 DEF TermInv, FreeOfScanned
  <2>3. CASE k = l
    <3>1. applied[leader] \in Nat
      BY <1>1, <2>1 DEF TypeInv
    <3>2. r.caught => \A i \in 1 .. Len(log) : i =< applied[leader] \/ Awaited(leader, i)
      <4>1. CASE loop[l].caught
        BY <2>1, <2>3, <4>1 DEF TermInv
      <4>2. CASE loop[l].pc = "catchup" /\ loop[l].awaits =< applied[leader]
        <5>1. loop[l].awaits \in Nat
          BY <1>1 DEF TypeInv, LoopRecord
        <5> QED BY <2>1, <2>3, <3>1, <4>2, <5>1 DEF TermInv
      <4> QED BY <2>1, <2>3, <4>1, <4>2
    <3>3. OthersExited(l) => OthersExited(l)'
      BY <1>2 DEF OthersExited
    <3>4. r.fresh => r.caught /\ OthersExited(l)' /\ FreeOfScanned(r.free, r.left)'
      BY <1>6, <2>1, <2>3, <3>3 DEF FreeOfScanned
    <3>5. r.caught => \A i \in 1 .. Len(log') : i =< applied'[leader'] \/ Awaited(leader, i)'
      BY <1>7, <2>1, <3>2
    <3>6. r.pc = "catchup" => r.awaits = Len(log')
      BY <2>1, <2>3
    <3> QED BY <1>2, <2>3, <3>4, <3>5, <3>6 DEF TermInv, FreeOfScanned
  <2> QED BY <2>2, <2>3
<1> QED BY <1>3, <1>4, <1>8 DEF IInv

\* A loop sends a command: the log grows, and that loop waits for it.
LEMMA LogMoves ==
  ASSUME IInv, NEW l \in Loops, NEW r \in LoopRecord, Becomes(l, r),
         Leads(l), At(l, "round"), NEW cmd \in Command,
         log' = Append(log, [cmd |-> cmd, gives |-> After(LogStore, cmd)]),
         UNCHANGED <<leader, applied, store, leaderCh, current>>,
         r.on = loop[l].on, r.pc = "apply", r.awaits = Len(log) + 1,
         r.caught = loop[l].caught, r.fresh = loop[l].fresh, r.left = loop[l].left,
         r.free = IF cmd.type = "assign" THEN loop[l].free \ {cmd.config} ELSE loop[l].free
  PROVE  IInv'
<1> DEFINE e == [cmd |-> cmd, gives |-> After(LogStore, cmd)]
           L == Len(log)
<1>1. TypeInv /\ PrefixInv /\ \A k \in Loops : InTerm(k) => TermInv(k)
  BY DEF IInv
<1>2. /\ loop'[l] = r /\ \A k \in Loops : k # l => loop'[k] = loop[k]
      /\ loop' \in [Loops -> LoopRecord]
  BY <1>1 DEF Becomes, TypeInv
<1>3. LogStore = Prefix(L) /\ LogStore \in Stores
  BY <1>1, LogStoreFacts
<1>4. e \in Entry
  BY <1>3, AfterFacts DEF Entry
<1>5. log \in Seq(Entry) /\ L \in Nat
  BY <1>1 DEF TypeInv
<1>6. /\ log' \in Seq(Entry) /\ Len(log') = L + 1 /\ log'[L + 1] = e
      /\ \A i \in 1 .. L : log'[i] = log[i]
  <2> HIDE DEF e
  <2> QED BY <1>4, <1>5 DEF e
<1>7. loop[l].on = leader /\ leader \in Nodes
  BY <1>1 DEF Leads, At, TypeInv
<1>8. TypeInv'
  <2>1. applied' \in [Nodes -> Nat] /\ \A n \in Nodes : applied'[n] =< Len(log')
    BY <1>1, <1>5, <1>6 DEF TypeInv
  <2>2. \A k \in Loops : loop'[k].pc # "none" => loop'[k].on \in Nodes
    BY <1>1, <1>2, <1>7 DEF TypeInv
  <2> QED BY <1>1, <1>2, <1>6, <2>1, <2>2 DEF TypeInv
<1>9. \A i \in 0 .. L : Prefix(i)' = Prefix(i)
  BY <1>5, <1>6 DEF Prefix
<1>10. LogStore' = After(LogStore, cmd)
  <2>1. log' # <<>>
    BY <1>5, <1>6
  <2> QED BY <1>6, <2>1 DEF LogStore
<1>11. PrefixInv'
  <2>1. \A n \in Nodes : applied[n] \in 0 .. L
    BY <1>1 DEF TypeInv
  <2>2. \A n \in Nodes : store'[n] = Prefix(applied[n])'
    BY <1>1, <1>9, <2>1 DEF PrefixInv, Prefix
  <2>3. ASSUME NEW i \in 1 .. L + 1
        PROVE  log'[i].gives = After(Prefix(i - 1)', log'[i].cmd)
    <3>1. CASE i = L + 1
      BY <1>3, <1>5, <1>6, <1>9, <3>1
    <3>2. CASE i # L + 1
      <4>1. i \in 1 .. L /\ i - 1 \in 0 .. L
        BY <1>5, <3>2
      <4> QED BY <1>1, <1>6, <1>9, <4>1 DEF PrefixInv
    <3> QED BY <3>1, <3>2
  <2> QED BY <1>6, <2>2, <2>3 DEF PrefixInv, After
<1>12. \A k \in Loops : InTerm(k)' => InTerm(k)
  BY <1>2, <1>7 DEF InTerm, At
<1>13. PICK m : m = L + 1 /\ Awaited(leader, m)'
  <2>1. PICK m : m = L + 1
    OBVIOUS
  <2>2. loop'[l].on = leader' /\ loop'[l].pc = "apply" /\ loop'[l].awaits = m
    BY <1>2, <1>7, <2>1
  <2> QED BY <2>1, <2>2 DEF Awaited
<1>14. \A i : Awaited(leader, i) => Awaited(leader, i)'
  BY <1>2 DEF Awaited, At
<1>15. ASSUME NEW k \in Loops, InTerm(k)'
       PROVE  TermInv(k)'
  <2>1. InTerm(k) /\ TermInv(k)
    BY <1>1, <1>12, <1>15
  <2>2. \A i \in 1 .. Len(log') : i = m \/ i \in 1 .. L
    BY <1>5, <1>6, <1>13
  <2>3. loop[k].caught =>
          \A i \in 1 .. Len(log') : i =< applied'[leader'] \/ Awaited(leader, i)'
    BY <1>6, <1>13, <1>14, <2>1, <2>2 DEF TermInv
  <2>4. CASE k # l
    <3>1. loop'[k] = loop[k]
      BY <1>2, <2>4
    <3>2. ~loop[k].fresh
      BY <1>7, <2>1, <2>4 DEF TermInv, OthersExited, At
    <3>3. loop[k].pc = "catchup" =>
            \A i \in 1 .. Len(log') :
              i =< loop[k].awaits \/ i =< applied'[leader'] \/ Awaited(leader, i)'
      BY <1>6, <1>13, <1>14, <2>1, <2>2 DEF TermInv
    <3> QED BY <2>3, <3>1, <3>2, <3>3 DEF TermInv
  <2>5. CASE k = l
    <3>1. OthersExited(l) => OthersExited(l)'
      BY <1>2 DEF OthersExited
    <3>2. loop[l].fresh => FreeOfScanned(loop[l].free, loop[l].left)
      BY <2>1, <2>5 DEF TermInv
    <3>3. CASE cmd.type = "assign"
      <4>1. \A h \in Nodes : LogStore'[h] \subseteq LogStore[h] \union {cmd.config}
        BY <1>3, <1>10, AfterFacts
      <4>2. loop[l].fresh => FreeOfScanned(r.free, r.left)'
        BY <3>2, <3>3, <4>1 DEF FreeOfScanned
      <4> QED BY <1>2, <2>1, <2>3, <2>5, <3>1, <4>2 DEF TermInv, FreeOfScanned
    <3>4. CASE cmd.type # "assign"
      <4>1. cmd.type = "remove"
        BY <3>4 DEF Command
      <4>2. \A h \in Nodes : LogStore'[h] \subseteq LogStore[h]
        BY <1>3, <1>10, <4>1, AfterFacts
      <4>3. loop[l].fresh => FreeOfScanned(r.free, r.left)'
        BY <3>2, <3>4, <4>2 DEF FreeOfScanned
      <4> QED BY <1>2, <2>1, <2>3, <2>5, <3>1, <4>3 DEF TermInv, FreeOfScanned
    <3> QED BY <3>3, <3>4
  <2> QED BY <2>4, <2>5
<1> QED BY <1>8, <1>11, <1>15 DEF IInv

-----------------------------------------------------------------------------
(* leaderLoop *)

\* What a step of a loop alone leaves as it is, and the record of the loop.
LEMMA LoopFacts ==
  ASSUME IInv, NEW l \in Loops
  PROVE  /\ TypeInv /\ loop[l] \in LoopRecord
         /\ OnlyLoop => UNCHANGED <<leader, log, applied, store, leaderCh, current>>
BY DEF IInv, TypeInv, OnlyLoop, raftVars, fsmVars, runVars

\* The round is over, or there was none.
LEMMA GoesToWait ==
  ASSUME IInv, NEW l \in Loops, Becomes(l, Between(loop[l], "wait")), OnlyLoop,
         loop[l].pc \notin {"none", "exit", "apply"}
  PROVE  IInv'
<1>1. loop[l] \in LoopRecord /\ UNCHANGED <<leader, log, applied, store, leaderCh, current>>
  BY LoopFacts
<1>2. PICK r : r = Between(loop[l], "wait")
  OBVIOUS
<1>3. /\ r \in LoopRecord /\ r.on = loop[l].on /\ r.pc = "wait"
      /\ r.caught = loop[l].caught /\ r.fresh = FALSE
  BY <1>1, <1>2, BetweenFacts DEF Places
<1> QED BY <1>1, <1>2, <1>3, LoopMoves

LEMMA BarrierStep ==
  ASSUME IInv, NEW l \in Loops, Barrier(l)
  PROVE  IInv'
<1>1. loop[l] \in LoopRecord /\ UNCHANGED <<leader, log, applied, store, leaderCh, current>>
  BY LoopFacts DEF Barrier
<1>2. loop[l].pc = "barrier" /\ OnlyLoop
  BY DEF Barrier, At
<1>3. CASE ~Leads(l)
  BY <1>2, <1>3, GoesToWait DEF Barrier
<1>4. CASE Leads(l)
  <2>1. PICK r : r = [loop[l] EXCEPT !.pc = "catchup", !.awaits = Len(log)]
    OBVIOUS
  <2>2. Becomes(l, r)
    BY <1>4, <2>1 DEF Barrier
  <2>3. Len(log) \in Nat
    BY LoopFacts DEF TypeInv
  <2>4. /\ r \in LoopRecord /\ r.on = loop[l].on /\ r.pc = "catchup" /\ r.awaits = Len(log)
        /\ r.caught = loop[l].caught /\ r.fresh = loop[l].fresh
        /\ r.free = loop[l].free /\ r.left = loop[l].left
    BY <1>1, <2>1, <2>3 DEF LoopRecord, Places
  <2>5. InTerm(l) /\ loop[l].fresh =>
          loop[l].caught /\ OthersExited(l) /\ FreeOfScanned(loop[l].free, loop[l].left)
    BY DEF IInv, TermInv
  <2> QED BY <1>1, <1>2, <2>2, <2>4, <2>5, LoopMoves
<1> QED BY <1>3, <1>4

LEMMA CaughtUpStep ==
  ASSUME IInv, NEW l \in Loops, CaughtUp(l)
  PROVE  IInv'
<1>1. loop[l] \in LoopRecord /\ UNCHANGED <<leader, log, applied, store, leaderCh, current>>
  BY LoopFacts DEF CaughtUp
<1>2. loop[l].pc = "catchup" /\ applied[loop[l].on] >= loop[l].awaits
  BY DEF CaughtUp, At
<1>3. PICK b : b = Between(loop[l], "wait")
  OBVIOUS
<1>4. PICK r : r = [b EXCEPT !.caught = TRUE]
  OBVIOUS
<1>5. Becomes(l, r)
  BY <1>3, <1>4 DEF CaughtUp
<1>6. b \in LoopRecord /\ b.on = loop[l].on /\ b.pc = "wait" /\ b.fresh = FALSE
  BY <1>1, <1>3, BetweenFacts DEF Places
<1>7. r \in LoopRecord /\ r.on = loop[l].on /\ r.pc = "wait" /\ r.fresh = FALSE
  BY <1>4, <1>6 DEF LoopRecord
<1>8. loop[l].awaits \in Nat /\ (InTerm(l) => loop[l].awaits =< applied[leader])
  BY <1>1, <1>2, LoopFacts DEF LoopRecord, InTerm, TypeInv
<1> QED BY <1>1, <1>2, <1>5, <1>7, <1>8, LoopMoves

LEMMA ReturnStep ==
  ASSUME IInv, NEW l \in Loops, Return(l)
  PROVE  IInv'
<1>1. loop[l] \in LoopRecord /\ UNCHANGED <<leader, log, applied, store, leaderCh, current>>
  BY LoopFacts DEF Return
<1>2. loop[l].pc = "wait"
  BY DEF Return, At
<1>3. PICK r : r = [NoLoop EXCEPT !.on = loop[l].on, !.pc = "exit"]
  OBVIOUS
<1>4. Becomes(l, r)
  BY <1>3 DEF Return
<1>5. /\ r \in LoopRecord /\ r.on = loop[l].on /\ r.pc = "exit" /\ r.fresh = FALSE
      /\ r.caught = FALSE
  BY <1>1, <1>3 DEF LoopRecord, NoLoop, Places
<1> QED BY <1>1, <1>2, <1>4, <1>5, LoopMoves

LEMMA ReconcileTickerStep ==
  ASSUME IInv, NEW l \in Loops, ReconcileTicker(l)
  PROVE  IInv'
<1>1. loop[l] \in LoopRecord /\ UNCHANGED <<leader, log, applied, store, leaderCh, current>>
  BY LoopFacts DEF ReconcileTicker
<1>2. loop[l].pc = "wait"
  BY DEF ReconcileTicker, At
<1>3. PICK r : r = [loop[l] EXCEPT !.pc = "barrier"]
  OBVIOUS
<1>4. Becomes(l, r)
  BY <1>3 DEF ReconcileTicker
<1>5. /\ r \in LoopRecord /\ r.on = loop[l].on /\ r.pc = "barrier"
      /\ r.caught = loop[l].caught /\ r.fresh = loop[l].fresh
      /\ r.free = loop[l].free /\ r.left = loop[l].left
  BY <1>1, <1>3 DEF LoopRecord, Places
<1>6. InTerm(l) /\ loop[l].fresh =>
        loop[l].caught /\ OthersExited(l) /\ FreeOfScanned(loop[l].free, loop[l].left)
  BY DEF IInv, TermInv
<1> QED BY <1>1, <1>2, <1>4, <1>5, <1>6, LoopMoves

\* Nothing is scanned yet.
LEMMA TickStep ==
  ASSUME IInv, NEW l \in Loops, Tick(l)
  PROVE  IInv'
<1>1. loop[l] \in LoopRecord /\ UNCHANGED <<leader, log, applied, store, leaderCh, current>>
  BY LoopFacts DEF Tick
<1>2. loop[l].pc = "wait"
  BY DEF Tick, At
<1>3. PICK a : a = Alone(l) /\ a \in BOOLEAN
  BY Zenon DEF Alone
<1>4. PICK r : r = [loop[l] EXCEPT !.pc = "round", !.fresh = a,
                                   !.free = Configs, !.left = Nodes]
  OBVIOUS
<1>5. Becomes(l, r)
  BY <1>3, <1>4 DEF Tick
<1>6. /\ r \in LoopRecord /\ r.on = loop[l].on /\ r.pc = "round"
      /\ r.caught = loop[l].caught /\ r.left = Nodes
  BY <1>1, <1>3, <1>4 DEF LoopRecord, Places
<1>7. r.fresh <=> Alone(l)
  BY <1>1, <1>3, <1>4 DEF LoopRecord
<1>8. Alone(l) => r.caught /\ OthersExited(l)
  BY <1>6 DEF Alone, OthersExited, At
<1>9. FreeOfScanned(r.free, r.left)
  BY <1>6 DEF FreeOfScanned
<1> QED BY <1>1, <1>2, <1>5, <1>6, <1>7, <1>8, <1>9, LoopMoves

LEMMA AppliedStep ==
  ASSUME IInv, NEW l \in Loops, Applied(l)
  PROVE  IInv'
<1>1. loop[l] \in LoopRecord /\ UNCHANGED <<leader, log, applied, store, leaderCh, current>>
  BY LoopFacts DEF Applied
<1>2. loop[l].pc = "apply" /\ applied[loop[l].on] >= loop[l].awaits
  BY DEF Applied, At
<1>3. PICK r : r = [loop[l] EXCEPT !.pc = "round", !.awaits = 0]
  OBVIOUS
<1>4. Becomes(l, r)
  BY <1>3 DEF Applied
<1>5. /\ r \in LoopRecord /\ r.on = loop[l].on /\ r.pc = "round"
      /\ r.caught = loop[l].caught /\ r.fresh = loop[l].fresh
      /\ r.free = loop[l].free /\ r.left = loop[l].left
  BY <1>1, <1>3 DEF LoopRecord, Places
<1>6. InTerm(l) /\ loop[l].fresh =>
        loop[l].caught /\ OthersExited(l) /\ FreeOfScanned(loop[l].free, loop[l].left)
  BY DEF IInv, TermInv
<1>7. loop[l].awaits =< applied[loop[l].on]
  BY <1>1, <1>2, LoopFacts DEF LoopRecord, TypeInv
<1> QED BY <1>1, <1>2, <1>4, <1>5, <1>6, <1>7, LoopMoves

\* A leader's loop that is alone and waits for no command has a node that has
\* applied the whole log.
LEMMA StoreIsLog ==
  ASSUME IInv, NEW l \in Loops, InTerm(l), loop[l].fresh, loop[l].pc = "round"
  PROVE  store[leader] = LogStore
<1>1. TypeInv /\ PrefixInv /\ TermInv(l) /\ leader \in Nodes
  BY DEF IInv, InTerm
<1>2. \A k \in Loops : loop[k].on = leader => loop[k].pc # "apply"
  BY <1>1 DEF TermInv, OthersExited
<1>3. \A i \in 1 .. Len(log) : i =< applied[leader]
  <2>1. \A i \in 1 .. Len(log) : i =< applied[leader] \/ Awaited(leader, i)
    BY <1>1 DEF TermInv
  <2>2. \A i : ~Awaited(leader, i)
    BY <1>2 DEF Awaited
  <2> QED BY <2>1, <2>2
<1>4. applied[leader] \in Nat /\ applied[leader] =< Len(log) /\ Len(log) \in Nat
  BY <1>1 DEF TypeInv
<1>5. applied[leader] = Len(log)
  <2>1. Len(log) = 0 \/ Len(log) \in 1 .. Len(log)
    BY <1>4
  <2>2. Len(log) =< applied[leader]
    BY <1>3, <1>4, <2>1
  <2> QED BY <1>4, <2>2
<1> QED BY <1>1, <1>5, LogStoreFacts DEF PrefixInv

LEMMA ScanHostStep ==
  ASSUME IInv, NEW l \in Loops, NEW h \in Nodes, ScanHost(l, h)
  PROVE  IInv'
<1>1. loop[l] \in LoopRecord /\ UNCHANGED <<leader, log, applied, store, leaderCh, current>>
  BY LoopFacts DEF ScanHost
<1>2. loop[l].pc = "round"
  BY DEF ScanHost, At
<1>3. PICK cs : cs = store[loop[l].on][h]
  OBVIOUS
<1>4. PICK r : r = [loop[l] EXCEPT !.left = @ \ {h}, !.free = @ \ cs,
                                   !.todo = {h} \X (cs \ loop[l].free)]
  OBVIOUS
<1>5. Becomes(l, r)
  BY <1>3, <1>4 DEF ScanHost
<1>6. cs \subseteq Configs
  <2>1. loop[l].on \in Nodes /\ store \in [Nodes -> Stores]
    BY <1>2, LoopFacts DEF TypeInv
  <2> QED BY <1>3, <2>1 DEF Stores
<1>7. {h} \X (cs \ loop[l].free) \in SUBSET (Nodes \X Configs)
  BY <1>6
<1>8. /\ r \in LoopRecord /\ r.on = loop[l].on /\ r.pc = "round"
      /\ r.caught = loop[l].caught /\ r.fresh = loop[l].fresh
      /\ r.free = loop[l].free \ cs /\ r.left = loop[l].left \ {h}
  BY <1>1, <1>2, <1>4, <1>7 DEF LoopRecord, Places
<1>9. ASSUME InTerm(l), loop[l].fresh
      PROVE  r.caught /\ OthersExited(l) /\ FreeOfScanned(r.free, r.left)
  <2>1. loop[l].caught /\ OthersExited(l) /\ FreeOfScanned(loop[l].free, loop[l].left)
    BY <1>9 DEF IInv, TermInv
  <2>2. cs = LogStore[h]
    BY <1>2, <1>3, <1>9, StoreIsLog DEF InTerm
  <2>3. FreeOfScanned(r.free, r.left)
    BY <1>8, <2>1, <2>2 DEF FreeOfScanned
  <2> QED BY <1>8, <2>1, <2>3
<1> QED BY <1>1, <1>2, <1>5, <1>8, <1>9, LoopMoves

LEMMA RoundEndsStep ==
  ASSUME IInv, NEW l \in Loops, RoundEnds(l)
  PROVE  IInv'
<1>1. loop[l].pc = "round"
  BY DEF RoundEnds, Scanned, At
<1> QED BY <1>1, GoesToWait DEF RoundEnds

\* raftApply, for a loop whose locals are r if the command succeeds.
LEMMA raftApplyStep ==
  ASSUME IInv, NEW l \in Loops, At(l, "round"),
         NEW type \in {"assign", "remove"}, NEW h \in Nodes, NEW c \in Configs,
         NEW r \in LoopRecord, raftApply(l, type, h, c, r),
         r.on = loop[l].on, r.caught = loop[l].caught, r.fresh = loop[l].fresh,
         r.left = loop[l].left,
         r.free = IF type = "assign" THEN loop[l].free \ {c} ELSE loop[l].free
  PROVE  IInv'
<1>1. UNCHANGED <<leader, leaderCh, applied, store, current, elections, stopped>>
  BY DEF raftApply, fsmVars, runVars
<1>2. CASE Leads(l) /\ Len(log) < MaxLog
  <2>1. PICK cmd : cmd = [type |-> type, host |-> h, config |-> c]
    OBVIOUS
  <2>2. cmd \in Command /\ cmd.type = type /\ cmd.config = c
    BY <2>1 DEF Command
  <2>3. PICK s : s = [r EXCEPT !.pc = "apply", !.awaits = Len(log) + 1]
    OBVIOUS
  <2>4. /\ log' = Append(log, [cmd |-> cmd, gives |-> After(LogStore, cmd)])
        /\ Becomes(l, s)
    BY <1>2, <2>1, <2>3 DEF raftApply
  <2>5. Len(log) + 1 \in Nat
    BY LoopFacts DEF TypeInv
  <2>6. /\ s \in LoopRecord /\ s.on = r.on /\ s.pc = "apply" /\ s.awaits = Len(log) + 1
        /\ s.caught = r.caught /\ s.fresh = r.fresh /\ s.left = r.left /\ s.free = r.free
    BY <2>3, <2>5 DEF LoopRecord, Places
  <2> QED BY <1>1, <1>2, <2>2, <2>4, <2>6, LogMoves
<1>3. CASE ~(Leads(l) /\ Len(log) < MaxLog)
  <2>1. Becomes(l, Between(loop[l], "wait")) /\ UNCHANGED log
    BY <1>3 DEF raftApply
  <2>2. OnlyLoop
    BY <1>1, <2>1 DEF OnlyLoop, raftVars, fsmVars, runVars
  <2> QED BY <2>1, <2>2, GoesToWait DEF At
<1> QED BY <1>2, <1>3

LEMMA ScanReleaseStep ==
  ASSUME IInv, NEW l \in Loops, NEW p \in loop[l].todo, ScanRelease(l, p)
  PROVE  IInv'
<1>1. loop[l] \in LoopRecord
  BY LoopFacts
<1>2. PICK r : r = [loop[l] EXCEPT !.todo = @ \ {p}]
  OBVIOUS
<1>3. At(l, "round") /\ raftApply(l, "remove", p[1], p[2], r)
  BY <1>2 DEF ScanRelease
<1>4. p \in Nodes \X Configs
  BY <1>1 DEF LoopRecord
<1>5. p[1] \in Nodes /\ p[2] \in Configs
  BY <1>4
<1>6. /\ r \in LoopRecord /\ r.on = loop[l].on /\ r.caught = loop[l].caught
      /\ r.fresh = loop[l].fresh /\ r.left = loop[l].left /\ r.free = loop[l].free
  BY <1>1, <1>2 DEF LoopRecord
<1> QED BY <1>3, <1>5, <1>6, raftApplyStep

LEMMA AssignStep ==
  ASSUME IInv, NEW l \in Loops, NEW h \in Nodes, NEW c \in Configs, Assign(l, h, c)
  PROVE  IInv'
<1>1. loop[l] \in LoopRecord
  BY LoopFacts
<1>2. PICK r : r = [loop[l] EXCEPT !.free = @ \ {c}]
  OBVIOUS
<1>3. At(l, "round") /\ raftApply(l, "assign", h, c, r)
  BY <1>2 DEF Assign, Scanned
<1>4. /\ r \in LoopRecord /\ r.on = loop[l].on /\ r.caught = loop[l].caught
      /\ r.fresh = loop[l].fresh /\ r.left = loop[l].left /\ r.free = loop[l].free \ {c}
  BY <1>1, <1>2 DEF LoopRecord
<1> QED BY <1>3, <1>4, raftApplyStep

-----------------------------------------------------------------------------
(* Raft and Run *)

\* A step that starts no term, and changes neither the log nor a loop.
LEMMA NoNewTerm ==
  ASSUME IInv, TypeInv', PrefixInv', UNCHANGED <<leader, log, loop>>,
         \A l \in Loops : InTerm(l)' => InTerm(l),
         \A n \in Nodes : applied'[n] >= applied[n]
  PROVE  IInv'
<1>1. TypeInv /\ \A l \in Loops : InTerm(l) => TermInv(l)
  BY DEF IInv
<1>2. \A l \in Loops : InTerm(l)' => TermInv(l)'
  BY <1>1, TermKept
<1> QED BY <1>2 DEF IInv

\* What is cut off the log nobody has applied.
LEMMA ElectStep ==
  ASSUME IInv, NEW n \in Nodes, Elect(n)
  PROVE  IInv'
<1>1. TypeInv /\ PrefixInv
  BY DEF IInv
<1>2. /\ leader' = n /\ leaderCh' = [leaderCh EXCEPT ![n] = Append(@, TRUE)]
      /\ UNCHANGED <<applied, store, current, loop>>
  BY DEF Elect, fsmVars, runVars
<1>3. PICK k \in 0 .. Len(log) : /\ \A i \in k + 1 .. Len(log) : ~committed(i)
                                 /\ log' = SubSeq(log, 1, k)
  BY DEF Elect
<1>4. /\ log \in Seq(Entry) /\ Len(log) \in Nat /\ k \in Nat /\ k =< Len(log)
      /\ \A m \in Nodes : applied[m] \in Nat /\ applied[m] =< Len(log)
  BY <1>1 DEF TypeInv
<1>5. log' \in Seq(Entry) /\ Len(log') = k /\ \A i \in 1 .. k : log'[i] = log[i]
  BY <1>3, <1>4
<1>6. \A m \in Nodes : applied[m] =< k
  <2>1. SUFFICES ASSUME NEW m \in Nodes, applied[m] > k PROVE FALSE
    BY <1>4
  <2>2. applied[m] \in k + 1 .. Len(log) /\ applied[m] >= applied[m]
    BY <1>4, <2>1
  <2> QED BY <1>3, <2>2 DEF committed
<1>7. leaderCh' \in [Nodes -> Seq(BOOLEAN)] /\ leaderCh'[n] # <<>>
  <2>1. leaderCh[n] \in Seq(BOOLEAN) /\ TRUE \in BOOLEAN
    BY <1>1 DEF TypeInv
  <2>2. PICK q : q = Append(leaderCh[n], TRUE)
    OBVIOUS
  <2>3. q \in Seq(BOOLEAN) /\ q # <<>>
    BY <2>1, <2>2, ChannelFacts, Zenon
  <2>4. leaderCh' = [leaderCh EXCEPT ![n] = q]
    BY <1>2, <2>2
  <2> QED BY <1>1, <2>3, <2>4 DEF TypeInv
<1>8. TypeInv'
  BY <1>1, <1>2, <1>5, <1>6, <1>7 DEF TypeInv
<1>9. \A i \in 0 .. k : Prefix(i)' = Prefix(i)
  BY <1>4, <1>5 DEF Prefix
<1>10. PrefixInv'
  <2>1. \A m \in Nodes : store'[m] = Prefix(applied[m])'
    BY <1>1, <1>2, <1>4, <1>6, <1>9 DEF PrefixInv, Prefix
  <2>2. ASSUME NEW i \in 1 .. k
        PROVE  log'[i].gives = After(Prefix(i - 1)', log'[i].cmd)
    <3>1. i \in 1 .. Len(log) /\ i - 1 \in 0 .. k
      BY <1>4
    <3> QED BY <1>1, <1>5, <1>9, <3>1 DEF PrefixInv
  <2> QED BY <1>5, <2>1, <2>2 DEF PrefixInv, After
<1>11. \A l \in Loops : ~InTerm(l)'
  BY <1>2, <1>7 DEF InTerm
<1> QED BY <1>8, <1>10, <1>11 DEF IInv

LEMMA StepDownStep ==
  ASSUME IInv, StepDown
  PROVE  IInv'
<1>1. TypeInv /\ PrefixInv
  BY DEF IInv
<1>2. /\ leader \in Nodes /\ leader' = None
      /\ leaderCh' = [leaderCh EXCEPT ![leader] = Append(@, FALSE)]
      /\ loop' = [l \in Loops |->
                    IF loop[l].pc \in {"catchup", "apply"} /\ loop[l].on = leader
                    THEN Between(loop[l], "wait") ELSE loop[l]]
      /\ UNCHANGED <<log, applied, store, current>>
  BY <1>1 DEF StepDown, TypeInv, fsmVars, runVars
<1>3. leaderCh' \in [Nodes -> Seq(BOOLEAN)]
  <2>1. leaderCh[leader] \in Seq(BOOLEAN) /\ FALSE \in BOOLEAN
    BY <1>1, <1>2 DEF TypeInv
  <2>2. PICK q : q = Append(leaderCh[leader], FALSE)
    OBVIOUS
  <2>3. q \in Seq(BOOLEAN)
    BY <2>1, <2>2, ChannelFacts, Zenon
  <2>4. leaderCh' = [leaderCh EXCEPT ![leader] = q]
    BY <1>2, <2>2
  <2> QED BY <1>1, <1>2, <2>3, <2>4 DEF TypeInv
<1>4. \A l \in Loops : loop[l] \in LoopRecord /\ (loop[l].pc # "none" => loop[l].on \in Nodes)
  BY <1>1 DEF TypeInv
<1>5. \A l \in Loops : /\ Between(loop[l], "wait") \in LoopRecord
                       /\ Between(loop[l], "wait").on = loop[l].on
  BY <1>4, BetweenFacts DEF Places
<1>6. /\ loop' \in [Loops -> LoopRecord]
      /\ \A l \in Loops : loop'[l].pc # "none" => loop'[l].on \in Nodes
  BY <1>2, <1>4, <1>5
<1>7. TypeInv'
  BY <1>1, <1>2, <1>3, <1>6 DEF TypeInv
<1>8. PrefixInv'
  BY <1>1, <1>2, PrefixKept
<1>9. \A l \in Loops : ~InTerm(l)'
  BY <1>2, LeadershipAssumption DEF InTerm
<1> QED BY <1>7, <1>8, <1>9 DEF IInv

LEMMA ApplyStep ==
  ASSUME IInv, NEW n \in Nodes, Apply(n)
  PROVE  IInv'
<1>1. TypeInv /\ PrefixInv
  BY DEF IInv
<1>2. /\ applied[n] < Len(log) /\ applied' = [applied EXCEPT ![n] = @ + 1]
      /\ store' = [store EXCEPT ![n] = After(@, log[applied[n] + 1].cmd)]
      /\ UNCHANGED <<leader, log, leaderCh, current, loop>>
  BY DEF Apply, raftVars, runVars
<1>3. PICK i : i = applied[n] + 1
  OBVIOUS
<1>4. /\ i \in 1 .. Len(log) /\ i - 1 = applied[n] /\ i # 0 /\ Len(log) \in Nat
      /\ applied' = [applied EXCEPT ![n] = i] /\ i >= applied[n]
      /\ log \in Seq(Entry)
  BY <1>1, <1>2, <1>3 DEF TypeInv
<1>5. log[i].gives = After(store[n], log[i].cmd)
  BY <1>1, <1>4 DEF PrefixInv
<1>6. store' = [store EXCEPT ![n] = log[i].gives]
  BY <1>2, <1>3, <1>5
<1>7. log[i] \in Entry
  BY <1>4
<1>8. log[i].gives \in Stores
  BY <1>7 DEF Entry
<1>9. /\ applied' \in [Nodes -> Nat] /\ store' \in [Nodes -> Stores]
      /\ \A m \in Nodes : /\ applied'[m] = IF m = n THEN i ELSE applied[m]
                          /\ store'[m] = IF m = n THEN log[i].gives ELSE store[m]
  BY <1>1, <1>4, <1>6, <1>8 DEF TypeInv
<1>10. \A m \in Nodes : applied'[m] >= applied[m] /\ applied'[m] =< Len(log)
  BY <1>1, <1>4, <1>9 DEF TypeInv
<1>11. TypeInv'
  BY <1>1, <1>2, <1>9, <1>10 DEF TypeInv
<1>12. PrefixInv'
  BY <1>1, <1>2, <1>4, <1>9 DEF PrefixInv, Prefix, After
<1>13. \A l \in Loops : InTerm(l)' => InTerm(l)
  BY <1>2 DEF InTerm
<1> QED BY <1>2, <1>10, <1>11, <1>12, <1>13, NoNewTerm

\* Run has nothing to stop when there is no loop.
LEMMA RunLostStep ==
  ASSUME IInv, NEW n \in Nodes, RunLost(n)
  PROVE  IInv'
<1>1. TypeInv /\ PrefixInv
  BY DEF IInv
<1>2. /\ leaderCh[n] # <<>> /\ leaderCh' = [leaderCh EXCEPT ![n] = Tail(@)]
      /\ current' = [current EXCEPT ![n] = 0]
      /\ UNCHANGED <<leader, log, applied, store, loop>>
  BY DEF RunLost, fsmVars
<1>3. /\ leaderCh' \in [Nodes -> Seq(BOOLEAN)]
      /\ \A m \in Nodes : m # n => leaderCh'[m] = leaderCh[m]
  <2>1. leaderCh[n] \in Seq(BOOLEAN) /\ TRUE \in BOOLEAN
    BY <1>1 DEF TypeInv
  <2>2. PICK q : q = Tail(leaderCh[n])
    OBVIOUS
  <2>3. q \in Seq(BOOLEAN)
    BY <1>2, <2>1, <2>2, ChannelFacts, Zenon
  <2>4. leaderCh' = [leaderCh EXCEPT ![n] = q]
    BY <1>2, <2>2
  <2> QED BY <1>1, <2>3, <2>4 DEF TypeInv
<1>4. /\ current' \in [Nodes -> Nat] /\ current'[n] = 0
      /\ \A m \in Nodes : m # n => current'[m] = current[m]
  BY <1>1, <1>2 DEF TypeInv
<1>5. TypeInv'
  BY <1>1, <1>2, <1>3, <1>4 DEF TypeInv
<1>6. PrefixInv'
  BY <1>1, <1>2, PrefixKept
<1>7. \A l \in Loops : InTerm(l)' => InTerm(l)
  BY <1>2, <1>3, <1>4, LoopNumbers DEF InTerm
<1>8. \A m \in Nodes : applied'[m] >= applied[m]
  BY <1>1, <1>2 DEF TypeInv
<1> QED BY <1>2, <1>5, <1>6, <1>7, <1>8, NoNewTerm

\* A new loop has caught up with nothing yet, and begins no term of another.
LEMMA RunAcquiredStep ==
  ASSUME IInv, NEW n \in Nodes, RunAcquired(n)
  PROVE  IInv'
<1>1. TypeInv /\ PrefixInv /\ \A k \in Loops : InTerm(k) => TermInv(k)
  BY DEF IInv
<1>2. PICK l \in Loops :
        /\ loop[l].pc = "none" /\ current' = [current EXCEPT ![n] = l]
        /\ loop' = [loop EXCEPT ![l] = [NoLoop EXCEPT !.on = n, !.pc = "barrier"]]
  BY DEF RunAcquired
<1>3. /\ leaderCh[n] # <<>> /\ leaderCh' = [leaderCh EXCEPT ![n] = Tail(@)]
      /\ UNCHANGED <<leader, log, applied, store>>
  BY DEF RunAcquired, fsmVars
<1>4. /\ leaderCh' \in [Nodes -> Seq(BOOLEAN)]
      /\ \A m \in Nodes : m # n => leaderCh'[m] = leaderCh[m]
  <2>1. leaderCh[n] \in Seq(BOOLEAN) /\ TRUE \in BOOLEAN
    BY <1>1 DEF TypeInv
  <2>2. PICK q : q = Tail(leaderCh[n])
    OBVIOUS
  <2>3. q \in Seq(BOOLEAN)
    BY <1>3, <2>1, <2>2, ChannelFacts, Zenon
  <2>4. leaderCh' = [leaderCh EXCEPT ![n] = q]
    BY <1>3, <2>2
  <2> QED BY <1>1, <2>3, <2>4 DEF TypeInv
<1>5. PICK r : r = [NoLoop EXCEPT !.on = n, !.pc = "barrier"]
  OBVIOUS
<1>6. /\ r \in LoopRecord /\ r.on = n /\ r.pc = "barrier"
      /\ r.caught = FALSE /\ r.fresh = FALSE
  BY <1>5 DEF NoLoop, LoopRecord, Places
<1>7. /\ loop' \in [Loops -> LoopRecord] /\ loop'[l] = r
      /\ \A k \in Loops : k # l => loop'[k] = loop[k]
  BY <1>1, <1>2, <1>5, <1>6 DEF TypeInv
<1>8. /\ current' \in [Nodes -> Nat] /\ current'[n] = l
      /\ \A m \in Nodes : m # n => current'[m] = current[m]
  BY <1>1, <1>2, LoopNumbers DEF TypeInv
<1>9. TypeInv'
  <2>1. \A k \in Loops : loop'[k].pc # "none" => loop'[k].on \in Nodes
    BY <1>1, <1>6, <1>7 DEF TypeInv
  <2> QED BY <1>1, <1>3, <1>4, <1>7, <1>8, <2>1 DEF TypeInv
<1>10. PrefixInv'
  BY <1>1, <1>3, PrefixKept
<1>11. ASSUME NEW k \in Loops, InTerm(k)'
       PROVE  TermInv(k)'
  <2>1. CASE k = l
    BY <1>6, <1>7, <2>1 DEF TermInv
  <2>2. CASE k # l
    <3>1. leader \in Nodes /\ leader # n /\ loop'[k] = loop[k]
      BY <1>3, <1>7, <1>8, <1>11, <2>2 DEF InTerm
    <3>2. InTerm(k) /\ TermInv(k)
      BY <1>1, <1>3, <1>4, <1>8, <1>11, <3>1 DEF InTerm
    <3>3. \A i : Awaited(leader, i) => Awaited(leader, i)'
      BY <1>2, <1>3, <1>7 DEF Awaited
    <3>4. OthersExited(k) => OthersExited(k)'
      BY <1>3, <1>6, <1>7, <3>1 DEF OthersExited
    <3>5. LogStore' = LogStore
      BY <1>3 DEF LogStore
    <3> QED BY <1>3, <3>1, <3>2, <3>3, <3>4, <3>5 DEF TermInv, FreeOfScanned
  <2> QED BY <2>1, <2>2
<1> QED BY <1>9, <1>10, <1>11 DEF IInv

-----------------------------------------------------------------------------
(* The specification *)

LEMMA LoopStepInv ==
  ASSUME IInv, NEW l \in Loops, LoopStep(l)
  PROVE  IInv'
<1>1. CASE Barrier(l) \/ CaughtUp(l) \/ Applied(l) \/ RoundEnds(l)
  BY <1>1, BarrierStep, CaughtUpStep, AppliedStep, RoundEndsStep
<1>2. CASE \E h \in Nodes : ScanHost(l, h) \/ \E c \in Configs : Assign(l, h, c)
  BY <1>2, ScanHostStep, AssignStep
<1>3. CASE \E p \in loop[l].todo : ScanRelease(l, p)
  BY <1>3, ScanReleaseStep
<1> QED BY <1>1, <1>2, <1>3 DEF LoopStep

LEMMA NextInv == IInv /\ [Next]_vars => IInv'
<1> SUFFICES ASSUME IInv, [Next]_vars PROVE IInv'
  OBVIOUS
<1>1. CASE \E n \in Nodes : Elect(n) \/ Apply(n) \/ RunLost(n) \/ RunAcquired(n)
  BY <1>1, ElectStep, ApplyStep, RunLostStep, RunAcquiredStep
<1>2. CASE StepDown
  BY <1>2, StepDownStep
<1>3. CASE \E l \in Loops : LoopStep(l) \/ ReconcileTicker(l) \/ Tick(l) \/ Return(l)
  BY <1>3, LoopStepInv, ReconcileTickerStep, TickStep, ReturnStep
<1>4. CASE UNCHANGED vars
  <2>1. UNCHANGED <<leader, log, applied, store, leaderCh, current, loop>>
    BY <1>4 DEF vars
  <2>2. TypeInv /\ PrefixInv
    BY DEF IInv
  <2>3. TypeInv' /\ PrefixInv'
    BY <2>1, <2>2, PrefixKept DEF TypeInv
  <2>4. \A l \in Loops : InTerm(l)' => InTerm(l)
    BY <2>1 DEF InTerm
  <2>5. \A n \in Nodes : applied'[n] >= applied[n]
    BY <2>1, <2>2 DEF TypeInv
  <2> QED BY <2>1, <2>3, <2>4, <2>5, NoNewTerm
<1> QED BY <1>1, <1>2, <1>3, <1>4 DEF Next

\* Only raftApply makes the log longer.
LEMMA LogGrows ==
  ASSUME IInv, Next, Len(log') > Len(log)
  PROVE  \E l \in Loops :
           \/ \E h \in Nodes, c \in Configs : Assign(l, h, c)
           \/ \E p \in loop[l].todo : ScanRelease(l, p)
<1>1. Len(log) \in Nat /\ log \in Seq(Entry)
  BY DEF IInv, TypeInv
<1>2. log' # log
  BY <1>1
<1>3. \A n \in Nodes : ~Elect(n)
  <2> SUFFICES ASSUME NEW n \in Nodes, Elect(n) PROVE FALSE
    OBVIOUS
  <2>1. PICK k \in 0 .. Len(log) : log' = SubSeq(log, 1, k)
    BY DEF Elect
  <2>2. Len(log') =< Len(log)
    BY <1>1, <2>1
  <2> QED BY <1>1, <2>1, <2>2
<1>4. \A n \in Nodes : ~(Apply(n) \/ RunLost(n) \/ RunAcquired(n))
  BY <1>2 DEF Apply, RunLost, RunAcquired, raftVars
<1>5. ~StepDown
  BY <1>2 DEF StepDown
<1>6. OnlyLoop => FALSE
  BY <1>2 DEF OnlyLoop, raftVars
<1>7. \A l \in Loops : /\ ~(ReconcileTicker(l) \/ Tick(l) \/ Return(l))
                       /\ ~(Barrier(l) \/ CaughtUp(l) \/ Applied(l) \/ RoundEnds(l))
                       /\ \A h \in Nodes : ~ScanHost(l, h)
  BY <1>6 DEF ReconcileTicker, Tick, Return, Barrier, CaughtUp, Applied, RoundEnds, ScanHost
<1> QED BY <1>3, <1>4, <1>5, <1>7 DEF Next, LoopStep

\* The command is the one that was sent, and only the leader's loop sends one.
LEMMA CommandSent ==
  ASSUME IInv, NEW l \in Loops, NEW type, NEW h, NEW c, NEW r,
         raftApply(l, type, h, c, r), Len(log') > Len(log)
  PROVE  Leads(l) /\ log'[Len(log')].cmd = [type |-> type, host |-> h, config |-> c]
<1>1. Len(log) \in Nat /\ log \in Seq(Entry)
  BY DEF IInv, TypeInv
<1>2. Leads(l) /\ Len(log) < MaxLog
  BY <1>1 DEF raftApply
<1>3. PICK cmd : cmd = [type |-> type, host |-> h, config |-> c]
  OBVIOUS
<1>4. PICK e : e = [cmd |-> cmd, gives |-> After(LogStore, cmd)]
  OBVIOUS
<1>5. log' = Append(log, e) /\ e.cmd = cmd
  BY <1>2, <1>3, <1>4 DEF raftApply
<1>6. log'[Len(log')] = e
  BY <1>1, <1>5
<1> QED BY <1>2, <1>3, <1>5, <1>6

\* The loop that is alone is the one that sends, and it has scanned all hosts.
LEMMA RoundStep ==
  ASSUME IInv, Next, NEW l \in Loops, loop[l].fresh, Alone(l), Len(log') > Len(log),
         log'[Len(log')].cmd.type = "assign"
  PROVE  Holders(LogStore, log'[Len(log')].cmd.config) = {}
<1>1. InTerm(l)
  BY DEF IInv, TypeInv, Alone, InTerm, Leads, At
<1>2. FreeOfScanned(loop[l].free, loop[l].left) /\ OthersExited(l)
  BY <1>1 DEF IInv, TermInv
<1>3. PICK k \in Loops : \/ \E h \in Nodes, c \in Configs : Assign(k, h, c)
                        \/ \E p \in loop[k].todo : ScanRelease(k, p)
  BY LogGrows
<1>4. ~\E p \in loop[k].todo : ScanRelease(k, p)
  <2> SUFFICES ASSUME NEW p \in loop[k].todo, ScanRelease(k, p) PROVE FALSE
    OBVIOUS
  <2>1. PICK r : raftApply(k, "remove", p[1], p[2], r)
    BY DEF ScanRelease
  <2>2. log'[Len(log')].cmd = [type |-> "remove", host |-> p[1], config |-> p[2]]
    BY <2>1, CommandSent
  <2> QED BY <2>2
<1>5. PICK h \in Nodes, c \in Configs : Assign(k, h, c)
  BY <1>3, <1>4
<1>6. PICK r : raftApply(k, "assign", h, c, r)
  BY <1>5 DEF Assign
<1>7. Leads(k) /\ log'[Len(log')].cmd = [type |-> "assign", host |-> h, config |-> c]
  BY <1>6, CommandSent
<1>8. loop[k].pc = "round" /\ loop[k].left = {} /\ c \in loop[k].free
  BY <1>5 DEF Assign, Scanned, At
<1>9. k = l
  BY <1>2, <1>7, <1>8 DEF OthersExited, Leads
<1>10. log'[Len(log')].cmd.config = c
  BY <1>7
<1> QED BY <1>2, <1>8, <1>9, <1>10 DEF FreeOfScanned, Holders

\* A scan by the loop of the term, begun when the node had caught up and the
\* loop was alone, reads what the whole log gives.
ScansReadTheLog ==
  \A l \in Loops : InTerm(l) /\ loop[l].fresh /\ At(l, "round") => store[leader] = LogStore

(***************************************************************************)
(* Every node's FSMStore is what the first part of one log gives, whatever  *)
(* was cut off when leaders changed, and the scan of a fresh round reads    *)
(* what all of it gives although List only looks at the node's own store    *)
(* (fsm.go:29-52, scheduler.go:95-97).                                      *)
(***************************************************************************)
THEOREM StoresFollowTheLog == Spec => [](PrefixInv /\ ScansReadTheLog)
<1>1. IInv => PrefixInv /\ ScansReadTheLog
  BY StoreIsLog DEF IInv, ScansReadTheLog, At
<1> QED BY <1>1, InitInv, NextInv, PTL DEF Spec

(***************************************************************************)
(* A round of a leader that had caught up and was alone when it began, and  *)
(* still is, gives no config to a host while the log gives it to another,   *)
(* for any number of nodes, configs, elections and commands                 *)
(* (leader.go:50-54, scheduler.go:178).                                     *)
(***************************************************************************)
THEOREM FreshRoundsNeverDouble == Spec => FreshRoundNeverDoubles
<1>1. IInv /\ [Next]_vars =>
        [\A l \in Loops : loop[l].fresh /\ Alone(l) /\ Len(log') > Len(log) =>
           LET cmd == log'[Len(log')].cmd
           IN  cmd.type = "assign" => Holders(LogStore, cmd.config) = {}]_vars
  BY RoundStep
<1> QED BY <1>1, InitInv, NextInv, PTL DEF Spec, FreshRoundNeverDoubles

-----------------------------------------------------------------------------
(* Membership *)

(***************************************************************************)
(* This node leads only once raft has been set up, and from then on         *)
(* maybeBootstrap does nothing.                                             *)
(***************************************************************************)
BootInv == (leading => raft) /\ (raft => expect = 0)

LEMMA BootInit == Cluster!MembershipAssumption /\ Cluster!Init => BootInv
  BY DEF Cluster!MembershipAssumption, Cluster!Init, BootInv

\* Loop steps, and what serf sees, leave what BootInv is about alone.
LEMMA OnlyHandlerBoots ==
  Cluster!Next /\ ~Cluster!EventHandler /\ ~Cluster!Acquire /\ ~Cluster!Lose =>
    UNCHANGED <<leading, raft, expect>>
<1> USE DEF Cluster!raftVars
<1>1. ASSUME NEW h \in Hosts, NEW new \in Cluster!Statuses, Cluster!SerfChange(h, new)
      PROVE  UNCHANGED <<leading, raft, expect>>
  BY <1>1 DEF Cluster!SerfChange
<1>2. ASSUME Cluster!LoopStep
      PROVE  UNCHANGED <<leading, raft, expect>>
  BY <1>2 DEF Cluster!LoopStep, Cluster!Barrier, Cluster!Reconciled, Cluster!removeServer,
              Cluster!Visit, Cluster!removeConfig, Cluster!OnlyLoop
<1>3. ASSUME \/ Cluster!Event \/ Cluster!ReconcileTicker \/ Cluster!UpdateTicker
             \/ Cluster!Return \/ Cluster!OtherLeader
      PROVE  UNCHANGED <<leading, raft, expect>>
  BY <1>3 DEF Cluster!Event, Cluster!ReconcileTicker, Cluster!UpdateTicker, Cluster!Return,
              Cluster!OtherLeader, Cluster!OnlyLoop
<1> QED
  BY <1>1, <1>2, <1>3 DEF Cluster!Next

LEMMA BootStep == BootInv /\ [Cluster!Next]_membershipVars => BootInv'
<1> SUFFICES ASSUME BootInv, [Cluster!Next]_membershipVars
             PROVE  BootInv'
  OBVIOUS
<1> USE DEF BootInv, Cluster!raftVars
<1>1. CASE Cluster!EventHandler
  BY <1>1 DEF Cluster!EventHandler, Cluster!maybeBootstrap
<1>2. CASE Cluster!Acquire
  BY <1>2 DEF Cluster!Acquire
<1>3. CASE Cluster!Lose
  BY <1>3 DEF Cluster!Lose
<1>4. CASE UNCHANGED membershipVars
  BY <1>4 DEF membershipVars
<1> QED
  BY <1>1, <1>2, <1>3, <1>4, OnlyHandlerBoots

\* What RemovedHasNoConfigs says of a step.
RemovesEmpty ==
  leading \/ (pc = "remove" /\ member' # member) =>
    \A h \in servers \ servers' : assigned'[h] = {}

\* reconcileMember only ever adds a server.
LEMMA ReconcileAdds ==
  ASSUME NEW m, NEW place, Cluster!reconcileMember(m, place)
  PROVE  servers \ servers' = {}
<1>1. CASE Cluster!addRaftPeer(m, place)
  BY <1>1 DEF Cluster!addRaftPeer
<1> QED
  BY <1>1 DEF Cluster!reconcileMember

LEMMA RemovesEmptyStep == BootInv /\ [Cluster!Next]_membershipVars => RemovesEmpty
<1> SUFFICES ASSUME BootInv, [Cluster!Next]_membershipVars
             PROVE  RemovesEmpty
  OBVIOUS
<1> USE DEF RemovesEmpty
<1>1. ASSUME NEW h \in Hosts, NEW new \in Cluster!Statuses, Cluster!SerfChange(h, new)
      PROVE  RemovesEmpty
  BY <1>1 DEF Cluster!SerfChange
<1>2. CASE Cluster!Acquire \/ Cluster!Lose
  BY <1>2 DEF Cluster!Acquire, Cluster!Lose
<1>3. CASE Cluster!OtherLeader
  BY <1>3 DEF Cluster!OtherLeader, Cluster!loopVars
<1>4. CASE Cluster!EventHandler
  BY <1>4 DEF Cluster!EventHandler, Cluster!maybeBootstrap, Cluster!loopVars, BootInv
<1>5. CASE Cluster!removeServer
  <2>1. assigned' = assigned /\ assigned[member[2]] = {}
    BY <1>5 DEF Cluster!removeServer
  <2>2. servers' = servers \/ servers' = servers \ {member[2]}
    BY <1>5 DEF Cluster!removeServer
  <2> QED
    BY <2>1, <2>2
<1>6. ASSUME NEW c \in Listed, Cluster!removeConfig(c)
      PROVE  RemovesEmpty
  <2>1. servers' = servers
    BY <1>6, Zenon DEF Cluster!removeConfig
  <2> QED
    BY <2>1
<1>7. CASE Cluster!Event
  <2>1. servers \ servers' = {}
    BY <1>7, ReconcileAdds DEF Cluster!Event
  <2> QED
    BY <2>1
<1>8. ASSUME NEW m \in todo, Cluster!Visit(m)
      PROVE  RemovesEmpty
  <2>1. servers \ servers' = {}
    BY <1>8, ReconcileAdds DEF Cluster!Visit
  <2> QED
    BY <2>1
<1>9. CASE \/ Cluster!Barrier \/ Cluster!Reconciled \/ Cluster!ReconcileTicker
           \/ Cluster!UpdateTicker \/ Cluster!Return
  BY <1>9 DEF Cluster!Barrier, Cluster!Reconciled, Cluster!ReconcileTicker,
              Cluster!UpdateTicker, Cluster!Return, Cluster!OnlyLoop
<1>10. CASE UNCHANGED membershipVars
  BY <1>10 DEF membershipVars
<1> QED
  BY <1>1, <1>2, <1>3, <1>4, <1>5, <1>6, <1>7, <1>8, <1>9, <1>10
     DEF Cluster!Next, Cluster!LoopStep

\* A step of the three services is one of Membership or leaves it alone.
LEMMA MembershipStep ==
  [ClusterNext]_<<membershipVars, shutdownVars, resolverVars>> => [Cluster!Next]_membershipVars
  BY Zenon DEF ClusterNext, MembershipMoves, ShutdownMoves, ResolverMoves

(***************************************************************************)
(* For any hosts, configs, sizes of the queue, changes of membership and    *)
(* terms: while this node leads, and when it ends a removeRaftPeer, no      *)
(* server with a config leaves the raft configuration                       *)
(* (combainer/leader.go:153-187, cluster.go:180-221).                       *)
(***************************************************************************)
THEOREM ServersLeaveEmpty == ClusterSpec => RemovedHasNoConfigs
<1>1. ClusterInit => BootInv
  BY BootInit, ClusterAssumption DEF ClusterInit
<1>2. BootInv /\ [Cluster!Next]_membershipVars => [RemovesEmpty]_membershipVars
  BY RemovesEmptyStep
<1>3. RemovedHasNoConfigs <=> [][RemovesEmpty]_membershipVars
  BY DEF RemovedHasNoConfigs, Cluster!RemovedHasNoConfigs, Cluster!vars, RemovesEmpty,
         membershipVars
<1> QED
  BY <1>1, <1>2, <1>3, BootStep, MembershipStep, PTL DEF ClusterSpec

-----------------------------------------------------------------------------
(* Resolver *)

(***************************************************************************)
(* What gRPC has was looked up before, what was looked up was the list at   *)
(* some moment, and Close has returned only when the watcher was gone.      *)
(***************************************************************************)
ResolverInv ==
  /\ {addrs, looked, members} \subseteq Nat /\ addrs =< looked /\ looked =< members
  /\ close = "returned" => watcher = "gone"

InOrder == addrs' >= addrs /\ (close = "returned" => addrs' = addrs)

LEMMA ResolverInit == Addrs!Init => ResolverInv
  BY DEF Addrs!Init, ResolverInv

LEMMA ResolverStep ==
  ResolverInv /\ [Addrs!Next]_resolverVars => ResolverInv' /\ [InOrder]_resolverVars
<1> SUFFICES ASSUME ResolverInv, [Addrs!Next]_resolverVars
             PROVE  ResolverInv' /\ InOrder
  OBVIOUS
<1> USE DEF ResolverInv, InOrder
<1>1. CASE Addrs!MembersChange
  BY <1>1 DEF Addrs!MembersChange
<1>2. CASE Addrs!ResolveNow \/ Addrs!Fire \/ Addrs!Close \/ Addrs!Closed
  BY <1>2 DEF Addrs!ResolveNow, Addrs!Fire, Addrs!Close, Addrs!Closed
<1>3. CASE Addrs!Select
  BY <1>3 DEF Addrs!Select
<1>4. CASE Addrs!Resolve
  BY <1>4 DEF Addrs!Resolve
<1>5. CASE Addrs!NewAddress
  BY <1>5 DEF Addrs!NewAddress
<1>6. CASE UNCHANGED resolverVars
  BY <1>6 DEF resolverVars
<1> QED
  BY <1>1, <1>2, <1>3, <1>4, <1>5, <1>6 DEF Addrs!Next, Addrs!Watch

LEMMA ResolverMoved ==
  [ClusterNext]_<<membershipVars, shutdownVars, resolverVars>> => [Addrs!Next]_resolverVars
  BY Zenon DEF ClusterNext, MembershipMoves, ShutdownMoves, ResolverMoves

(***************************************************************************)
(* For any number of changes of the member list: gRPC never gets an older   *)
(* list after a newer one, and nothing once Close has returned, although    *)
(* the watcher looks up and publishes in two steps                          *)
(* (combainer/resolver.go:74-97).                                           *)
(***************************************************************************)
THEOREM AddressesStayInOrder == ClusterSpec => AddressesInOrder
<1>1. AddressesInOrder <=> [][InOrder]_resolverVars
  BY DEF AddressesInOrder, Addrs!AddressesInOrder, Addrs!vars, InOrder, resolverVars
<1> QED
  BY <1>1, ResolverInit, ResolverStep, ResolverMoved, PTL DEF ClusterSpec, ClusterInit

=============================================================================
