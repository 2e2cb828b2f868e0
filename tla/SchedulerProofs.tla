-------------------------- MODULE SchedulerProofs --------------------------
(***************************************************************************)
(* Proofs about Scheduler for any finite sets of hosts and configs: the     *)
(* balancer works on a partition of the listed configs, no config is ever   *)
(* assigned to a host while another one has it, the rounds implement        *)
(* Assignment, a round leaves fewer configs than hosts unassigned, and a    *)
(* settled assignment is left alone.                                        *)
(*                                                                         *)
(* BalancerPartition says nothing of the scan that establishes it, so the   *)
(* inductive invariant IInv follows the scan host by host: what the hosts   *)
(* seen so far keep is disjoint and is exactly what has left the free set.  *)
(* RInv adds the counts (quantity against what a host has), BInv what each  *)
(* turn of the balancer achieves.                                           *)
(***************************************************************************)
EXTENDS Scheduler, FiniteSetTheorems, FunctionTheorems, SequenceTheorems, TLAPS

\* A running round has at least one host and each host once.
HostsOK ==
  phase # "idle" =>
    /\ Len(hosts) > 0
    /\ \A i, j \in 1 .. Len(hosts) : i # j => hosts[i] # hosts[j]

\* The dead hosts' configs are released before anything is counted.
DeadInv == phase = "dead" => free = listed

\* Config c is kept by the i-th host, as far as the scan has come.
Keeps(i, c) ==
  /\ c \in store[hosts[i]]
  /\ ~(i = turn /\ <<hosts[i], c>> \in todo)

ScanInv ==
  phase = "scan" =>
    /\ turn > 0
    /\ free \subseteq listed
    /\ \A h \in Hosts \ ToSet(hosts) : store[h] = {}
    /\ \A p \in todo : p[1] = hosts[turn] /\ p[2] \in store[hosts[turn]]
    /\ \A i \in 1 .. turn, c \in Configs : Keeps(i, c) => c \in listed /\ c \notin free
    /\ \A i, j \in 1 .. turn, c \in Configs : i # j => ~(Keeps(i, c) /\ Keeps(j, c))
    /\ \A c \in listed \ free : \E i \in 1 .. turn : Keeps(i, c)

\* BalancerPartition, config by config.
Partition ==
  phase \in Balancing =>
    /\ free \subseteq listed
    /\ \A h \in Hosts \ ToSet(hosts) : store[h] = {}
    /\ \A h \in Hosts : \A c \in store[h] : c \in listed /\ c \notin free
    /\ \A g, h \in Hosts, c \in Configs : g # h => ~(c \in store[g] /\ c \in store[h])
    /\ \A c \in listed \ free : \E h \in Hosts : c \in store[h]

\* What the loops of the balancer are about to release or assign.
TurnInv ==
  phase \in Balancing =>
    /\ turn > 0 /\ over > 0
    /\ overHost \in Hosts
    /\ phase = "release" => \A p \in todo : p[1] = overHost /\ p[2] \in store[overHost]
    /\ phase = "assign" => \A p \in todo : p[1] = hosts[turn] /\ p[2] \in free

IInv == TypeOK /\ HostsOK /\ DeadInv /\ ScanInv /\ Partition /\ TurnInv

-----------------------------------------------------------------------------

\* An enumeration of some hosts is a sequence that has each of them once.
LEMMA SetToSeqsOK ==
  ASSUME NEW S \in SUBSET Hosts, S # {}, NEW s \in SetToSeqs(S)
  PROVE  /\ s \in Seq(Hosts)
         /\ Len(s) \in Nat /\ Len(s) > 0
         /\ \A i \in 1 .. Len(s) : s[i] \in S
         /\ \A i, j \in 1 .. Len(s) : i # j => s[i] # s[j]
<1> DEFINE n == Cardinality(S)
<1>1. IsFiniteSet(S) /\ n \in Nat /\ n # 0
  BY SchedulerAssumption, FS_Subset, FS_CardinalityType, FS_EmptySet
<1>2. /\ s \in [1 .. n -> S]
      /\ \A i, j \in 1 .. n : i # j => s[i] # s[j]
  BY DEF SetToSeqs
<1> HIDE DEF n
<1>3. s \in Seq(S)
  BY <1>1, <1>2, SeqDef
<1>4. Len(s) = n
  BY <1>1, <1>2, <1>3, LenProperties
<1>5. s \in Seq(Hosts)
  BY <1>3, SeqMonotonic
<1> QED
  BY <1>1, <1>2, <1>4, <1>5

\* What the type invariant says of the sequence of hosts.
LEMMA HostsFacts ==
  ASSUME TypeOK
  PROVE  /\ Len(hosts) \in Nat
         /\ DOMAIN hosts = 1 .. Len(hosts)
         /\ \A i \in 1 .. Len(hosts) : hosts[i] \in Hosts /\ hosts[i] \in ToSet(hosts)
         /\ \A h \in ToSet(hosts) : \E i \in 1 .. Len(hosts) : h = hosts[i]
         /\ ToSet(hosts) \subseteq Hosts
BY LenProperties DEF TypeOK, ToSet

\* Whatever the store holds: no round is running.
LEMMA InitIInv == Init => IInv
<1> SUFFICES ASSUME Init PROVE IInv
  OBVIOUS
<1>1. hosts \in Seq(Hosts) /\ Len(hosts) = 0
  BY EmptySeq DEF Init
<1>2. TypeOK
  BY <1>1 DEF Init, TypeOK, Phases
<1> QED
  BY <1>2 DEF Init, IInv, HostsOK, DeadInv, ScanInv, Partition, TurnInv, Balancing

\* A round that is over leaves only types to preserve.
LEMMA IdleIInv ==
  ASSUME TypeOK, store' \in [Hosts -> SUBSET Configs], alive' \subseteq Hosts,
         repo' \subseteq Configs, phase' = "idle", RoundReset
  PROVE  IInv'
<1>1. hosts' \in Seq(Hosts) /\ Len(hosts') = 0
  BY EmptySeq DEF RoundReset
<1>2. TypeOK'
  BY <1>1 DEF RoundReset, TypeOK, Phases
<1> QED
  BY <1>2 DEF IInv, HostsOK, DeadInv, ScanInv, Partition, TurnInv, Balancing

\* Taking a config away, or failing to, keeps the store's type.
LEMMA ReleaseType ==
  ASSUME TypeOK, NEW p \in todo, NEW ok \in BOOLEAN, releaseConfig(p, ok)
  PROVE  /\ p[1] \in Hosts /\ p[2] \in Configs /\ p = <<p[1], p[2]>>
         /\ store' \in [Hosts -> SUBSET Configs]
         /\ \A h \in Hosts : store'[h] \subseteq store[h]
         /\ ok => store' = [store EXCEPT ![p[1]] = @ \ {p[2]}]
<1>1. p[1] \in Hosts /\ p[2] \in Configs /\ p = <<p[1], p[2]>>
  BY DEF TypeOK
<1> QED
  BY <1>1 DEF TypeOK, releaseConfig

\* Giving a config to a host, or failing to, keeps the store's type.
LEMMA AssignType ==
  ASSUME TypeOK, NEW p \in todo, NEW ok \in BOOLEAN, assignConfig(p, ok)
  PROVE  /\ p[1] \in Hosts /\ p[2] \in Configs /\ p = <<p[1], p[2]>>
         /\ store' \in [Hosts -> SUBSET Configs]
         /\ \A h \in Hosts : store'[h] \subseteq store[h] \union {p[2]}
         /\ ok => store' = [store EXCEPT ![p[1]] = @ \union {p[2]}]
<1> DEFINE after == [store EXCEPT ![p[1]] = @ \union {p[2]}]
<1>1. p[1] \in Hosts /\ p[2] \in Configs /\ p = <<p[1], p[2]>>
  BY DEF TypeOK
<1>2. store' = store \/ store' = after
  BY DEF assignConfig
<1>3. store \in [Hosts -> SUBSET Configs] /\ after \in [Hosts -> SUBSET Configs]
  BY <1>1 DEF TypeOK
<1>4. \A h \in Hosts : after[h] \subseteq store[h] \union {p[2]}
  BY <1>1, <1>3
<1>5. ok => store' = after
  BY DEF assignConfig
<1> QED
  BY <1>1, <1>2, <1>3, <1>4, <1>5

\* A round begins: everything listed is free, nothing is kept yet.
LEMMA StartStep == ASSUME IInv, Start PROVE IInv'
<1> USE DEF IInv
<1>1. alive \in SUBSET Hosts /\ alive # {} /\ hosts' \in SetToSeqs(alive)
  BY DEF Start, TypeOK
<1>2. /\ hosts' \in Seq(Hosts) /\ Len(hosts') \in Nat /\ Len(hosts') > 0
      /\ \A i, j \in 1 .. Len(hosts') : i # j => hosts'[i] # hosts'[j]
  BY <1>1, SetToSeqsOK
<1>3. TypeOK'
  BY <1>2 DEF Start, TypeOK, Phases, envVars
<1>4. HostsOK'
  BY <1>2 DEF HostsOK
<1> QED
  BY <1>3, <1>4 DEF Start, DeadInv, ScanInv, Partition, TurnInv, Balancing

\* The scan starts only when no dead host has configs left.
LEMMA NextDeadHostStep == ASSUME IInv, NextDeadHost PROVE IInv'
<1> USE DEF IInv
<1>1. /\ hosts' = hosts /\ Len(hosts) \in Nat /\ Len(hosts) > 0
      /\ store' = store /\ listed' = listed /\ free' = free
      /\ hosts[1] \in Hosts
  BY HostsFacts DEF NextDeadHost, HostsOK
<1>2. TypeOK'
  <2>1. todo' \subseteq Hosts \X Configs
    BY <1>1 DEF NextDeadHost, TypeOK, Pairs, DeadHosts
  <2>2. turn' \in 0 .. Len(hosts') /\ phase' \in Phases
    BY <1>1 DEF NextDeadHost, TypeOK, Phases
  <2> QED BY <2>1, <2>2 DEF NextDeadHost, TypeOK, envVars
<1>3. HostsOK' /\ DeadInv'
  BY <1>1 DEF NextDeadHost, HostsOK, DeadInv
<1>4. ScanInv'
  <2> SUFFICES ASSUME phase' = "scan" PROVE ScanInv'
    BY DEF ScanInv
  <2>1. turn' = 1 /\ DeadHosts = {} /\ todo' = Pairs(hosts[1], store[hosts[1]])
    BY DEF NextDeadHost
  <2>2. free = listed
    BY DEF NextDeadHost, DeadInv
  <2>3. \A c \in Configs : ~Keeps(1, c)'
    BY <1>1, <2>1 DEF Keeps, Pairs
  <2>4. \A h \in Hosts \ ToSet(hosts) : store[h] = {}
    BY <2>1 DEF DeadHosts
  <2>5. \A p \in todo' : p[1] = hosts[1] /\ p[2] \in store[hosts[1]]
    BY <2>1 DEF Pairs
  <2> QED BY <1>1, <2>1, <2>2, <2>3, <2>4, <2>5 DEF ScanInv
<1>5. Partition' /\ TurnInv'
  BY DEF NextDeadHost, Partition, TurnInv, Balancing
<1> QED
  BY <1>2, <1>3, <1>4, <1>5

\* A config of a dead host is taken away, or the round ends.
LEMMA ReleaseDeadStep ==
  ASSUME IInv, NEW p \in todo, NEW ok \in BOOLEAN, ReleaseDead(p, ok)
  PROVE  IInv'
<1> USE DEF IInv
<1>1. releaseConfig(p, ok) /\ phase = "dead"
  BY DEF ReleaseDead
<1>2. store' \in [Hosts -> SUBSET Configs]
  BY <1>1, ReleaseType
<1>3. CASE ~ok
  BY <1>2, <1>3, IdleIInv DEF ReleaseDead, Abort, envVars, TypeOK
<1>4. CASE ok
  <2>1. TypeOK'
    BY <1>2, <1>4 DEF ReleaseDead, TypeOK, envVars
  <2>2. HostsOK' /\ DeadInv'
    BY <1>1, <1>4 DEF ReleaseDead, HostsOK, DeadInv
  <2> QED BY <2>1, <2>2, <1>1, <1>4 DEF ReleaseDead, ScanInv, Partition, TurnInv, Balancing
<1> QED
  BY <1>3, <1>4

\* A config that is kept leaves the free set, so no later host keeps it.
LEMMA ScanKeepStep ==
  ASSUME IInv, NEW p \in todo, ScanKeep(p)
  PROVE  IInv'
<1> USE DEF IInv
<1>1. /\ phase = "scan" /\ phase' = "scan" /\ UNCHANGED <<store, hosts, listed, turn>>
      /\ p[2] \in free /\ free' = free \ {p[2]} /\ todo' = todo \ {p}
  BY DEF ScanKeep
<1>2. p[1] = hosts[turn] /\ p[2] \in Configs /\ p = <<p[1], p[2]>>
  BY <1>1 DEF ScanInv, TypeOK
<1>3. turn \in 1 .. Len(hosts) /\ Len(hosts) \in Nat
  BY <1>1, HostsFacts DEF ScanInv, TypeOK
<1>4. TypeOK'
  BY <1>1, <1>2 DEF ScanKeep, TypeOK, envVars
<1>5. HostsOK' /\ DeadInv' /\ Partition' /\ TurnInv'
  BY <1>1 DEF HostsOK, DeadInv, Partition, TurnInv, Balancing
<1>6. \A i \in 1 .. turn, c \in Configs :
        Keeps(i, c)' => Keeps(i, c) \/ (i = turn /\ c = p[2])
  BY <1>1, <1>2 DEF Keeps
<1>7. \A i \in 1 .. turn, c \in Configs : Keeps(i, c) => Keeps(i, c)'
  BY <1>1 DEF Keeps
<1>8. p[2] \in listed /\ \A i \in 1 .. turn : ~Keeps(i, p[2])
  BY <1>1, <1>2 DEF ScanInv
<1>9. \A c \in listed' \ free' : \E i \in 1 .. turn : Keeps(i, c)'
  <2> SUFFICES ASSUME NEW c \in listed \ free' PROVE \E i \in 1 .. turn : Keeps(i, c)'
    BY <1>1
  <2>1. CASE c = p[2]
    <3>1. p[2] \in store[hosts[turn]]
      BY <1>1, <1>2 DEF ScanInv
    <3>2. Keeps(turn, c)'
      BY <2>1, <3>1, <1>1, <1>2 DEF Keeps
    <3> QED BY <3>2, <1>1, <1>3
  <2>2. CASE c # p[2]
    <3>1. c \in listed \ free /\ c \in Configs
      BY <2>2, <1>1 DEF TypeOK
    <3> QED BY <3>1, <1>1, <1>7 DEF ScanInv
  <2> QED BY <2>1, <2>2
<1>10. ScanInv'
  <2>1. \A i \in 1 .. turn, c \in Configs : Keeps(i, c)' => c \in listed /\ c \notin free'
    BY <1>1, <1>6, <1>8 DEF ScanInv
  <2>2. \A i, j \in 1 .. turn, c \in Configs : i # j => ~(Keeps(i, c)' /\ Keeps(j, c)')
    BY <1>1, <1>6, <1>8 DEF ScanInv
  <2> QED BY <2>1, <2>2, <1>1, <1>9 DEF ScanInv
<1> QED
  BY <1>4, <1>5, <1>10

\* A config that is not free is taken away, or the round ends.
LEMMA ScanReleaseStep ==
  ASSUME IInv, NEW p \in todo, NEW ok \in BOOLEAN, ScanRelease(p, ok)
  PROVE  IInv'
<1> USE DEF IInv
<1>1. releaseConfig(p, ok) /\ phase = "scan" /\ p[2] \notin free
  BY DEF ScanRelease
<1>2. /\ store' \in [Hosts -> SUBSET Configs]
      /\ p[1] \in Hosts /\ p[2] \in Configs /\ p = <<p[1], p[2]>>
      /\ ok => store' = [store EXCEPT ![p[1]] = @ \ {p[2]}]
  BY <1>1, ReleaseType
<1>3. CASE ~ok
  BY <1>2, <1>3, IdleIInv DEF ScanRelease, Abort, envVars, TypeOK
<1>4. CASE ok
  <2>1. /\ UNCHANGED <<phase, hosts, listed, free, turn>> /\ todo' = todo \ {p}
        /\ store' = [store EXCEPT ![p[1]] = @ \ {p[2]}]
    BY <1>2, <1>4 DEF ScanRelease
  <2>2. TypeOK'
    BY <1>2, <1>4 DEF ScanRelease, TypeOK, envVars
  <2>3. HostsOK' /\ DeadInv' /\ Partition' /\ TurnInv'
    BY <1>1, <2>1 DEF HostsOK, DeadInv, Partition, TurnInv, Balancing
  <2>4. p[1] = hosts[turn] /\ turn \in 1 .. Len(hosts) /\ Len(hosts) \in Nat
    BY <1>1, HostsFacts DEF ScanInv, TypeOK
  <2>5. \A i \in 1 .. turn : hosts[i] \in Hosts /\ (i # turn => hosts[i] # p[1])
    BY <1>1, <2>4, HostsFacts DEF HostsOK
  <2>6. \A i \in 1 .. turn, c \in Configs : Keeps(i, c)' <=> Keeps(i, c)
    <3> SUFFICES ASSUME NEW i \in 1 .. turn, NEW c \in Configs
                 PROVE  Keeps(i, c)' <=> Keeps(i, c)
      OBVIOUS
    <3>1. CASE i # turn
      BY <3>1, <2>1, <2>5 DEF Keeps, TypeOK
    <3>2. CASE i = turn
      <4>1. hosts[i] = p[1] /\ store'[p[1]] = store[p[1]] \ {p[2]}
        BY <3>2, <1>2, <2>1, <2>4 DEF TypeOK
      <4>2. <<p[1], c>> \in todo' <=> <<p[1], c>> \in todo /\ c # p[2]
        BY <1>2, <2>1
      <4>3. <<p[1], p[2]>> \in todo
        BY <1>2
      <4> QED BY <3>2, <4>1, <4>2, <4>3, <2>1 DEF Keeps
    <3> QED BY <3>1, <3>2
  <2>7. \A h \in Hosts \ ToSet(hosts) : store'[h] = {}
    BY <1>1, <2>1 DEF ScanInv, TypeOK
  <2>8. \A q \in todo' : q[1] = hosts[turn] /\ q[2] \in store'[hosts[turn]]
    <3> SUFFICES ASSUME NEW q \in todo' PROVE q[1] = hosts[turn] /\ q[2] \in store'[hosts[turn]]
      OBVIOUS
    <3>1. q \in todo /\ q # p /\ q = <<q[1], q[2]>>
      BY <2>1 DEF TypeOK
    <3>2. q[1] = p[1] /\ q[2] # p[2] /\ q[2] \in store[p[1]]
      BY <3>1, <1>1, <1>2, <2>4 DEF ScanInv
    <3> QED BY <3>2, <1>2, <2>1, <2>4 DEF TypeOK
  <2>9. ScanInv'
    <3>1. \A c \in listed \ free : \E i \in 1 .. turn : Keeps(i, c)'
      BY <1>1, <2>6 DEF ScanInv, TypeOK
    <3> QED BY <1>1, <2>1, <2>6, <2>7, <2>8, <3>1 DEF ScanInv
  <2> QED BY <2>2, <2>3, <2>9
<1> QED
  BY <1>3, <1>4

\* After the last host, what the scan has kept is the whole assignment.
LEMMA ScanNextStep == ASSUME IInv, ScanNext PROVE IInv'
<1> USE DEF IInv
<1>1. /\ phase = "scan" /\ todo = {} /\ UNCHANGED <<store, envVars, listed, quantity, free, wantage>>
      /\ turn \in 1 .. Len(hosts) /\ Len(hosts) \in Nat
  BY HostsFacts DEF ScanNext, ScanInv, TypeOK
<1>2. \A i \in 1 .. Len(hosts) : hosts[i] \in Hosts
  BY HostsFacts
<1>3. CASE turn < Len(hosts)
  <2>1. /\ turn' = turn + 1 /\ UNCHANGED <<phase, hosts, over, overHost>>
        /\ todo' = Pairs(hosts[turn + 1], store[hosts[turn + 1]])
    BY <1>3 DEF ScanNext
  <2>2. turn + 1 \in 1 .. Len(hosts) /\ hosts[turn + 1] \in Hosts
    BY <1>1, <1>2, <1>3
  <2>3. TypeOK'
    BY <1>1, <2>1, <2>2 DEF TypeOK, Pairs, envVars
  <2>4. HostsOK' /\ DeadInv' /\ Partition' /\ TurnInv'
    BY <1>1, <2>1 DEF HostsOK, DeadInv, Partition, TurnInv, Balancing
  <2>5. \A c \in Configs, i \in 1 .. turn' : i = turn' => ~Keeps(i, c)'
    BY <1>1, <2>1, <2>2 DEF Keeps, Pairs
  <2>6. \A i \in 1 .. turn, c \in Configs : Keeps(i, c)' <=> Keeps(i, c)
    BY <1>1, <2>1 DEF Keeps
  <2>7. \A i \in 1 .. turn' : i \in 1 .. turn \/ i = turn'
    BY <1>1, <2>1
  <2>8. \A p \in todo' : p[1] = hosts'[turn'] /\ p[2] \in store'[hosts'[turn']]
    BY <1>1, <2>1 DEF Pairs
  <2>9. \A c \in listed \ free : \E i \in 1 .. turn' : Keeps(i, c)'
    <3> SUFFICES ASSUME NEW c \in listed \ free PROVE \E i \in 1 .. turn' : Keeps(i, c)'
      OBVIOUS
    <3>1. PICK i \in 1 .. turn : Keeps(i, c)
      BY <1>1 DEF ScanInv
    <3>2. Keeps(i, c)' /\ i \in 1 .. turn'
      BY <3>1, <2>1, <2>6, <1>1 DEF TypeOK
    <3> QED BY <3>2
  <2>10. ScanInv'
    BY <1>1, <2>1, <2>5, <2>6, <2>7, <2>8, <2>9 DEF ScanInv
  <2> QED BY <2>3, <2>4, <2>10
<1>4. CASE ~(turn < Len(hosts))
  <2>1. PICK s \in SetToSeqs(ToSet(hosts)) :
          /\ Sorted(s) /\ hosts' = s /\ over' = Len(s) /\ overHost' = s[Len(s)]
          /\ phase' = "plan" /\ turn' = 1 /\ todo' = {}
    BY <1>1, <1>4 DEF ScanNext
  <2>2. ToSet(hosts) \in SUBSET Hosts /\ ToSet(hosts) # {}
    BY <1>1, HostsFacts
  <2>3. /\ s \in Seq(Hosts) /\ Len(s) \in Nat /\ Len(s) > 0
        /\ \A i \in 1 .. Len(s) : s[i] \in Hosts
        /\ \A i, j \in 1 .. Len(s) : i # j => s[i] # s[j]
    BY <2>2, SetToSeqsOK
  <2>4. TypeOK'
    BY <1>1, <2>1, <2>3 DEF TypeOK, envVars, Phases
  <2>5. HostsOK' /\ DeadInv' /\ ScanInv' /\ TurnInv'
    BY <2>1, <2>3 DEF HostsOK, DeadInv, ScanInv, TurnInv, Balancing
  <2>6. \A i \in 1 .. Len(hosts), c \in Configs : Keeps(i, c) <=> c \in store[hosts[i]]
    BY <1>1 DEF Keeps
  <2>7. turn = Len(hosts)
    BY <1>1, <1>4
  <2>8. \A h \in Hosts : \A c \in store[h] :
          \E i \in 1 .. Len(hosts) : h = hosts[i] /\ Keeps(i, c) /\ c \in Configs
    <3> SUFFICES ASSUME NEW h \in Hosts, NEW c \in store[h]
                 PROVE  \E i \in 1 .. Len(hosts) : h = hosts[i] /\ Keeps(i, c) /\ c \in Configs
      OBVIOUS
    <3>1. c \in Configs /\ h \in ToSet(hosts)
      BY <1>1 DEF TypeOK, ScanInv
    <3> QED BY <3>1, <2>6, HostsFacts
  <2>9. \A h \in Hosts : \A c \in store[h] : c \in listed /\ c \notin free
    BY <1>1, <2>7, <2>8 DEF ScanInv
  <2>10. \A g, h \in Hosts, c \in Configs : g # h => ~(c \in store[g] /\ c \in store[h])
    <3> SUFFICES ASSUME NEW g \in Hosts, NEW h \in Hosts, NEW c \in Configs, g # h,
                        c \in store[g], c \in store[h]
                 PROVE  FALSE
      OBVIOUS
    <3>1. PICK i \in 1 .. Len(hosts) : g = hosts[i] /\ Keeps(i, c)
      BY <2>8
    <3>2. PICK j \in 1 .. Len(hosts) : h = hosts[j] /\ Keeps(j, c)
      BY <2>8
    <3> QED BY <3>1, <3>2, <1>1, <2>7 DEF ScanInv
  <2>11. \A c \in listed \ free : \E h \in Hosts : c \in store[h]
    <3> SUFFICES ASSUME NEW c \in listed \ free PROVE \E h \in Hosts : c \in store[h]
      OBVIOUS
    <3>1. PICK i \in 1 .. turn : Keeps(i, c)
      BY <1>1 DEF ScanInv
    <3> QED BY <3>1, <1>1, <1>2, <2>7 DEF Keeps
  <2>12. ToSet(hosts') = ToSet(hosts)
    BY <2>1 DEF Sorted
  <2>13. Partition'
    BY <1>1, <2>9, <2>10, <2>11, <2>12 DEF Partition, ScanInv
  <2> QED BY <2>4, <2>5, <2>13
<1> QED
  BY <1>3, <1>4

\* The configs to release are configs of the overloaded host.
LEMMA PlanStep == ASSUME IInv, Plan PROVE IInv'
<1> USE DEF IInv
<1>1. /\ phase = "plan" /\ phase' = "release"
      /\ UNCHANGED <<store, envVars, hosts, listed, quantity, free, turn>>
  BY DEF Plan
<1>2. /\ Len(hosts) \in Nat /\ Len(hosts) > 0
      /\ turn \in 1 .. Len(hosts) /\ over \in 1 .. Len(hosts)
      /\ hosts[turn] \in Hosts /\ hosts[over] \in Hosts /\ overHost \in Hosts
  BY <1>1, HostsFacts DEF HostsOK, TurnInv, Balancing, TypeOK
<1>3. over' \in 1 .. Len(hosts) /\ overHost' \in Hosts
  BY <1>2 DEF Plan, LookAtNext
<1>4. Cardinality(listed) \in Nat /\ Cardinality(free) \in Nat
  BY SchedulerAssumption, FS_Subset, FS_CardinalityType DEF TypeOK
<1>5. average \in Int /\ Lack \in Int
  <2>1. \A n \in Nat : n \div Len(hosts) \in Int
    BY <1>2
  <2>2. average \in Int
    BY <1>4, <2>1 DEF average
  <2>3. quantity[hosts[turn]] \in Int
    BY <1>2 DEF TypeOK
  <2> QED BY <1>4, <2>1, <2>2, <2>3 DEF Lack
<1>6. wantage' \in Int
  BY <1>5 DEF Plan, Wantage
<1>7. \A p \in todo' : p[1] = overHost' /\ p[2] \in store[overHost']
  BY DEF Plan, Pairs
<1>8. todo' \subseteq Hosts \X Configs
  BY <1>3 DEF Plan, Pairs, TypeOK
<1>9. TypeOK'
  BY <1>1, <1>3, <1>6, <1>8 DEF TypeOK, envVars, Phases
<1>10. TurnInv'
  BY <1>1, <1>2, <1>3, <1>7 DEF TurnInv
<1>11. HostsOK' /\ DeadInv' /\ ScanInv' /\ Partition'
  BY <1>1 DEF HostsOK, DeadInv, ScanInv, Partition, Balancing
<1> QED
  BY <1>9, <1>10, <1>11

\* A released config becomes free and is on no host.
LEMMA BalancerReleaseStep ==
  ASSUME IInv, NEW p \in todo, NEW ok \in BOOLEAN, BalancerRelease(p, ok)
  PROVE  IInv'
<1> USE DEF IInv
<1>1. releaseConfig(p, ok) /\ phase = "release"
  BY DEF BalancerRelease
<1>2. /\ store' \in [Hosts -> SUBSET Configs]
      /\ p[1] \in Hosts /\ p[2] \in Configs /\ p = <<p[1], p[2]>>
      /\ ok => store' = [store EXCEPT ![p[1]] = @ \ {p[2]}]
  BY <1>1, ReleaseType
<1>3. CASE ~ok
  BY <1>2, <1>3, IdleIInv DEF BalancerRelease, Abort, envVars, TypeOK
<1>4. CASE ok
  <2>1. /\ UNCHANGED <<phase, envVars, hosts, listed, turn, over, overHost, wantage>>
        /\ todo' = todo \ {p} /\ free' = free \union {p[2]}
        /\ quantity' = [quantity EXCEPT ![p[1]] = @ - 1]
        /\ store' = [store EXCEPT ![p[1]] = @ \ {p[2]}]
    BY <1>2, <1>4 DEF BalancerRelease
  <2>2. p[1] = overHost /\ p[2] \in store[p[1]] /\ p[2] \in listed
    BY <1>1, <1>2 DEF TurnInv, Balancing, Partition
  <2>3. \A h \in Hosts : store'[h] = IF h = p[1] THEN store[h] \ {p[2]} ELSE store[h]
    BY <1>2, <2>1 DEF TypeOK
  <2>4. TypeOK'
    BY <1>2, <2>1 DEF TypeOK, envVars
  <2>5. HostsOK' /\ DeadInv' /\ ScanInv'
    BY <1>1, <2>1 DEF HostsOK, DeadInv, ScanInv
  <2>6. TurnInv'
    <3>1. ASSUME NEW q \in todo' PROVE q[1] = overHost /\ q[2] \in store'[overHost]
      <4>1. q \in todo /\ q # p /\ q = <<q[1], q[2]>>
        BY <2>1 DEF TypeOK
      <4>2. q[1] = overHost /\ q[2] \in store[overHost] /\ q[2] # p[2]
        BY <4>1, <1>1, <1>2, <2>2 DEF TurnInv, Balancing
      <4> QED BY <4>2, <2>2, <2>3, <1>2
    <3> QED BY <3>1, <1>1, <2>1 DEF TurnInv, Balancing
  <2>7. Partition'
    <3>1. \A h \in Hosts : \A c \in store'[h] : c \in listed /\ c \notin free'
      BY <1>1, <1>2, <2>1, <2>2, <2>3 DEF Partition, Balancing, TypeOK
    <3>2. \A g, h \in Hosts, c \in Configs : g # h => ~(c \in store'[g] /\ c \in store'[h])
      <4> SUFFICES ASSUME NEW g \in Hosts, NEW h \in Hosts, NEW c \in Configs, g # h,
                          c \in store'[g], c \in store'[h]
                   PROVE  FALSE
        OBVIOUS
      <4>1. c \in store[g] /\ c \in store[h]
        BY <2>3
      <4> QED BY <4>1, <1>1 DEF Partition, Balancing
    <3>3. \A c \in listed \ free' : \E h \in Hosts : c \in store'[h]
      BY <1>1, <2>1, <2>3 DEF Partition, Balancing
    <3>4. \A h \in Hosts \ ToSet(hosts) : store'[h] = {}
      BY <1>1, <2>3 DEF Partition, Balancing
    <3> QED BY <3>1, <3>2, <3>3, <3>4, <1>1, <2>1, <2>2 DEF Partition, Balancing
  <2> QED BY <2>4, <2>5, <2>6, <2>7
<1> QED
  BY <1>3, <1>4

\* The configs to assign are free.
LEMMA PickStep == ASSUME IInv, Pick PROVE IInv'
<1> USE DEF IInv
<1>1. /\ phase = "release" /\ phase' = "assign"
      /\ UNCHANGED <<store, envVars, hosts, listed, quantity, free, turn, over, overHost,
                     wantage>>
  BY DEF Pick
<1>2. hosts[turn] \in Hosts
  BY <1>1, HostsFacts DEF TurnInv, Balancing, TypeOK
<1>3. \A p \in todo' : p[1] = hosts[turn] /\ p[2] \in free
  BY DEF Pick, Pairs
<1>4. todo' \subseteq Hosts \X Configs
  BY <1>2 DEF Pick, Pairs, TypeOK
<1>5. TypeOK'
  BY <1>1, <1>4 DEF TypeOK, envVars, Phases
<1>6. TurnInv'
  BY <1>1, <1>3 DEF TurnInv, Balancing
<1>7. HostsOK' /\ DeadInv' /\ ScanInv' /\ Partition'
  BY <1>1 DEF HostsOK, DeadInv, ScanInv, Partition, Balancing
<1> QED
  BY <1>5, <1>6, <1>7

\* A config that is assigned was free, so no host has it.
LEMMA BalancerAssignStep ==
  ASSUME IInv, NEW p \in todo, NEW ok \in BOOLEAN, BalancerAssign(p, ok)
  PROVE  IInv'
<1> USE DEF IInv
<1>1. assignConfig(p, ok) /\ phase = "assign"
  BY DEF BalancerAssign
<1>2. /\ store' \in [Hosts -> SUBSET Configs]
      /\ p[1] \in Hosts /\ p[2] \in Configs /\ p = <<p[1], p[2]>>
      /\ ok => store' = [store EXCEPT ![p[1]] = @ \union {p[2]}]
  BY <1>1, AssignType
<1>3. CASE ~ok
  BY <1>2, <1>3, IdleIInv DEF BalancerAssign, Abort, envVars, TypeOK
<1>4. CASE ok
  <2>1. /\ UNCHANGED <<phase, envVars, hosts, listed, quantity, turn, over, overHost, wantage>>
        /\ todo' = todo \ {p} /\ free' = free \ {p[2]}
        /\ store' = [store EXCEPT ![p[1]] = @ \union {p[2]}]
    BY <1>2, <1>4 DEF BalancerAssign
  <2>2. p[1] = hosts[turn] /\ p[2] \in free /\ p[2] \in listed
    BY <1>1 DEF TurnInv, Balancing, Partition
  <2>3. p[1] \in ToSet(hosts)
    BY <1>1, <2>2, HostsFacts DEF TurnInv, Balancing, TypeOK
  <2>4. \A h \in Hosts : store'[h] = IF h = p[1] THEN store[h] \union {p[2]} ELSE store[h]
    BY <1>2, <2>1 DEF TypeOK
  <2>5. \A h \in Hosts : p[2] \notin store[h]
    BY <1>1, <2>2 DEF Partition, Balancing
  <2>6. TypeOK'
    BY <1>2, <2>1 DEF TypeOK, envVars
  <2>7. HostsOK' /\ DeadInv' /\ ScanInv'
    BY <1>1, <2>1 DEF HostsOK, DeadInv, ScanInv
  <2>8. TurnInv'
    <3>1. ASSUME NEW q \in todo' PROVE q[1] = hosts[turn] /\ q[2] \in free'
      <4>1. q \in todo /\ q # p /\ q = <<q[1], q[2]>>
        BY <2>1 DEF TypeOK
      <4>2. q[1] = hosts[turn] /\ q[2] \in free /\ q[2] # p[2]
        BY <4>1, <1>1, <1>2, <2>2 DEF TurnInv, Balancing
      <4> QED BY <4>2, <2>1
    <3> QED BY <3>1, <1>1, <2>1 DEF TurnInv, Balancing
  <2>9. Partition'
    <3>1. \A h \in Hosts : \A c \in store'[h] : c \in listed /\ c \notin free'
      BY <1>1, <2>1, <2>2, <2>4 DEF Partition, Balancing
    <3>2. \A g, h \in Hosts, c \in Configs : g # h => ~(c \in store'[g] /\ c \in store'[h])
      <4> SUFFICES ASSUME NEW g \in Hosts, NEW h \in Hosts, NEW c \in Configs, g # h,
                          c \in store'[g], c \in store'[h]
                   PROVE  FALSE
        OBVIOUS
      <4>1. CASE c = p[2]
        <5>1. g = p[1] /\ h = p[1]
          BY <4>1, <2>4, <2>5
        <5> QED BY <5>1
      <4>2. CASE c # p[2]
        <5>1. c \in store[g] /\ c \in store[h]
          BY <4>2, <2>4
        <5> QED BY <5>1, <1>1 DEF Partition, Balancing
      <4> QED BY <4>1, <4>2
    <3>3. \A c \in listed \ free' : \E h \in Hosts : c \in store'[h]
      BY <1>1, <1>2, <2>1, <2>4 DEF Partition, Balancing
    <3>4. \A h \in Hosts \ ToSet(hosts) : store'[h] = {}
      BY <1>1, <2>3, <2>4 DEF Partition, Balancing
    <3> QED BY <3>1, <3>2, <3>3, <3>4, <1>1, <2>1 DEF Partition, Balancing
  <2> QED BY <2>6, <2>7, <2>8, <2>9
<1> QED
  BY <1>3, <1>4

\* The loop over the hosts stays within the sequence of hosts.
LEMMA NextTurnStep == ASSUME IInv, NextTurn PROVE IInv'
<1> USE DEF IInv
<1>1. /\ phase = "assign" /\ phase' \in {"plan", "done"}
      /\ UNCHANGED <<store, envVars, hosts, listed, quantity, free, over, overHost, wantage, todo>>
      /\ Len(hosts) \in Nat /\ turn \in 1 .. Len(hosts)
  BY HostsFacts DEF NextTurn, TurnInv, Balancing, TypeOK
<1>2. turn' \in 1 .. Len(hosts)
  BY <1>1 DEF NextTurn
<1>3. TypeOK'
  BY <1>1, <1>2 DEF TypeOK, envVars, Phases
<1>4. HostsOK' /\ DeadInv' /\ ScanInv' /\ Partition'
  BY <1>1 DEF HostsOK, DeadInv, ScanInv, Partition, Balancing
<1>5. TurnInv'
  BY <1>1, <1>2 DEF TurnInv, Balancing
<1> QED
  BY <1>3, <1>4, <1>5

\* Every step of the scheduler and its environment, one case per action.
LEMMA InductiveStep == ASSUME IInv, [Next]_vars PROVE IInv'
<1>1. CASE UNCHANGED vars
  BY <1>1 DEF vars, IInv, TypeOK, HostsOK, DeadInv, ScanInv, Keeps, Partition, TurnInv
<1>2. CASE Environment
  BY <1>2 DEF Environment, roundVars, IInv, TypeOK, HostsOK, DeadInv, ScanInv, Partition,
              TurnInv, Balancing
<1>3. CASE Finish
  BY <1>3, IdleIInv DEF Finish, envVars, IInv, TypeOK
<1>4. ASSUME NEW ok \in BOOLEAN, Round(ok) PROVE IInv'
  BY <1>3, <1>4, StartStep, NextDeadHostStep, ScanNextStep, PlanStep, PickStep, NextTurnStep,
     ReleaseDeadStep, ScanKeepStep, ScanReleaseStep, BalancerReleaseStep, BalancerAssignStep
  DEF Round
<1> QED
  BY <1>1, <1>2, <1>4 DEF Next

(***************************************************************************)
(* The inductive invariant of the scheduler.                                *)
(***************************************************************************)
THEOREM Inductive == Spec => []IInv
BY InitIInv, InductiveStep, PTL DEF Spec

(***************************************************************************)
(* From the end of the scan on, and after each command of runBalancer, the  *)
(* free set and the alive hosts partition the listed configs                *)
(* (scheduler.go:76-108, 151-183); and the types are kept.                  *)
(***************************************************************************)
THEOREM PartitionKept == Spec => [](TypeOK /\ BalancerPartition)
<1>1. ASSUME IInv PROVE TypeOK /\ BalancerPartition
  <2> SUFFICES ASSUME phase \in Balancing PROVE BalancerPartition
    BY <1>1 DEF IInv, BalancerPartition
  <2>1. Partition
    BY <1>1 DEF IInv
  <2>2. \A g, h \in Hosts : g # h => store[g] \intersect store[h] = {}
    BY <1>1, <2>1 DEF Partition, IInv, TypeOK
  <2>3. UNION {store[h] : h \in Hosts} = listed \ free
    BY <2>1 DEF Partition
  <2> QED BY <2>1, <2>2, <2>3 DEF Partition, BalancerPartition
<1> QED
  BY Inductive, <1>1, PTL

(***************************************************************************)
(* No command, failed or not, gives a config to a host while another host   *)
(* has it (scheduler.go:151-160, 178-183).                                  *)
(***************************************************************************)
THEOREM NoConfigAssignedTwice == Spec => NoDoubleAssign
<1> DEFINE Safe == \A c \in Configs : Holders(c)' \subseteq Holders(c) \/ Holders(c) = {}
<1>1. ASSUME IInv, [Next]_vars PROVE [Safe]_vars
  <2>1. ASSUME \A h \in Hosts : store'[h] \subseteq store[h] PROVE Safe
    BY <2>1 DEF Holders
  <2>2. ASSUME store' = store PROVE Safe
    BY <2>1, <2>2
  <2>3. ASSUME NEW p \in todo, NEW ok \in BOOLEAN, releaseConfig(p, ok) PROVE Safe
    BY <1>1, <2>1, <2>3, ReleaseType DEF IInv
  <2>4. ASSUME NEW p \in todo, NEW ok \in BOOLEAN, BalancerAssign(p, ok) PROVE Safe
    <3>1. \A h \in Hosts : store'[h] \subseteq store[h] \union {p[2]}
      BY <1>1, <2>4, AssignType DEF IInv, BalancerAssign
    <3>2. \A h \in Hosts : p[2] \notin store[h]
      BY <1>1, <2>4 DEF IInv, BalancerAssign, TurnInv, Partition, Balancing
    <3> QED BY <3>1, <3>2 DEF Holders
  <2>5. CASE Environment
    BY <2>2, <2>5 DEF Environment
  <2>6. ASSUME NEW ok \in BOOLEAN, Round(ok) PROVE Safe
    <3>1. CASE Start \/ NextDeadHost \/ ScanNext \/ Plan \/ Pick \/ NextTurn \/ Finish
      BY <3>1, <2>2 DEF Start, NextDeadHost, ScanNext, Plan, Pick, NextTurn, Finish
    <3>2. ASSUME NEW p \in todo, ScanKeep(p) PROVE Safe
      BY <3>2, <2>2 DEF ScanKeep
    <3>3. ASSUME NEW p \in todo, ReleaseDead(p, ok) \/ ScanRelease(p, ok) \/ BalancerRelease(p, ok)
          PROVE  Safe
      BY <3>3, <2>3 DEF ReleaseDead, ScanRelease, BalancerRelease
    <3> QED BY <2>6, <2>4, <3>1, <3>2, <3>3 DEF Round
  <2> QED BY <1>1, <2>5, <2>6 DEF Next
<1>2. Spec => [][Safe]_vars
  BY Inductive, <1>1, PTL DEF Spec
<1> QED
  BY <1>2 DEF NoDoubleAssign

-----------------------------------------------------------------------------
(* Refinement: what Assignment says of a withdrawal needs the counts.        *)

\* The configs of h that the innermost loop has yet to visit.
Left(h) == {c \in Configs : <<h, c>> \in todo}

\* quantity never exceeds what a host has: the scan counts only what it has
\* visited, and the balancer leaves out what it assigns.  A host gives up no
\* more than it has above the average.
QuantityInv ==
  /\ phase = "dead" => \A h \in Hosts : quantity[h] = 0
  /\ phase = "scan" =>
       /\ \A h \in Hosts : quantity[h] =< Cardinality(store[h] \ Left(h))
       /\ \A i \in 1 .. Len(hosts) : i > turn => quantity[hosts[i]] = 0
  /\ phase \in Balancing => \A h \in Hosts : quantity[h] =< Cardinality(store[h])
  /\ phase = "release" /\ Left(overHost) # {} =>
       Cardinality(Left(overHost)) =< quantity[overHost] - average

\* Between rounds there are no hosts; only configs of dead hosts are released
\* before the scan.
RoundInv ==
  /\ phase = "idle" => hosts = <<>>
  /\ phase = "dead" => \A p \in todo : p[1] \notin ToSet(hosts)

RInv == IInv /\ QuantityInv /\ RoundInv

\* Sets of configs are finite.
LEMMA ConfigSets ==
  ASSUME NEW T \in SUBSET Configs
  PROVE  /\ IsFiniteSet(T) /\ Cardinality(T) \in Nat
         /\ \A c : Cardinality(T \ {c}) = IF c \in T THEN Cardinality(T) - 1 ELSE Cardinality(T)
         /\ \A c : Cardinality(T \union {c}) = IF c \in T THEN Cardinality(T) ELSE Cardinality(T) + 1
         /\ T # {} => Cardinality(T) > 0
<1>1. IsFiniteSet(T) /\ Cardinality(T) \in Nat
  BY SchedulerAssumption, FS_Subset, FS_CardinalityType
<1> QED
  BY <1>1, FS_RemoveElement, FS_AddElement, FS_EmptySet

LEMMA ScanKeepQuantity ==
  ASSUME IInv, QuantityInv, NEW p \in todo, ScanKeep(p) PROVE QuantityInv'
<1>1. /\ phase = "scan" /\ UNCHANGED <<store, phase, hosts, turn>>
      /\ quantity' = [quantity EXCEPT ![p[1]] = @ + 1] /\ todo' = todo \ {p}
  BY DEF ScanKeep
<1>2. /\ p[1] = hosts[turn] /\ p[2] \in store[p[1]]
      /\ p[1] \in Hosts /\ p[2] \in Configs /\ p = <<p[1], p[2]>>
  BY <1>1 DEF IInv, ScanInv, TypeOK
<1>3. turn \in 1 .. Len(hosts) /\ Len(hosts) \in Nat
  BY <1>1, HostsFacts DEF IInv, ScanInv, TypeOK
<1>4. \A h \in Hosts : Left(h)' = IF h = p[1] THEN Left(h) \ {p[2]} ELSE Left(h)
  BY <1>1, <1>2 DEF Left
<1>5. store \in [Hosts -> SUBSET Configs] /\ quantity \in [Hosts -> Int]
  BY DEF IInv, TypeOK
<1>6. p[2] \in Left(p[1])
  BY <1>2 DEF Left
<1>7. Cardinality(store[p[1]] \ Left(p[1])') = Cardinality(store[p[1]] \ Left(p[1])) + 1
  <2>1. store[p[1]] \ Left(p[1])' = (store[p[1]] \ Left(p[1])) \union {p[2]}
    BY <1>2, <1>4, <1>6
  <2>2. p[2] \notin store[p[1]] \ Left(p[1]) /\ store[p[1]] \ Left(p[1]) \in SUBSET Configs
    BY <1>2, <1>5, <1>6
  <2> QED
    BY <2>1, <2>2, ConfigSets
<1>8. quantity[p[1]] \in Int /\ quantity[p[1]] =< Cardinality(store[p[1]] \ Left(p[1]))
  BY <1>1, <1>2, <1>5 DEF QuantityInv
<1>9. Cardinality(store[p[1]] \ Left(p[1])) \in Nat
  BY <1>2, <1>5, ConfigSets
<1>10. \A h \in Hosts : quantity'[h] =< Cardinality(store'[h] \ Left(h)')
  <2>1. \A h \in Hosts : h # p[1] => quantity'[h] = quantity[h] /\ Left(h)' = Left(h)
    BY <1>1, <1>4, <1>5
  <2>2. quantity'[p[1]] = quantity[p[1]] + 1
    BY <1>1, <1>2, <1>5
  <2>3. quantity'[p[1]] =< Cardinality(store[p[1]] \ Left(p[1])')
    BY <1>7, <1>8, <1>9, <2>2
  <2> QED
    BY <1>1, <2>1, <2>3 DEF QuantityInv
<1>11. \A i \in 1 .. Len(hosts) : i > turn => quantity'[hosts[i]] = 0
  <2>1. \A i \in 1 .. Len(hosts) : i > turn => hosts[i] \in Hosts /\ hosts[i] # p[1]
    BY <1>1, <1>2, <1>3, HostsFacts DEF IInv, HostsOK
  <2> QED
    BY <1>1, <1>5, <2>1 DEF QuantityInv
<1> QED
  BY <1>1, <1>10, <1>11 DEF QuantityInv, Balancing

LEMMA ScanReleaseQuantity ==
  ASSUME IInv, QuantityInv, NEW p \in todo, ScanRelease(p, TRUE) PROVE QuantityInv'
<1>1. /\ phase = "scan" /\ UNCHANGED <<phase, hosts, turn, quantity>> /\ todo' = todo \ {p}
      /\ releaseConfig(p, TRUE)
  BY DEF ScanRelease
<1>2. /\ p[1] \in Hosts /\ p[2] \in Configs /\ p = <<p[1], p[2]>>
      /\ store' = [store EXCEPT ![p[1]] = @ \ {p[2]}]
  BY <1>1, ReleaseType DEF IInv
<1>3. \A h \in Hosts : Left(h)' = IF h = p[1] THEN Left(h) \ {p[2]} ELSE Left(h)
  BY <1>1, <1>2 DEF Left
<1>4. store \in [Hosts -> SUBSET Configs]
  BY DEF IInv, TypeOK
<1>5. p[2] \in Left(p[1])
  BY <1>2 DEF Left
<1>6. \A h \in Hosts : store'[h] \ Left(h)' = store[h] \ Left(h)
  BY <1>2, <1>3, <1>4, <1>5
<1> QED
  BY <1>1, <1>6 DEF QuantityInv, Balancing

LEMMA ScanNextQuantity == ASSUME IInv, QuantityInv, ScanNext PROVE QuantityInv'
<1>1. /\ phase = "scan" /\ todo = {} /\ UNCHANGED <<store, quantity>>
      /\ turn \in 1 .. Len(hosts) /\ Len(hosts) \in Nat
      /\ \A h \in Hosts : Left(h) = {} /\ store[h] \ {} = store[h]
  BY HostsFacts DEF ScanNext, IInv, ScanInv, TypeOK, Left
<1>2. \A h \in Hosts : quantity[h] =< Cardinality(store[h])
  BY <1>1 DEF QuantityInv
<1>3. CASE turn < Len(hosts)
  <2>1. /\ turn' = turn + 1 /\ UNCHANGED <<phase, hosts>>
        /\ todo' = Pairs(hosts[turn + 1], store[hosts[turn + 1]])
    BY <1>3 DEF ScanNext
  <2>2. turn + 1 \in 1 .. Len(hosts) /\ quantity[hosts[turn + 1]] = 0
    BY <1>1, <1>3 DEF QuantityInv
  <2>3. \A h \in Hosts : h # hosts[turn + 1] => Left(h)' = {}
    BY <2>1 DEF Left, Pairs
  <2>4. \A h \in Hosts : Cardinality(store[h] \ Left(h)') \in Nat
    BY ConfigSets DEF IInv, TypeOK
  <2>5. \A h \in Hosts : quantity[h] =< Cardinality(store[h] \ Left(h)')
    <3> SUFFICES ASSUME NEW h \in Hosts PROVE quantity[h] =< Cardinality(store[h] \ Left(h)')
      OBVIOUS
    <3>1. CASE h = hosts[turn + 1]
      <4>1. quantity[h] = 0
        BY <2>2, <3>1
      <4>2. Cardinality(store[h] \ Left(h)') \in Nat
        BY <2>4
      <4> QED
        BY <4>1, <4>2
    <3>2. CASE h # hosts[turn + 1]
      <4>1. store[h] \ Left(h)' = store[h]
        BY <2>3, <3>2
      <4> QED
        BY <1>2, <4>1
    <3> QED
      BY <3>1, <3>2
  <2>6. \A i \in 1 .. Len(hosts) : i > turn' => quantity[hosts[i]] = 0
    BY <1>1, <2>1 DEF QuantityInv
  <2> QED
    BY <1>1, <2>1, <2>5, <2>6 DEF QuantityInv, Balancing
<1>4. CASE ~(turn < Len(hosts))
  BY <1>1, <1>2, <1>4 DEF ScanNext, QuantityInv
<1> QED
  BY <1>3, <1>4

LEMMA PlanQuantity == ASSUME IInv, IInv', QuantityInv, Plan PROVE QuantityInv'
<1>1. phase = "plan" /\ phase' = "release" /\ UNCHANGED <<store, hosts, listed, quantity>>
  BY DEF Plan
<1>2. average' = average
  BY <1>1 DEF average
<1>3. overHost' \in Hosts /\ quantity[overHost'] \in Int /\ average \in Int
  <2>1. Len(hosts) \in Nat /\ Len(hosts) > 0 /\ Cardinality(listed) \in Nat
    BY <1>1, HostsFacts, ConfigSets DEF IInv, TypeOK, HostsOK
  <2>2. Cardinality(listed) \div Len(hosts) \in Int
    BY <2>1
  <2>3. overHost' \in Hosts
    BY <1>1 DEF IInv, TurnInv, Balancing
  <2> QED
    BY <2>2, <2>3 DEF IInv, TypeOK, average
<1> DEFINE overload == quantity[overHost'] - average
<1>4. PICK cs \in SUBSET store[overHost'] :
        /\ Cardinality(cs) =
             max(0, min(ToRelease(overload, wantage'), Cardinality(store[overHost'])))
        /\ todo' = Pairs(overHost', cs)
  BY DEF Plan
<1>5. Left(overHost)' = cs
  BY <1>4 DEF Left, Pairs, IInv, TypeOK
<1>6. cs # {} => Cardinality(cs) > 0
  <2>1. cs \in SUBSET Configs
    BY <1>3 DEF IInv, TypeOK
  <2> QED
    BY <2>1, ConfigSets
<1>7. Cardinality(store[overHost']) \in Nat /\ wantage' \in Int
  BY <1>3, ConfigSets DEF IInv, TypeOK
<1>8. cs # {} => Cardinality(cs) =< overload
  BY <1>3, <1>4, <1>6, <1>7 DEF max, min, ToRelease
<1> QED
  BY <1>1, <1>2, <1>5, <1>8 DEF QuantityInv, Balancing

LEMMA BalancerReleaseQuantity ==
  ASSUME IInv, QuantityInv, NEW p \in todo, BalancerRelease(p, TRUE) PROVE QuantityInv'
<1>1. /\ phase = "release" /\ UNCHANGED <<phase, hosts, listed, overHost>>
      /\ quantity' = [quantity EXCEPT ![p[1]] = @ - 1] /\ todo' = todo \ {p}
      /\ releaseConfig(p, TRUE)
  BY DEF BalancerRelease
<1>2. /\ p[1] = overHost /\ p[2] \in store[p[1]]
      /\ p[1] \in Hosts /\ p[2] \in Configs /\ p = <<p[1], p[2]>>
      /\ store' = [store EXCEPT ![p[1]] = @ \ {p[2]}]
  BY <1>1, ReleaseType DEF IInv, TurnInv, Balancing
<1>3. store \in [Hosts -> SUBSET Configs] /\ quantity \in [Hosts -> Int]
  BY DEF IInv, TypeOK
<1>4. /\ \A h \in Hosts : quantity[h] =< Cardinality(store[h])
      /\ \A h \in Hosts : Cardinality(store[h]) \in Nat
  BY <1>1, <1>3, ConfigSets DEF QuantityInv, Balancing
<1>5. Cardinality(store[p[1]] \ {p[2]}) = Cardinality(store[p[1]]) - 1
  BY <1>2, <1>3, ConfigSets
<1>6. quantity'[p[1]] = quantity[p[1]] - 1 /\ store'[p[1]] = store[p[1]] \ {p[2]}
  BY <1>1, <1>2, <1>3
<1>7. \A h \in Hosts : h # p[1] => quantity'[h] = quantity[h] /\ store'[h] = store[h]
  BY <1>1, <1>2, <1>3
<1>8. quantity'[p[1]] =< Cardinality(store'[p[1]])
  BY <1>2, <1>3, <1>4, <1>5, <1>6
<1>9. average' = average
  BY <1>1 DEF average
<1>10. /\ Left(overHost)' = Left(overHost) \ {p[2]} /\ p[2] \in Left(overHost)
       /\ Left(overHost) \in SUBSET Configs
  BY <1>1, <1>2 DEF Left
<1>11. Cardinality(Left(overHost) \ {p[2]}) = Cardinality(Left(overHost)) - 1
  BY <1>10, ConfigSets
<1>12. Cardinality(Left(overHost)) =< quantity[overHost] - average
  BY <1>1, <1>10 DEF QuantityInv
<1>13. Cardinality(Left(overHost)) \in Nat /\ average \in Int /\ quantity[overHost] \in Int
  <2>1. Len(hosts) \in Nat /\ Len(hosts) > 0 /\ Cardinality(listed) \in Nat
    BY <1>1, HostsFacts, ConfigSets DEF IInv, TypeOK, HostsOK
  <2>2. Cardinality(listed) \div Len(hosts) \in Int
    BY <2>1
  <2> QED
    BY <1>2, <1>3, <1>10, <2>2, ConfigSets DEF average
<1>14. Cardinality(Left(overHost)') =< quantity'[overHost'] - average'
  BY <1>1, <1>2, <1>6, <1>9, <1>10, <1>11, <1>12, <1>13
<1> QED
  BY <1>1, <1>4, <1>7, <1>8, <1>14 DEF QuantityInv

LEMMA BalancerAssignQuantity ==
  ASSUME IInv, QuantityInv, NEW p \in todo, BalancerAssign(p, TRUE) PROVE QuantityInv'
<1>1. phase = "assign" /\ UNCHANGED <<phase, quantity>> /\ assignConfig(p, TRUE)
  BY DEF BalancerAssign
<1>2. /\ p[1] \in Hosts /\ p[2] \in Configs
      /\ store' = [store EXCEPT ![p[1]] = @ \union {p[2]}]
  BY <1>1, AssignType DEF IInv
<1>3. store \in [Hosts -> SUBSET Configs] /\ quantity \in [Hosts -> Int]
  BY DEF IInv, TypeOK
<1>4. \A h \in Hosts : Cardinality(store[h]) \in Nat
  BY <1>3, ConfigSets
<1>5. Cardinality(store[p[1]]) =< Cardinality(store[p[1]] \union {p[2]})
  <2>1. store[p[1]] \in SUBSET Configs
    BY <1>2, <1>3
  <2>2. Cardinality(store[p[1]] \union {p[2]}) =
          IF p[2] \in store[p[1]] THEN Cardinality(store[p[1]]) ELSE Cardinality(store[p[1]]) + 1
    BY <2>1, ConfigSets
  <2> QED
    BY <1>2, <1>4, <2>2
<1>6. \A h \in Hosts : store'[h] = IF h = p[1] THEN store[h] \union {p[2]} ELSE store[h]
  BY <1>2, <1>3
<1>7. \A h \in Hosts : quantity[h] \in Int /\ quantity[h] =< Cardinality(store[h])
  BY <1>1, <1>3 DEF QuantityInv, Balancing
<1>8. Cardinality(store[p[1]] \union {p[2]}) \in Nat
  BY <1>2, <1>3, ConfigSets
<1>9. \A h \in Hosts : quantity[h] =< Cardinality(store'[h])
  BY <1>2, <1>4, <1>5, <1>6, <1>7, <1>8
<1> QED
  BY <1>1, <1>9 DEF QuantityInv, Balancing

\* The loops that count nothing.
LEMMA OtherQuantity ==
  ASSUME IInv, QuantityInv,
         \/ Start \/ NextDeadHost \/ Pick \/ NextTurn
         \/ \E p \in todo : ReleaseDead(p, TRUE)
  PROVE  QuantityInv'
<1>1. \A h \in Hosts : Cardinality(store[h] \ Left(h)') \in Nat
  BY ConfigSets DEF IInv, TypeOK
<1>2. \A i \in 1 .. Len(hosts) : hosts[i] \in Hosts
  BY HostsFacts DEF IInv
<1>3. CASE Start
  BY <1>3 DEF Start, QuantityInv, Balancing
<1>4. CASE NextDeadHost
  <2>1. /\ phase = "dead" /\ phase' \in {"dead", "scan"}
        /\ UNCHANGED <<store, hosts, quantity>>
    BY <1>4 DEF NextDeadHost
  <2>2. \A h \in Hosts : quantity'[h] = 0
    BY <2>1 DEF QuantityInv
  <2>3. \A h \in Hosts : quantity'[h] =< Cardinality(store'[h] \ Left(h)')
    BY <1>1, <2>1, <2>2
  <2> QED
    BY <1>2, <2>1, <2>2, <2>3 DEF QuantityInv, Balancing
<1>5. CASE Pick \/ NextTurn
  BY <1>5 DEF Pick, NextTurn, QuantityInv, Balancing
<1>6. CASE \E p \in todo : ReleaseDead(p, TRUE)
  BY <1>6 DEF ReleaseDead, QuantityInv, Balancing
<1> QED
  BY <1>3, <1>4, <1>5, <1>6

\* A round that is over.
LEMMA AbortRound ==
  ASSUME phase' = "idle", RoundReset PROVE QuantityInv' /\ RoundInv'
BY DEF RoundReset, QuantityInv, RoundInv, Balancing

LEMMA RoundStep == ASSUME IInv, RoundInv, [Next]_vars PROVE RoundInv'
<1>1. CASE NextDeadHost
  BY <1>1 DEF NextDeadHost, RoundInv, DeadHosts, Pairs
<1>2. CASE UNCHANGED vars \/ Environment
  BY <1>2 DEF vars, Environment, roundVars, RoundInv
<1>3. CASE Start \/ ScanNext \/ Plan \/ Pick \/ NextTurn
  BY <1>3 DEF Start, ScanNext, Plan, Pick, NextTurn, RoundInv
<1>4. CASE Finish
  BY <1>4, AbortRound DEF Finish
<1>5. ASSUME NEW ok \in BOOLEAN, NEW p \in todo,
             \/ ReleaseDead(p, ok) \/ ScanKeep(p) \/ ScanRelease(p, ok)
             \/ BalancerRelease(p, ok) \/ BalancerAssign(p, ok)
      PROVE  RoundInv'
  BY <1>5, AbortRound
  DEF ReleaseDead, ScanKeep, ScanRelease, BalancerRelease, BalancerAssign, Abort, RoundInv
<1> QED
  BY <1>1, <1>2, <1>3, <1>4, <1>5 DEF Next, Round

LEMMA QuantityStep == ASSUME IInv, IInv', QuantityInv, [Next]_vars PROVE QuantityInv'
<1>1. CASE UNCHANGED vars \/ Environment
  BY <1>1 DEF vars, Environment, roundVars, QuantityInv, Left, average
<1>2. CASE Finish
  BY <1>2, AbortRound DEF Finish
<1>3. ASSUME NEW ok \in BOOLEAN, NEW p \in todo,
             \/ ReleaseDead(p, ok) \/ ScanKeep(p) \/ ScanRelease(p, ok)
             \/ BalancerRelease(p, ok) \/ BalancerAssign(p, ok)
      PROVE  QuantityInv'
  <2>1. CASE ok = TRUE
    BY <1>3, <2>1, OtherQuantity, ScanKeepQuantity, ScanReleaseQuantity,
       BalancerReleaseQuantity, BalancerAssignQuantity
  <2>2. CASE ScanKeep(p)
    BY <2>2, ScanKeepQuantity
  <2>3. CASE ok = FALSE /\ ~ScanKeep(p)
    <3>1. Abort
      BY <1>3, <2>3 DEF ReleaseDead, ScanRelease, BalancerRelease, BalancerAssign
    <3> QED
      BY <3>1, AbortRound DEF Abort
  <2> QED
    BY <1>3, <2>1, <2>2, <2>3
<1> QED
  BY <1>1, <1>2, <1>3, OtherQuantity, ScanNextQuantity, PlanQuantity DEF Next, Round

LEMMA RInit == Init => RInv
BY InitIInv DEF RInv, Init, QuantityInv, RoundInv, Balancing

LEMMA RStep == ASSUME RInv, [Next]_vars PROVE RInv'
BY InductiveStep, QuantityStep, RoundStep DEF RInv

-----------------------------------------------------------------------------

\* The refinement mapping of Scheduler.
HoldersOf == [c \in Configs |-> Holders(c)]

\* The instance counts as this module does.
LEMMA Counts == \A T : A!Cardinality(T) = Cardinality(T)
BY DEF A!Cardinality, Cardinality

\* A round has as many members as its sequence of hosts is long.
LEMMA Members ==
  ASSUME IInv, phase # "idle"
  PROVE  /\ ToSet(hosts) # {} /\ ToSet(hosts) \subseteq Hosts
         /\ Cardinality(ToSet(hosts)) = Len(hosts)
<1>1. /\ TypeOK /\ Len(hosts) \in Nat /\ Len(hosts) > 0
      /\ \A i, j \in 1 .. Len(hosts) : i # j => hosts[i] # hosts[j]
  BY HostsFacts DEF IInv, HostsOK
<1>2. hosts \in [1 .. Len(hosts) -> ToSet(hosts)]
  BY <1>1, HostsFacts, LenProperties DEF TypeOK
<1>3. hosts \in Bijection(1 .. Len(hosts), ToSet(hosts))
  BY <1>1, <1>2, HostsFacts DEF Bijection, Injection, Surjection, IsInjective
<1>4. ExistsBijection(1 .. Len(hosts), ToSet(hosts))
  BY <1>3 DEF ExistsBijection
<1> QED
  BY <1>1, <1>4, HostsFacts, FS_CountingElements

\* What a command does to the holders.
LEMMA TakenAway ==
  ASSUME TypeOK, NEW h \in Hosts, NEW c \in Configs, store' = [store EXCEPT ![h] = @ \ {c}]
  PROVE  HoldersOf' = [HoldersOf EXCEPT ![c] = @ \ {h}]
<1>1. \A g \in Hosts : store'[g] = IF g = h THEN store[g] \ {c} ELSE store[g]
  BY DEF TypeOK
<1>2. \A d \in Configs : Holders(d)' = IF d = c THEN Holders(d) \ {h} ELSE Holders(d)
  BY <1>1 DEF Holders
<1> QED
  BY <1>2 DEF HoldersOf

LEMMA GivenTo ==
  ASSUME TypeOK, NEW h \in Hosts, NEW c \in Configs, store' = [store EXCEPT ![h] = @ \union {c}]
  PROVE  HoldersOf' = [HoldersOf EXCEPT ![c] = @ \union {h}]
<1>1. \A g \in Hosts : store'[g] = IF g = h THEN store[g] \union {c} ELSE store[g]
  BY DEF TypeOK
<1>2. \A d \in Configs : Holders(d)' = IF d = c THEN Holders(d) \union {h} ELSE Holders(d)
  BY <1>1 DEF Holders
<1> QED
  BY <1>2 DEF HoldersOf

LEMMA SameHolders == store' = store => HoldersOf' = HoldersOf
BY DEF HoldersOf, Holders

\* A round that is over has no members.
LEMMA AbortEnds == ASSUME phase' = "idle", RoundReset PROVE A!Ends
<1>1. ToSet(hosts') = {}
  BY DEF RoundReset, ToSet
<1> QED
  BY <1>1 DEF RoundReset, A!Ends, Balancing

\* A command that goes on, or whose error ends the round.
LEMMA CommandStays ==
  ASSUME UNCHANGED <<phase, hosts, listed>> PROVE A!Stays
BY DEF A!Stays

\* A failed command that took no effect closes the round.
LEMMA AbortCloses ==
  ASSUME IInv, phase # "idle", phase' = "idle", RoundReset, store' = store PROVE A!Close
<1>1. A!Ends
  BY AbortEnds
<1>2. HoldersOf' = HoldersOf
  BY SameHolders
<1> QED
  BY <1>1, <1>2, Members DEF A!Close, HoldersOf

\* A command of the round that the mapping sees as nothing.
LEMMA StepStutters ==
  ASSUME store' = store, listed' = listed, ToSet(hosts') = ToSet(hosts),
         phase' \in Balancing <=> phase \in Balancing
  PROVE  UNCHANGED A!vars
<1>1. HoldersOf' = HoldersOf
  BY SameHolders
<1>2. (phase \in Balancing)' = (phase \in Balancing)
  OBVIOUS
<1> QED
  BY <1>1, <1>2 DEF A!vars, HoldersOf

\* The commands before the balancer take away only what must go.
LEMMA DropRefines ==
  ASSUME RInv, NEW p \in todo, NEW ok \in BOOLEAN, ReleaseDead(p, ok) \/ ScanRelease(p, ok)
  PROVE  [A!Next]_(A!vars)
<1>1. /\ releaseConfig(p, ok) /\ phase \in {"dead", "scan"}
      /\ \/ ok /\ UNCHANGED <<phase, hosts, listed>>
         \/ ~ok /\ Abort
  BY DEF ReleaseDead, ScanRelease
<1>2. TypeOK /\ IInv /\ RoundInv
  BY DEF RInv, IInv
<1>3. /\ p[1] \in Hosts /\ p[2] \in Configs /\ p = <<p[1], p[2]>>
      /\ ok => store' = [store EXCEPT ![p[1]] = @ \ {p[2]}]
  BY <1>1, <1>2, ReleaseType
<1>4. A!Stays \/ A!Ends
  BY <1>1, CommandStays, AbortEnds DEF Abort
<1>5. CASE store' = store
  <2>1. CASE ok
    <3>1. UNCHANGED A!vars
      BY <1>1, <1>5, <2>1, StepStutters
    <3> QED
      BY <3>1
  <2>2. CASE ~ok
    <3>1. A!Close
      BY <1>1, <1>2, <1>5, <2>2, AbortCloses DEF Abort
    <3> QED
      BY <3>1 DEF A!Next
  <2> QED
    BY <2>1, <2>2
<1>6. CASE store' # store
  <2>1. store' = [store EXCEPT ![p[1]] = @ \ {p[2]}]
    BY <1>1, <1>6 DEF releaseConfig
  <2>2. HoldersOf' = [HoldersOf EXCEPT ![p[2]] = @ \ {p[1]}]
    BY <1>2, <1>3, <2>1, TakenAway
  <2>3. p[1] \in HoldersOf[p[2]]
    <3>1. p[2] \in store[p[1]]
      BY <1>2, <1>3, <1>6, <2>1 DEF TypeOK
    <3> QED
      BY <1>3, <3>1 DEF HoldersOf, Holders
  <2>4. \/ p[1] \notin ToSet(hosts) \/ p[2] \notin listed
        \/ HoldersOf[p[2]] \intersect ToSet(hosts) # {p[1]}
    <3>1. CASE ReleaseDead(p, ok)
      BY <1>2, <3>1 DEF ReleaseDead, RoundInv
    <3>2. CASE ScanRelease(p, ok) /\ p[2] \in listed
      <4>1. phase = "scan" /\ p[2] \in listed \ free
        BY <3>2 DEF ScanRelease
      <4>2. /\ p[1] = hosts[turn] /\ turn \in 1 .. Len(hosts) /\ Len(hosts) \in Nat
            /\ \E i \in 1 .. turn : Keeps(i, p[2])
        BY <1>2, <4>1, HostsFacts DEF IInv, ScanInv, TypeOK
      <4>3. PICK i \in 1 .. turn : Keeps(i, p[2])
        BY <4>2
      <4>4. i # turn
        BY <1>3, <4>2, <4>3 DEF Keeps
      <4>5. i \in 1 .. Len(hosts) /\ hosts[i] # p[1]
        BY <1>2, <4>1, <4>2, <4>4 DEF IInv, HostsOK
      <4>6. hosts[i] \in Hosts /\ hosts[i] \in ToSet(hosts) /\ p[2] \in store[hosts[i]]
        BY <1>2, <4>3, <4>5, HostsFacts DEF Keeps
      <4>7. hosts[i] \in HoldersOf[p[2]]
        BY <1>3, <4>6 DEF HoldersOf, Holders
      <4> QED
        BY <4>5, <4>6, <4>7
    <3> QED
      BY <3>1, <3>2
  <2>5. ToSet(hosts) # {} /\ phase \notin Balancing
    BY <1>1, <1>2, Members DEF Balancing
  <2>6. A!Drop(p[2], p[1])
    BY <1>4, <2>2, <2>3, <2>4, <2>5 DEF A!Drop, HoldersOf
  <2> QED
    BY <1>3, <2>6 DEF A!Next
<1> QED
  BY <1>5, <1>6

\* What the scan leaves is settled.
LEMMA SettleRefines == ASSUME RInv, ScanNext PROVE [A!Next]_(A!vars)
<1>1. IInv /\ IInv' /\ TypeOK /\ phase = "scan" /\ UNCHANGED <<store, listed>>
  BY ScanNextStep DEF RInv, IInv, ScanNext
<1>2. CASE turn < Len(hosts)
  <2>1. UNCHANGED A!vars
    BY <1>1, <1>2, StepStutters DEF ScanNext
  <2> QED
    BY <2>1
<1>3. CASE ~(turn < Len(hosts))
  <2>1. phase' = "plan" /\ ToSet(hosts') = ToSet(hosts)
    BY <1>3 DEF ScanNext, Sorted
  <2>2. /\ \A h \in Hosts \ ToSet(hosts) : store[h] = {}
        /\ \A h \in Hosts : \A c \in store[h] : c \in listed
        /\ \A g, h \in Hosts, c \in Configs : g # h => ~(c \in store[g] /\ c \in store[h])
    BY <1>1, <2>1 DEF IInv, Partition, Balancing
  <2>3. \A c \in Configs : HoldersOf[c] \subseteq IF c \in listed THEN ToSet(hosts) ELSE {}
    BY <2>2 DEF HoldersOf, Holders
  <2>4. \A c \in Configs : A!Cardinality(HoldersOf[c]) =< 1
    <3> SUFFICES ASSUME NEW c \in Configs PROVE Cardinality(HoldersOf[c]) =< 1
      BY Counts
    <3>1. HoldersOf[c] = {} \/ \E h : HoldersOf[c] = {h}
      BY <2>2 DEF HoldersOf, Holders
    <3>2. Cardinality({}) = 0 /\ \A h : Cardinality({h}) = 1
      BY FS_EmptySet, FS_Singleton
    <3>3. CASE HoldersOf[c] = {}
      <4>1. Cardinality(HoldersOf[c]) = 0
        BY <3>2, <3>3
      <4> QED
        BY <4>1
    <3>4. CASE \E h : HoldersOf[c] = {h}
      <4>1. Cardinality(HoldersOf[c]) = 1
        BY <3>2, <3>4
      <4> QED
        BY <4>1
    <3> QED
      BY <3>1, <3>3, <3>4
  <2>5. ToSet(hosts) # {} /\ phase \notin Balancing /\ phase' \in Balancing
    BY <1>1, <2>1, Members DEF Balancing
  <2>6. HoldersOf' = HoldersOf
    BY <1>1, SameHolders
  <2>7. A!Settle
    BY <1>1, <2>1, <2>3, <2>4, <2>5, <2>6 DEF A!Settle, HoldersOf
  <2> QED
    BY <2>7 DEF A!Next
<1> QED
  BY <1>2, <1>3

\* The balancer takes only from a host above the average.
LEMMA WithdrawRefines ==
  ASSUME RInv, NEW p \in todo, NEW ok \in BOOLEAN, BalancerRelease(p, ok)
  PROVE  [A!Next]_(A!vars)
<1>1. /\ releaseConfig(p, ok) /\ phase = "release"
      /\ \/ ok /\ UNCHANGED <<phase, hosts, listed>>
         \/ ~ok /\ Abort
  BY DEF BalancerRelease
<1>2. TypeOK /\ IInv /\ QuantityInv
  BY DEF RInv, IInv
<1>3. /\ p[1] = overHost /\ p[2] \in store[p[1]]
      /\ p[1] \in Hosts /\ p[2] \in Configs /\ p = <<p[1], p[2]>>
  BY <1>1, <1>2, ReleaseType DEF IInv, TurnInv, Balancing
<1>4. A!Stays \/ A!Ends
  BY <1>1, CommandStays, AbortEnds DEF Abort
<1>5. CASE store' = store
  <2>1. ~ok
    BY <1>1, <1>2, <1>3, <1>5 DEF releaseConfig, TypeOK
  <2>2. A!Close
    BY <1>1, <1>2, <1>5, <2>1, AbortCloses DEF Abort
  <2> QED
    BY <2>2 DEF A!Next
<1>6. CASE store' # store
  <2>1. store' = [store EXCEPT ![p[1]] = @ \ {p[2]}]
    BY <1>1, <1>6 DEF releaseConfig
  <2>2. HoldersOf' = [HoldersOf EXCEPT ![p[2]] = @ \ {p[1]}]
    BY <1>2, <1>3, <2>1, TakenAway
  <2>3. HoldersOf[p[2]] = {p[1]}
    BY <1>1, <1>2, <1>3 DEF IInv, Partition, Balancing, HoldersOf, Holders
  <2>4. HoldersOf' = [HoldersOf EXCEPT ![p[2]] = {}]
    BY <2>2, <2>3 DEF HoldersOf
  <2>5. A!Load(p[1]) = Cardinality(store[p[1]])
    <3>1. {c \in Configs : p[1] \in HoldersOf[c]} = store[p[1]]
      BY <1>2, <1>3 DEF HoldersOf, Holders, TypeOK
    <3> QED
      BY <3>1, Counts DEF A!Load, HoldersOf
  <2>6. Cardinality(store[p[1]]) > average
    <3>1. Left(p[1]) # {} /\ Left(p[1]) \in SUBSET Configs
      BY <1>3 DEF Left
    <3>2. Cardinality(Left(p[1])) \in Nat /\ Cardinality(Left(p[1])) > 0
      BY <3>1, ConfigSets
    <3>3. Cardinality(Left(p[1])) =< quantity[p[1]] - average
      BY <1>1, <1>2, <1>3, <3>1 DEF QuantityInv
    <3>4. quantity[p[1]] =< Cardinality(store[p[1]]) /\ quantity[p[1]] \in Int
      BY <1>1, <1>2, <1>3 DEF QuantityInv, Balancing, TypeOK
    <3>5. Cardinality(store[p[1]]) \in Nat
      BY <1>2, <1>3, ConfigSets DEF TypeOK
    <3>6. average \in Int
      <4>1. Len(hosts) \in Nat /\ Len(hosts) > 0 /\ Cardinality(listed) \in Nat
        BY <1>1, <1>2, HostsFacts, ConfigSets DEF IInv, TypeOK, HostsOK
      <4>2. Cardinality(listed) \div Len(hosts) \in Int
        BY <4>1
      <4> QED
        BY <4>2 DEF average
    <3> QED
      BY <3>2, <3>3, <3>4, <3>5, <3>6
  <2>7. average = A!Cardinality(listed) \div A!Cardinality(ToSet(hosts))
    BY <1>1, <1>2, Counts, Members DEF average
  <2>8. A!Withdraw(p[2], p[1])
    BY <1>1, <1>4, <2>3, <2>4, <2>5, <2>6, <2>7 DEF A!Withdraw, Balancing, HoldersOf
  <2> QED
    BY <1>3, <2>8 DEF A!Next
<1> QED
  BY <1>5, <1>6

\* The balancer gives a host only what nobody has.
LEMMA PlaceRefines ==
  ASSUME RInv, NEW p \in todo, NEW ok \in BOOLEAN, BalancerAssign(p, ok)
  PROVE  [A!Next]_(A!vars)
<1>1. /\ assignConfig(p, ok) /\ phase = "assign"
      /\ \/ ok /\ UNCHANGED <<phase, hosts, listed>>
         \/ ~ok /\ Abort
  BY DEF BalancerAssign
<1>2. TypeOK /\ IInv
  BY DEF RInv, IInv
<1>3. /\ p[1] = hosts[turn] /\ p[2] \in free
      /\ p[1] \in Hosts /\ p[2] \in Configs
  BY <1>1, <1>2, AssignType DEF IInv, TurnInv, Balancing
<1>4. A!Stays \/ A!Ends
  BY <1>1, CommandStays, AbortEnds DEF Abort
<1>5. HoldersOf[p[2]] = {} /\ p[2] \in listed
  BY <1>1, <1>2, <1>3 DEF IInv, Partition, Balancing, HoldersOf, Holders
<1>6. p[1] \in ToSet(hosts)
  BY <1>1, <1>2, <1>3, HostsFacts DEF IInv, TurnInv, Balancing, TypeOK
<1>7. CASE store' = [store EXCEPT ![p[1]] = @ \union {p[2]}]
  <2>1. HoldersOf' = [HoldersOf EXCEPT ![p[2]] = @ \union {p[1]}]
    BY <1>2, <1>3, <1>7, GivenTo
  <2>2. HoldersOf' = [HoldersOf EXCEPT ![p[2]] = {p[1]}]
    BY <1>5, <2>1 DEF HoldersOf
  <2>3. A!Place(p[2], p[1])
    BY <1>1, <1>4, <1>5, <1>6, <2>2 DEF A!Place, Balancing, HoldersOf
  <2> QED
    BY <1>3, <2>3 DEF A!Next
<1>8. CASE store' = store /\ ~ok
  <2>1. A!Close
    BY <1>1, <1>2, <1>8, AbortCloses DEF Abort
  <2> QED
    BY <2>1 DEF A!Next
<1> QED
  BY <1>1, <1>7, <1>8 DEF assignConfig

\* Every step of the scheduler is a step of Assignment, or none.
LEMMA StepRefines == ASSUME RInv, [Next]_vars PROVE [A!Next]_(A!vars)
<1>1. IInv /\ TypeOK /\ RoundInv
  BY DEF RInv, IInv
<1>2. CASE UNCHANGED vars \/ Environment
  <2>1. UNCHANGED A!vars
    BY <1>2, StepStutters DEF vars, Environment, roundVars
  <2> QED
    BY <2>1
<1>3. CASE Start
  <2>1. hosts = <<>> /\ IInv' /\ phase = "idle" /\ phase' = "dead"
    BY <1>1, <1>3, StartStep DEF Start, RoundInv
  <2>2. ToSet(hosts) = {}
    BY <2>1 DEF ToSet
  <2>3. ToSet(hosts') # {} /\ ToSet(hosts') \subseteq Hosts
    <3>1. (phase # "idle")'
      BY <2>1
    <3>2. alive \in SUBSET Hosts /\ alive # {} /\ hosts' \in SetToSeqs(alive)
      BY <1>1, <1>3 DEF Start, TypeOK
    <3>3. /\ hosts' \in Seq(Hosts) /\ Len(hosts') \in Nat /\ Len(hosts') > 0
          /\ \A i \in 1 .. Len(hosts') : hosts'[i] \in alive
      BY <3>2, SetToSeqsOK
    <3>4. DOMAIN hosts' = 1 .. Len(hosts')
      BY <3>3, LenProperties
    <3> QED
      BY <3>2, <3>3, <3>4 DEF ToSet
  <2>4. HoldersOf' = HoldersOf /\ listed' \in SUBSET Configs
    BY <1>1, <1>3, SameHolders DEF Start, TypeOK
  <2>5. A!Open
    BY <2>1, <2>2, <2>3, <2>4 DEF A!Open, HoldersOf, Balancing
  <2> QED
    BY <2>5 DEF A!Next
<1>4. CASE NextDeadHost \/ Plan \/ Pick \/ NextTurn \/ \E p \in todo : ScanKeep(p)
  <2>1. UNCHANGED <<store, hosts, listed>> /\ (phase' \in Balancing <=> phase \in Balancing)
    BY <1>4 DEF NextDeadHost, Plan, Pick, NextTurn, ScanKeep, Balancing
  <2>2. UNCHANGED A!vars
    BY <2>1, StepStutters
  <2> QED
    BY <2>2
<1>5. CASE Finish
  <2>1. A!Close
    BY <1>1, <1>5, AbortCloses DEF Finish
  <2> QED
    BY <2>1 DEF A!Next
<1> QED
  BY <1>2, <1>3, <1>4, <1>5, SettleRefines, DropRefines, WithdrawRefines, PlaceRefines
  DEF Next, Round

(***************************************************************************)
(* The scheduler implements Assignment: whatever command fails, a config is *)
(* taken away only from a host that is gone, when it is no longer listed,   *)
(* when another member keeps it, or, once the scan is over, from a host     *)
(* above the average; and it is given only to a member while nobody has it  *)
(* (scheduler.go:54-186).                                                   *)
(***************************************************************************)
THEOREM SchedulerRefinesAssignment == Spec => ImplementsAssignment
<1>1. Init => A!Init
  <2> SUFFICES ASSUME Init PROVE A!Init
    OBVIOUS
  <2>1. ToSet(hosts) = {} /\ listed = {} /\ phase \notin Balancing
    BY DEF Init, ToSet, Balancing
  <2>2. HoldersOf \in [Configs -> SUBSET Hosts]
    BY DEF HoldersOf, Holders
  <2> QED
    BY <2>1, <2>2 DEF A!Init, HoldersOf
<1>2. Spec => []RInv
  BY RInit, RStep, PTL DEF Spec
<1>3. Spec => A!Spec
  BY <1>1, <1>2, StepRefines, PTL DEF Spec, A!Spec
<1> QED
  BY <1>3 DEF ImplementsAssignment

-----------------------------------------------------------------------------
(* What a round leaves unassigned, and that a settled round moves nothing.   *)

\* How many configs a host has.
Size(h) == Cardinality(store[h])

\* Every host before this turn's has at least the average.
Passed == \A i \in 1 .. Len(hosts) : i < turn => average =< Size(hosts[i])

(***************************************************************************)
(* A host whose turn is over has the average, or nothing was left to give   *)
(* it.  In the second case earlier hosts may be short, and what later turns *)
(* release they also assign.                                                *)
(***************************************************************************)
FillInv ==
  /\ phase = "plan" => free = {} \/ Passed
  /\ phase = "release" =>
       /\ average =< Size(hosts[turn]) + max(0, wantage)
       /\ Passed \/ Cardinality(free) + Cardinality(Left(overHost)) =< max(0, wantage)
  /\ phase = "assign" =>
       \/ free \subseteq Left(hosts[turn])
       \/ Passed /\ average =< Size(hosts[turn]) + Cardinality(Left(hosts[turn]))
  /\ phase = "done" =>
       free = {} \/ \A i \in 1 .. Len(hosts) : average =< Size(hosts[i])

\* Hosts and repository do not change under a round.
SourceInv == phase # "idle" => ToSet(hosts) = alive /\ listed = repo

\* quantity is exact until a host's own turn, in which it is given configs
\* that are not counted.
ExactInv ==
  /\ phase = "scan" =>
       \A i \in 1 .. Len(hosts) :
         i =< turn => quantity[hosts[i]] = Cardinality(store[hosts[i]] \ Left(hosts[i]))
  /\ phase \in {"plan", "release"} =>
       \A i \in 1 .. Len(hosts) : i >= turn => quantity[hosts[i]] = Size(hosts[i])
  /\ phase = "assign" =>
       \A i \in 1 .. Len(hosts) : i > turn => quantity[hosts[i]] = Size(hosts[i])

\* The first release of a turn is for a host below the average or from a host
\* two above it, unless a config is free.
MoveInv ==
  phase = "release" /\ todo # {} =>
    \/ free # {}
    \/ Size(hosts[turn]) < average
    \/ Size(overHost) >= average + 2

BInv == RInv /\ FillInv /\ SourceInv /\ ExactInv /\ MoveInv

\* A finite set can be numbered, and a number stands for one element.
LEMMA Numbering ==
  ASSUME NEW T, IsFiniteSet(T)
  PROVE  /\ \E f \in [1 .. Cardinality(T) -> T] :
              \A i, j \in 1 .. Cardinality(T) : f[i] = f[j] => i = j
         /\ \E f \in [T -> 1 .. Cardinality(T)] : \A c, d \in T : f[c] = f[d] => c = d
<1>1. ExistsBijection(1 .. Cardinality(T), T) /\ ExistsBijection(T, 1 .. Cardinality(T))
  BY FS_CardinalityType, Fun_ExistsBijSymmetric
<1>2. PICK f : f \in Bijection(1 .. Cardinality(T), T)
  BY <1>1 DEF ExistsBijection
<1>3. PICK g : g \in Bijection(T, 1 .. Cardinality(T))
  BY <1>1 DEF ExistsBijection
<1>4. /\ f \in [1 .. Cardinality(T) -> T]
      /\ \A i, j \in 1 .. Cardinality(T) : f[i] = f[j] => i = j
  BY <1>2, Fun_BijectionProperties
<1>5. /\ g \in [T -> 1 .. Cardinality(T)]
      /\ \A c, d \in T : g[c] = g[d] => c = d
  BY <1>3, Fun_BijectionProperties
<1> QED
  BY <1>4, <1>5

\* Disjoint parts of T with at least k elements each.
LEMMA CountAtLeast ==
  ASSUME NEW T, IsFiniteSet(T), NEW G, IsFiniteSet(G), NEW part \in [G -> SUBSET T],
         \A g, h \in G : g # h => part[g] \intersect part[h] = {},
         NEW k \in Nat, \A g \in G : k =< Cardinality(part[g])
  PROVE  Cardinality(G) * k =< Cardinality(T)
<1> DEFINE Nth(g) == CHOOSE f \in [1 .. Cardinality(part[g]) -> part[g]] :
                       \A i, j \in 1 .. Cardinality(part[g]) : f[i] = f[j] => i = j
           put == [p \in G \X (1 .. k) |-> Nth(p[1])[p[2]]]
<1>1. \A g \in G : Cardinality(part[g]) \in Nat
  BY FS_Subset, FS_CardinalityType
<1>2. \A g \in G : /\ Nth(g) \in [1 .. Cardinality(part[g]) -> part[g]]
                   /\ \A i, j \in 1 .. Cardinality(part[g]) : Nth(g)[i] = Nth(g)[j] => i = j
  <2> SUFFICES ASSUME NEW g \in G
               PROVE  /\ Nth(g) \in [1 .. Cardinality(part[g]) -> part[g]]
                      /\ \A i, j \in 1 .. Cardinality(part[g]) :
                           Nth(g)[i] = Nth(g)[j] => i = j
    OBVIOUS
  <2>1. IsFiniteSet(part[g])
    BY FS_Subset
  <2> QED
    BY <2>1, Numbering
<1> HIDE DEF Nth
<1>3. \A g \in G, i \in 1 .. k : i \in 1 .. Cardinality(part[g])
  BY <1>1
<1>4. \A g \in G, i \in 1 .. k : Nth(g)[i] \in part[g]
  BY <1>2, <1>3
<1>5. put \in [G \X (1 .. k) -> T]
  BY <1>4
<1>6. ASSUME NEW p \in G \X (1 .. k), NEW q \in G \X (1 .. k), put[p] = put[q] PROVE p = q
  <2>1. /\ p[1] \in G /\ p[2] \in 1 .. k /\ p = <<p[1], p[2]>>
        /\ q[1] \in G /\ q[2] \in 1 .. k /\ q = <<q[1], q[2]>>
    OBVIOUS
  <2>2. Nth(p[1])[p[2]] = Nth(q[1])[q[2]]
    BY <1>6
  <2>3. p[1] = q[1]
    BY <1>4, <2>1, <2>2
  <2>4. p[2] = q[2]
    BY <1>2, <1>3, <2>1, <2>2, <2>3
  <2> QED
    BY <2>1, <2>3, <2>4
<1>7. put \in Injection(G \X (1 .. k), T)
  <2> HIDE DEF put
  <2> QED
    BY <1>5, <1>6, Fun_IsInj
<1>8. Cardinality(G \X (1 .. k)) =< Cardinality(T)
  BY <1>7, FS_Injection
<1>9. IsFiniteSet(1 .. k) /\ Cardinality(1 .. k) = k
  BY FS_Interval
<1> QED
  BY <1>8, <1>9, FS_Product

\* Parts that cover T, with at most k elements each and one with fewer.
LEMMA CountLess ==
  ASSUME NEW T, IsFiniteSet(T), NEW G, IsFiniteSet(G), NEW part \in [G -> SUBSET T],
         \A c \in T : \E g \in G : c \in part[g],
         NEW k \in Nat, \A g \in G : Cardinality(part[g]) =< k,
         \E g \in G : Cardinality(part[g]) < k
  PROVE  Cardinality(T) < Cardinality(G) * k
<1> DEFINE At(g) == CHOOSE f \in [part[g] -> 1 .. Cardinality(part[g])] :
                      \A c, d \in part[g] : f[c] = f[d] => c = d
           Of(c) == CHOOSE g \in G : c \in part[g]
           pos == [c \in T |-> <<Of(c), At(Of(c))[c]>>]
<1>1. \A g \in G : Cardinality(part[g]) \in Nat
  BY FS_Subset, FS_CardinalityType
<1>2. \A g \in G : /\ At(g) \in [part[g] -> 1 .. Cardinality(part[g])]
                   /\ \A c, d \in part[g] : At(g)[c] = At(g)[d] => c = d
  <2> SUFFICES ASSUME NEW g \in G
               PROVE  /\ At(g) \in [part[g] -> 1 .. Cardinality(part[g])]
                      /\ \A c, d \in part[g] : At(g)[c] = At(g)[d] => c = d
    OBVIOUS
  <2>1. IsFiniteSet(part[g])
    BY FS_Subset
  <2> QED
    BY <2>1, Numbering
<1>3. \A c \in T : Of(c) \in G /\ c \in part[Of(c)]
  OBVIOUS
<1> HIDE DEF At, Of
<1>4. \A c \in T : At(Of(c))[c] \in 1 .. Cardinality(part[Of(c)])
  BY <1>2, <1>3
<1>5. \A c \in T : At(Of(c))[c] \in 1 .. k
  BY <1>1, <1>3, <1>4
<1>6. pos \in [T -> G \X (1 .. k)]
  BY <1>3, <1>5
<1>7. ASSUME NEW c \in T, NEW d \in T, pos[c] = pos[d] PROVE c = d
  <2>1. Of(c) = Of(d) /\ At(Of(c))[c] = At(Of(d))[d]
    BY <1>7
  <2> QED
    BY <1>2, <1>3, <2>1
<1>8. pos \in Injection(T, G \X (1 .. k))
  <2> HIDE DEF pos
  <2> QED
    BY <1>6, <1>7, Fun_IsInj
<1>9. PICK g \in G : Cardinality(part[g]) < k
  OBVIOUS
<1>10. <<g, k>> \in G \X (1 .. k) /\ \A c \in T : pos[c] # <<g, k>>
  <2>1. \A c \in T : Of(c) = g => At(Of(c))[c] # k
    BY <1>1, <1>4, <1>9
  <2>2. k \in 1 .. k
    BY <1>1, <1>9
  <2> QED
    BY <2>1, <2>2
<1>11. pos \notin Surjection(T, G \X (1 .. k))
  <2> HIDE DEF pos
  <2> QED
    BY <1>10, Fun_SurjectionProperties
<1>12. IsFiniteSet(1 .. k) /\ Cardinality(1 .. k) = k
  BY FS_Interval
<1>13. /\ IsFiniteSet(G \X (1 .. k))
       /\ Cardinality(G \X (1 .. k)) = Cardinality(G) * k
  BY <1>12, FS_Product
<1>14. /\ Cardinality(T) =< Cardinality(G \X (1 .. k))
       /\ Cardinality(T) # Cardinality(G \X (1 .. k))
  <2> HIDE DEF pos
  <2> QED
    BY <1>8, <1>11, <1>13, FS_Injection
<1>15. Cardinality(T) \in Nat /\ Cardinality(G \X (1 .. k)) \in Nat
  BY <1>13, FS_CardinalityType
<1> QED
  BY <1>13, <1>14, <1>15

\* The average fits, and one more for every host does not.
LEMMA AverageBounds ==
  ASSUME NEW n \in Nat, NEW d \in Nat \ {0}
  PROVE  /\ n \div d \in Nat
         /\ d * (n \div d) =< n
         /\ n < d * (n \div d) + d
<1>1. n = d * (n \div d) + (n % d) /\ n % d \in 0 .. d - 1 /\ n \div d \in Int
  OBVIOUS
<1>2. PICK q \in Int : q = n \div d
  BY <1>1
<1>3. PICK r \in 0 .. d - 1 : r = n % d
  BY <1>1
<1>4. n = d * q + r
  BY <1>1, <1>2, <1>3
<1>5. q >= 0
  BY <1>4
<1> QED
  BY <1>2, <1>4, <1>5

\* The types of what a running round works with.
LEMMA RoundFacts ==
  ASSUME IInv, phase # "idle"
  PROVE  /\ Len(hosts) \in Nat \ {0} /\ average \in Nat
         /\ turn \in 0 .. Len(hosts)
         /\ \A i \in 1 .. Len(hosts) : hosts[i] \in Hosts
         /\ store \in [Hosts -> SUBSET Configs] /\ quantity \in [Hosts -> Int]
         /\ \A h \in Hosts : Size(h) \in Nat
         /\ \A h \in Hosts : Cardinality(Left(h)) \in Nat
         /\ wantage \in Int /\ Cardinality(free) \in Nat
<1>1. Len(hosts) \in Nat \ {0}
  BY HostsFacts DEF IInv, HostsOK
<1>2. Cardinality(listed) \in Nat
  BY ConfigSets DEF IInv, TypeOK
<1>3. average \in Nat
  BY <1>1, <1>2, AverageBounds DEF average
<1>4. \A h \in Hosts : Left(h) \in SUBSET Configs
  BY DEF Left
<1> QED
  BY <1>1, <1>3, <1>4, HostsFacts, ConfigSets DEF IInv, TypeOK, Size

\* What a release of the balancer changes.
LEMMA AfterRelease ==
  ASSUME RInv, NEW p \in todo, BalancerRelease(p, TRUE)
  PROVE  /\ overHost \in Hosts /\ p[1] = overHost
         /\ average' = average
         /\ \A h \in Hosts : Size(h)' = IF h = overHost THEN Size(h) - 1 ELSE Size(h)
         /\ \A h \in Hosts : quantity'[h] = IF h = overHost THEN quantity[h] - 1 ELSE quantity[h]
         /\ average + 1 =< quantity[overHost] /\ quantity[overHost] =< Size(overHost)
         /\ free' # {} /\ Cardinality(free)' = Cardinality(free) + 1
         /\ Cardinality(Left(overHost))' = Cardinality(Left(overHost)) - 1
<1>1. /\ phase = "release" /\ phase \in Balancing /\ IInv
      /\ UNCHANGED <<phase, hosts, listed, overHost>>
      /\ quantity' = [quantity EXCEPT ![p[1]] = @ - 1] /\ todo' = todo \ {p}
      /\ free' = free \union {p[2]}
      /\ releaseConfig(p, TRUE)
  BY DEF BalancerRelease, Balancing, RInv
<1>2. /\ p[1] = overHost /\ p[2] \in store[p[1]]
      /\ p[1] \in Hosts /\ p[2] \in Configs /\ p = <<p[1], p[2]>>
      /\ store' = [store EXCEPT ![p[1]] = @ \ {p[2]}]
  BY <1>1, ReleaseType DEF IInv, TurnInv
<1>3. store \in [Hosts -> SUBSET Configs] /\ quantity \in [Hosts -> Int]
  BY <1>1 DEF IInv, TypeOK
<1>4. Cardinality(store[overHost] \ {p[2]}) = Cardinality(store[overHost]) - 1
  BY <1>2, <1>3, ConfigSets
<1>5. \A h \in Hosts : store'[h] = IF h = overHost THEN store[h] \ {p[2]} ELSE store[h]
  BY <1>2, <1>3
<1>6. \A h \in Hosts : Size(h)' = IF h = overHost THEN Size(h) - 1 ELSE Size(h)
  BY <1>4, <1>5 DEF Size
<1>7. average' = average
  BY <1>1 DEF average
<1>8. /\ Left(overHost)' = Left(overHost) \ {p[2]} /\ p[2] \in Left(overHost)
      /\ Left(overHost) \in SUBSET Configs
  BY <1>1, <1>2 DEF Left
<1>9. Cardinality(Left(overHost)') = Cardinality(Left(overHost)) - 1
  BY <1>8, ConfigSets
<1>10. Cardinality(Left(overHost)) =< quantity[overHost] - average
  BY <1>1, <1>8 DEF QuantityInv, RInv
<1>11. Cardinality(Left(overHost)) \in Nat /\ Cardinality(Left(overHost)) > 0
  BY <1>8, ConfigSets
<1>12. average \in Nat /\ quantity[overHost] \in Int /\ quantity[overHost] =< Size(overHost)
  BY <1>1, <1>2, <1>3, RoundFacts DEF RInv, QuantityInv, Size
<1>13. free \in SUBSET Configs /\ p[2] \notin free
  BY <1>1, <1>2 DEF IInv, TypeOK, Partition
<1>14. Cardinality(free') = Cardinality(free) + 1 /\ free' # {}
  BY <1>1, <1>13, ConfigSets
<1>15. average + 1 =< quantity[overHost]
  BY <1>10, <1>11, <1>12
<1>16. \A h \in Hosts : quantity'[h] = IF h = overHost THEN quantity[h] - 1 ELSE quantity[h]
  BY <1>1, <1>2, <1>3
<1> QED
  BY <1>1, <1>2, <1>6, <1>7, <1>9, <1>12, <1>14, <1>15, <1>16

\* What an assignment of the balancer changes.
LEMMA AfterAssign ==
  ASSUME RInv, NEW p \in todo, BalancerAssign(p, TRUE)
  PROVE  /\ turn \in 1 .. Len(hosts) /\ hosts[turn] \in Hosts /\ p[1] = hosts[turn]
         /\ average' = average
         /\ \A h \in Hosts : Size(h)' = IF h = hosts[turn] THEN Size(h) + 1 ELSE Size(h)
         /\ p[2] \in free /\ free' = free \ {p[2]}
         /\ Left(hosts[turn])' = Left(hosts[turn]) \ {p[2]}
         /\ Cardinality(Left(hosts[turn]))' = Cardinality(Left(hosts[turn])) - 1
<1>1. /\ phase = "assign" /\ phase \in Balancing /\ IInv
      /\ UNCHANGED <<phase, hosts, listed, turn>>
      /\ todo' = todo \ {p}
      /\ free' = free \ {p[2]}
      /\ assignConfig(p, TRUE)
  BY DEF BalancerAssign, Balancing, RInv
<1>2. /\ p[1] = hosts[turn] /\ p[2] \in free
      /\ p[1] \in Hosts /\ p[2] \in Configs /\ p = <<p[1], p[2]>>
      /\ store' = [store EXCEPT ![p[1]] = @ \union {p[2]}]
  BY <1>1, AssignType DEF IInv, TurnInv
<1>3. store \in [Hosts -> SUBSET Configs] /\ p[2] \notin store[p[1]]
  BY <1>1, <1>2 DEF IInv, TypeOK, Partition
<1>4. Cardinality(store[p[1]] \union {p[2]}) = Cardinality(store[p[1]]) + 1
  BY <1>2, <1>3, ConfigSets
<1>5. \A h \in Hosts : store'[h] = IF h = p[1] THEN store[h] \union {p[2]} ELSE store[h]
  BY <1>2, <1>3
<1>6. \A h \in Hosts : Size(h)' = IF h = p[1] THEN Size(h) + 1 ELSE Size(h)
  BY <1>4, <1>5 DEF Size
<1>7. average' = average
  BY <1>1 DEF average
<1>8. /\ Left(p[1])' = Left(p[1]) \ {p[2]} /\ p[2] \in Left(p[1])
      /\ Left(p[1]) \in SUBSET Configs
  BY <1>1, <1>2 DEF Left
<1>9. Cardinality(Left(p[1])') = Cardinality(Left(p[1])) - 1
  BY <1>8, ConfigSets
<1>10. turn \in 1 .. Len(hosts)
  BY <1>1, RoundFacts DEF IInv, TurnInv
<1>11. Left(hosts[turn])' = Left(p[1])'
  BY <1>1, <1>2 DEF Left
<1> QED
  BY <1>1, <1>2, <1>6, <1>7, <1>8, <1>9, <1>10, <1>11

\* The head of a turn: a host below the average wants what it lacks.
LEMMA PlanBalance ==
  ASSUME RInv, RInv', FillInv, ExactInv, Plan
  PROVE  FillInv' /\ ExactInv' /\ MoveInv'
<1>1. /\ phase = "plan" /\ phase' = "release" /\ phase \in Balancing /\ IInv
      /\ UNCHANGED <<store, hosts, listed, quantity, free, turn>>
  BY DEF Plan, Balancing, RInv
<1>2. average' = average
  BY <1>1 DEF average
<1>3. /\ Len(hosts) \in Nat /\ average \in Nat /\ turn \in 1 .. Len(hosts)
      /\ hosts[turn] \in Hosts
      /\ \A h \in Hosts : Size(h) \in Nat /\ quantity[h] \in Int
      /\ \A h \in Hosts : Size(h)' = Size(h)
  BY <1>1, RoundFacts DEF IInv, TurnInv, Size
<1>4. overHost' \in Hosts /\ wantage' \in Int
  BY <1>1 DEF RInv, IInv, TurnInv, TypeOK, Balancing
<1>5. quantity[hosts[turn]] = Size(hosts[turn]) /\ quantity[overHost'] =< Size(overHost')
  BY <1>1, <1>3, <1>4 DEF ExactInv, RInv, QuantityInv, Size
<1> DEFINE overload == quantity[overHost'] - average
           lacks == average - quantity[hosts[turn]]
<1>6. PICK cs \in SUBSET store[overHost'] :
        /\ Cardinality(cs) =
             max(0, min(ToRelease(overload, wantage'), Cardinality(store[overHost'])))
        /\ todo' = Pairs(overHost', cs)
  BY DEF Plan
<1>7. wantage' = Wantage(Lack, overload)
  BY DEF Plan
<1>8. Left(overHost)' = cs
  BY <1>4, <1>6 DEF Left, Pairs, RInv, IInv, TypeOK
<1>9. cs \in SUBSET Configs /\ Cardinality(cs) \in Nat
  BY <1>4, ConfigSets DEF RInv, IInv, TypeOK
<1>10. lacks # 0 \/ free = {} => Lack = lacks
  BY <1>3 DEF Lack
<1>11. lacks > 0 => wantage' = lacks
  BY <1>3, <1>4, <1>7, <1>10 DEF Wantage
<1>12. average =< Size(hosts[turn]) + max(0, wantage')
  BY <1>3, <1>4, <1>5, <1>11 DEF max
<1>13. Cardinality(store[overHost']) \in Nat
  BY <1>1, <1>3, <1>4 DEF Size
<1>14. Cardinality(cs) =< max(0, wantage')
  BY <1>3, <1>4, <1>6, <1>13 DEF max, min, ToRelease
<1>15. Passed' \/ Cardinality(free') + Cardinality(Left(overHost)') =< max(0, wantage')
  <2>1. CASE Passed
    <3>1. \A i \in 1 .. Len(hosts) : hosts[i] \in Hosts
      BY <1>1, RoundFacts
    <3> QED
      BY <1>1, <1>2, <1>3, <2>1, <3>1 DEF Passed
  <2>2. CASE free = {}
    <3>1. Cardinality(free') = 0
      BY <1>1, <2>2, FS_EmptySet
    <3> QED
      BY <1>8, <1>9, <1>14, <3>1
  <2> QED
    BY <1>1, <2>1, <2>2 DEF FillInv
<1>16. FillInv'
  BY <1>1, <1>2, <1>3, <1>12, <1>15 DEF FillInv
<1>17. ExactInv'
  <2>1. \A i \in 1 .. Len(hosts) : hosts[i] \in Hosts
    BY <1>1, RoundFacts
  <2> QED
    BY <1>1, <1>3, <2>1 DEF ExactInv
<1>18. MoveInv'
  <2> SUFFICES ASSUME todo' # {}, free = {}
               PROVE  Size(hosts[turn]) < average \/ Size(overHost') >= average + 2
    <3>1. Size(overHost)' = Size(overHost') /\ Size(hosts[turn])' = Size(hosts[turn])
      BY <1>1 DEF Size
    <3> QED
      BY <1>1, <1>2, <3>1 DEF MoveInv
  <2>1. Cardinality(cs) > 0
    <3>1. cs # {}
      BY <1>6 DEF Pairs
    <3> QED
      BY <1>9, <3>1, ConfigSets
  <2>2. overload > 0 /\ wantage' > 0
    BY <1>3, <1>4, <1>6, <1>13, <2>1 DEF max, min, ToRelease
  <2>3. lacks > 0 \/ overload > 1
    BY <1>3, <1>4, <1>7, <1>10, <2>2 DEF Wantage
  <2> QED
    BY <1>3, <1>4, <1>5, <2>3
<1> QED
  BY <1>16, <1>17, <1>18

\* A host gives up only what it has above the average.
LEMMA ReleaseBalance ==
  ASSUME RInv, FillInv, ExactInv, NEW p \in todo, BalancerRelease(p, TRUE)
  PROVE  FillInv' /\ ExactInv' /\ MoveInv'
<1>1. /\ phase = "release" /\ phase \in Balancing /\ IInv
      /\ UNCHANGED <<phase, hosts, turn, overHost, wantage>>
  BY DEF BalancerRelease, Balancing, RInv
<1>2. /\ overHost \in Hosts
      /\ average' = average
      /\ \A h \in Hosts : Size(h)' = IF h = overHost THEN Size(h) - 1 ELSE Size(h)
      /\ \A h \in Hosts : quantity'[h] = IF h = overHost THEN quantity[h] - 1 ELSE quantity[h]
      /\ average + 1 =< quantity[overHost] /\ quantity[overHost] =< Size(overHost)
      /\ free' # {} /\ Cardinality(free)' = Cardinality(free) + 1
      /\ Cardinality(Left(overHost))' = Cardinality(Left(overHost)) - 1
  BY AfterRelease
<1>3. /\ Len(hosts) \in Nat /\ average \in Nat /\ turn \in 1 .. Len(hosts)
      /\ \A i \in 1 .. Len(hosts) : hosts[i] \in Hosts
      /\ \A h \in Hosts : Size(h) \in Nat /\ quantity[h] \in Int
      /\ wantage \in Int /\ Cardinality(free) \in Nat /\ Cardinality(Left(overHost)) \in Nat
  BY <1>1, <1>2, RoundFacts DEF IInv, TurnInv
<1>4. max(0, wantage) \in Nat
  BY <1>3 DEF max
<1>5. \A i \in 1 .. Len(hosts) : Size(hosts[i])' = Size(hosts[i]) \/ average =< Size(hosts[i])'
  BY <1>1, <1>2, <1>3
<1>6. average =< Size(hosts[turn])' + max(0, wantage)
  <2>1. average =< Size(hosts[turn]) + max(0, wantage)
    BY <1>1 DEF FillInv
  <2>2. Size(hosts[turn])' \in Int
    BY <1>1, <1>2, <1>3
  <2>3. Size(hosts[turn])' = Size(hosts[turn]) \/ average =< Size(hosts[turn])'
    BY <1>1, <1>3, <1>5
  <2> QED
    BY <1>3, <1>4, <2>1, <2>2, <2>3
<1>7. Passed => Passed'
  BY <1>1, <1>2, <1>5 DEF Passed
<1>8. Cardinality(free)' + Cardinality(Left(overHost))' =
        Cardinality(free) + Cardinality(Left(overHost))
  BY <1>2, <1>3
<1>9. FillInv'
  BY <1>1, <1>2, <1>6, <1>7, <1>8 DEF FillInv
<1>10. ExactInv'
  BY <1>1, <1>2, <1>3 DEF ExactInv
<1> QED
  BY <1>2, <1>9, <1>10 DEF MoveInv

\* Everything that is free is picked, or as much as the host lacks.
LEMMA PickBalance ==
  ASSUME RInv, FillInv, ExactInv, Pick
  PROVE  FillInv' /\ ExactInv' /\ MoveInv'
<1>1. /\ phase = "release" /\ phase' = "assign" /\ phase \in Balancing /\ IInv
      /\ UNCHANGED <<store, hosts, listed, quantity, free, turn>>
  BY DEF Pick, Balancing, RInv
<1>2. average' = average
  BY <1>1 DEF average
<1>3. /\ Len(hosts) \in Nat /\ average \in Nat /\ turn \in 1 .. Len(hosts)
      /\ \A i \in 1 .. Len(hosts) : hosts[i] \in Hosts
      /\ \A h \in Hosts : Size(h) \in Nat /\ Size(h)' = Size(h)
      /\ wantage \in Int /\ Cardinality(free) \in Nat
      /\ overHost \in Hosts /\ Cardinality(Left(overHost)) \in Nat
  BY <1>1, RoundFacts DEF IInv, TurnInv, Size
<1>4. PICK cs \in SUBSET free : /\ Cardinality(cs) = ToAdd(wantage)
                                /\ todo' = Pairs(hosts[turn], cs)
  BY DEF Pick
<1>5. free \in SUBSET Configs /\ cs \in SUBSET Configs /\ IsFiniteSet(free)
  BY <1>1, ConfigSets DEF IInv, TypeOK
<1>6. Left(hosts[turn])' = cs
  BY <1>1, <1>3, <1>4, <1>5 DEF Left, Pairs
<1>7. ASSUME Cardinality(free) =< max(1, wantage) PROVE FillInv'
  <2>1. Cardinality(cs) = Cardinality(free)
    BY <1>3, <1>4, <1>7 DEF ToAdd, min, max
  <2>2. cs = free
    BY <1>5, <2>1, FS_Subset
  <2> QED
    BY <1>1, <1>6, <2>2 DEF FillInv
<1>8. ASSUME Cardinality(free) > max(1, wantage) PROVE FillInv'
  <2>1. Passed
    BY <1>1, <1>3, <1>8 DEF FillInv, max
  <2>2. average =< Size(hosts[turn]) + max(0, wantage)
    BY <1>1 DEF FillInv
  <2>3. Cardinality(cs) = max(1, wantage)
    BY <1>3, <1>4, <1>8 DEF ToAdd, min, max
  <2>4. average =< Size(hosts[turn])' + Cardinality(Left(hosts[turn]))'
    BY <1>1, <1>3, <1>6, <2>2, <2>3 DEF max
  <2>5. Passed'
    BY <1>1, <1>2, <1>3, <2>1 DEF Passed
  <2> QED
    BY <1>1, <1>2, <2>4, <2>5 DEF FillInv
<1>9. FillInv'
  <2>1. max(1, wantage) \in Int
    BY <1>3 DEF max
  <2> QED
    BY <1>3, <1>7, <1>8, <2>1
<1>10. ExactInv'
  BY <1>1, <1>3 DEF ExactInv
<1> QED
  BY <1>1, <1>9, <1>10 DEF MoveInv

\* The host of this turn grows by what it was to get.
LEMMA AssignBalance ==
  ASSUME RInv, FillInv, ExactInv, NEW p \in todo, BalancerAssign(p, TRUE)
  PROVE  FillInv' /\ ExactInv' /\ MoveInv'
<1>1. /\ phase = "assign" /\ phase \in Balancing /\ IInv
      /\ UNCHANGED <<phase, hosts, turn, quantity>>
  BY DEF BalancerAssign, Balancing, RInv
<1>2. /\ turn \in 1 .. Len(hosts) /\ hosts[turn] \in Hosts
      /\ average' = average
      /\ \A h \in Hosts : Size(h)' = IF h = hosts[turn] THEN Size(h) + 1 ELSE Size(h)
      /\ p[2] \in free /\ free' = free \ {p[2]}
      /\ Left(hosts[turn])' = Left(hosts[turn]) \ {p[2]}
      /\ Cardinality(Left(hosts[turn]))' = Cardinality(Left(hosts[turn])) - 1
  BY AfterAssign
<1>3. /\ Len(hosts) \in Nat /\ average \in Nat
      /\ \A i \in 1 .. Len(hosts) : hosts[i] \in Hosts
      /\ \A i \in 1 .. Len(hosts) : i # turn => hosts[i] # hosts[turn]
      /\ \A h \in Hosts : Size(h) \in Nat
      /\ Cardinality(Left(hosts[turn])) \in Nat
  BY <1>1, <1>2, RoundFacts DEF IInv, HostsOK
<1>4. Size(hosts[turn])' + Cardinality(Left(hosts[turn]))' =
        Size(hosts[turn]) + Cardinality(Left(hosts[turn]))
  <2>1. Size(hosts[turn])' = Size(hosts[turn]) + 1
    BY <1>1, <1>2
  <2> QED
    BY <1>2, <1>3, <2>1
<1>5. Passed => Passed'
  BY <1>1, <1>2, <1>3 DEF Passed
<1>6. FillInv'
  BY <1>1, <1>2, <1>4, <1>5 DEF FillInv
<1>7. ExactInv'
  BY <1>1, <1>2, <1>3 DEF ExactInv
<1> QED
  BY <1>1, <1>6, <1>7 DEF MoveInv

\* The turn is over: the host has the average, or nothing is free.
LEMMA NextTurnBalance ==
  ASSUME RInv, FillInv, ExactInv, NextTurn
  PROVE  FillInv' /\ ExactInv' /\ MoveInv'
<1>1. /\ phase = "assign" /\ phase' \in {"plan", "done"} /\ todo = {}
      /\ phase \in Balancing /\ IInv
      /\ UNCHANGED <<store, hosts, listed, quantity, free>>
      /\ IF turn < Len(hosts) THEN turn' = turn + 1 /\ phase' = "plan"
                              ELSE phase' = "done" /\ UNCHANGED turn
  BY DEF NextTurn, Balancing, RInv
<1>2. average' = average
  BY <1>1 DEF average
<1>3. /\ Len(hosts) \in Nat /\ average \in Nat /\ turn \in 1 .. Len(hosts)
      /\ \A i \in 1 .. Len(hosts) : hosts[i] \in Hosts
      /\ \A h \in Hosts : Size(h) \in Nat /\ Size(h)' = Size(h)
  BY <1>1, RoundFacts DEF IInv, TurnInv, Size
<1>4. Left(hosts[turn]) = {} /\ Cardinality(Left(hosts[turn])) = 0
  <2>1. Left(hosts[turn]) = {}
    BY <1>1 DEF Left
  <2> QED
    BY <2>1, FS_EmptySet
<1>5. free = {} \/ \A i \in 1 .. Len(hosts) : i =< turn => average =< Size(hosts[i])
  BY <1>1, <1>3, <1>4 DEF FillInv, Passed
<1>6. FillInv'
  BY <1>1, <1>2, <1>3, <1>5 DEF FillInv, Passed
<1>7. ExactInv'
  BY <1>1, <1>3 DEF ExactInv
<1> QED
  BY <1>1, <1>6, <1>7 DEF MoveInv

\* An enumeration of some hosts leaves none of them out.
LEMMA SetToSeqsAll ==
  ASSUME NEW S \in SUBSET Hosts, NEW s \in SetToSeqs(S)
  PROVE  ToSet(s) = S
<1> DEFINE n == Cardinality(S)
<1>1. IsFiniteSet(S) /\ n \in Nat
  BY SchedulerAssumption, FS_Subset, FS_CardinalityType
<1>2. s \in [1 .. n -> S] /\ \A i, j \in 1 .. n : s[i] = s[j] => i = j
  BY DEF SetToSeqs
<1>3. Cardinality(1 .. n) = n
  BY <1>1, FS_Interval
<1>4. s \in Injection(1 .. n, S)
  BY <1>2, Fun_IsInj
<1>5. s \in Surjection(1 .. n, S)
  BY <1>1, <1>3, <1>4, FS_Injection
<1>6. \A h \in S : \E i \in 1 .. n : s[i] = h
  BY <1>5 DEF Surjection
<1> QED
  BY <1>2, <1>6 DEF ToSet

\* The scan counts what it keeps, config by config.
LEMMA ScanKeepExact ==
  ASSUME IInv, ExactInv, NEW p \in todo, ScanKeep(p) PROVE ExactInv'
<1>1. /\ phase = "scan" /\ UNCHANGED <<store, phase, hosts, turn>>
      /\ quantity' = [quantity EXCEPT ![p[1]] = @ + 1] /\ todo' = todo \ {p}
  BY DEF ScanKeep
<1>2. /\ p[1] = hosts[turn] /\ p[2] \in store[p[1]]
      /\ p[1] \in Hosts /\ p[2] \in Configs /\ p = <<p[1], p[2]>>
  BY <1>1 DEF IInv, ScanInv, TypeOK
<1>3. \A h \in Hosts : Left(h)' = IF h = p[1] THEN Left(h) \ {p[2]} ELSE Left(h)
  BY <1>1, <1>2 DEF Left
<1>4. store \in [Hosts -> SUBSET Configs] /\ quantity \in [Hosts -> Int]
  BY DEF IInv, TypeOK
<1>5. p[2] \in Left(p[1])
  BY <1>2 DEF Left
<1>6. Cardinality(store[p[1]] \ Left(p[1])') = Cardinality(store[p[1]] \ Left(p[1])) + 1
  <2>1. store[p[1]] \ Left(p[1])' = (store[p[1]] \ Left(p[1])) \union {p[2]}
    BY <1>2, <1>3, <1>5
  <2>2. p[2] \notin store[p[1]] \ Left(p[1]) /\ store[p[1]] \ Left(p[1]) \in SUBSET Configs
    BY <1>2, <1>4, <1>5
  <2> QED
    BY <2>1, <2>2, ConfigSets
<1>7. \A i \in 1 .. Len(hosts) : hosts[i] \in Hosts
  BY HostsFacts DEF IInv
<1> SUFFICES ASSUME NEW i \in 1 .. Len(hosts), i =< turn
             PROVE  quantity'[hosts[i]] = Cardinality(store[hosts[i]] \ Left(hosts[i])')
  BY <1>1 DEF ExactInv
<1>8. quantity[hosts[i]] = Cardinality(store[hosts[i]] \ Left(hosts[i])) /\ hosts[i] \in Hosts
  BY <1>1, <1>7 DEF ExactInv
<1>9. CASE hosts[i] = p[1]
  <2>1. quantity'[p[1]] = quantity[p[1]] + 1
    BY <1>1, <1>2, <1>4
  <2>2. Left(hosts[i])' = Left(p[1])'
    BY <1>1, <1>9 DEF Left
  <2> QED
    BY <1>6, <1>8, <1>9, <2>1, <2>2
<1>10. CASE hosts[i] # p[1]
  <2>1. quantity'[hosts[i]] = quantity[hosts[i]]
    BY <1>1, <1>4, <1>8, <1>10
  <2>2. Left(hosts[i])' = Left(hosts[i])
    BY <1>1, <1>2, <1>10 DEF Left
  <2> QED
    BY <1>8, <2>1, <2>2
<1> QED
  BY <1>9, <1>10

\* A released config was not counted.
LEMMA ScanReleaseExact ==
  ASSUME IInv, ExactInv, NEW p \in todo, ScanRelease(p, TRUE) PROVE ExactInv'
<1>1. /\ phase = "scan" /\ UNCHANGED <<phase, hosts, turn, quantity>> /\ todo' = todo \ {p}
      /\ releaseConfig(p, TRUE)
  BY DEF ScanRelease
<1>2. /\ p[1] \in Hosts /\ p[2] \in Configs /\ p = <<p[1], p[2]>>
      /\ store' = [store EXCEPT ![p[1]] = @ \ {p[2]}]
  BY <1>1, ReleaseType DEF IInv
<1>3. \A h \in Hosts : Left(h)' = IF h = p[1] THEN Left(h) \ {p[2]} ELSE Left(h)
  BY <1>1, <1>2 DEF Left
<1>4. store \in [Hosts -> SUBSET Configs]
  BY DEF IInv, TypeOK
<1>5. p[2] \in Left(p[1])
  BY <1>2 DEF Left
<1>6. \A h \in Hosts : store'[h] \ Left(h)' = store[h] \ Left(h)
  BY <1>2, <1>3, <1>4, <1>5
<1>7. \A i \in 1 .. Len(hosts) : hosts[i] \in Hosts
  BY HostsFacts DEF IInv
<1>8. \A i \in 1 .. Len(hosts) :
        store'[hosts[i]] \ Left(hosts[i])' = store[hosts[i]] \ Left(hosts[i])
  BY <1>1, <1>6, <1>7
<1> QED
  BY <1>1, <1>8 DEF ExactInv

\* The next host has not been counted; after the last one every count is exact.
LEMMA ScanNextExact ==
  ASSUME IInv, QuantityInv, ExactInv, ScanNext PROVE ExactInv' /\ FillInv'
<1>1. /\ phase = "scan" /\ todo = {} /\ UNCHANGED <<store, quantity>>
      /\ turn \in 1 .. Len(hosts) /\ Len(hosts) \in Nat
      /\ \A h : Left(h) = {} /\ store[h] \ {} = store[h]
      /\ \A i \in 1 .. Len(hosts) : hosts[i] \in Hosts
  BY HostsFacts DEF ScanNext, IInv, ScanInv, TypeOK, Left
<1>2. \A i \in 1 .. Len(hosts) : i =< turn => quantity[hosts[i]] = Cardinality(store[hosts[i]])
  BY <1>1 DEF ExactInv
<1>3. CASE turn < Len(hosts)
  <2>1. /\ turn' = turn + 1 /\ UNCHANGED <<phase, hosts>>
        /\ todo' = Pairs(hosts[turn + 1], store[hosts[turn + 1]])
    BY <1>3 DEF ScanNext
  <2>2. turn + 1 \in 1 .. Len(hosts) /\ quantity[hosts[turn + 1]] = 0
    BY <1>1, <1>3 DEF QuantityInv
  <2>3. \A i \in 1 .. Len(hosts) : i =< turn => hosts[i] # hosts[turn + 1]
    BY <1>1, <2>2 DEF IInv, HostsOK
  <2>4. \A i \in 1 .. Len(hosts) : i =< turn => Left(hosts[i])' = {}
    BY <2>1, <2>3 DEF Left, Pairs
  <2>5. PICK g \in Hosts : g = hosts[turn + 1]
    BY <1>1, <2>2
  <2>6. store[g] \ Left(g)' = {}
    BY <2>1, <2>5 DEF Left, Pairs, IInv, TypeOK
  <2>7. \A i \in 1 .. Len(hosts) :
          i =< turn + 1 => quantity[hosts[i]] = Cardinality(store[hosts[i]] \ Left(hosts[i])')
    <3> SUFFICES ASSUME NEW i \in 1 .. Len(hosts), i =< turn + 1
                 PROVE  quantity[hosts[i]] = Cardinality(store[hosts[i]] \ Left(hosts[i])')
      OBVIOUS
    <3>1. CASE i =< turn
      BY <1>1, <1>2, <2>4, <3>1
    <3>2. CASE i = turn + 1
      <4>1. hosts[i] = g /\ Left(hosts[i])' = Left(g)'
        BY <2>1, <2>5, <3>2 DEF Left
      <4> QED
        BY <2>2, <2>5, <2>6, <4>1, FS_EmptySet
    <3> QED
      BY <1>1, <3>1, <3>2
  <2> QED
    BY <1>1, <2>1, <2>7 DEF ExactInv, FillInv
<1>4. CASE ~(turn < Len(hosts))
  <2>1. PICK s \in SetToSeqs(ToSet(hosts)) :
          Sorted(s) /\ hosts' = s /\ phase' = "plan" /\ turn' = 1
    BY <1>4 DEF ScanNext
  <2>2. \A h \in ToSet(hosts) : quantity[h] = Cardinality(store[h])
    BY <1>1, <1>2, <1>4, HostsFacts DEF IInv
  <2>3. ToSet(hosts) \in SUBSET Hosts /\ ToSet(hosts) # {}
    BY <1>1, HostsFacts DEF IInv
  <2>4. Len(s) \in Nat /\ \A i \in 1 .. Len(s) : s[i] \in ToSet(hosts)
    BY <2>1, <2>3, SetToSeqsOK
  <2>5. ExactInv'
    BY <1>1, <2>1, <2>2, <2>4 DEF ExactInv, Size
  <2>6. FillInv'
    BY <2>1, <2>4 DEF FillInv, Passed
  <2> QED
    BY <2>5, <2>6
<1> QED
  BY <1>3, <1>4

\* The scan begins with the first host, of which nothing is counted yet.
LEMMA NextDeadHostExact ==
  ASSUME IInv, QuantityInv, NextDeadHost PROVE ExactInv'
<1>1. /\ phase = "dead" /\ phase' \in {"dead", "scan"} /\ UNCHANGED <<store, hosts, quantity>>
      /\ Len(hosts) \in Nat /\ Len(hosts) > 0
  BY HostsFacts DEF NextDeadHost, IInv, HostsOK
<1>2. CASE phase' = "dead"
  BY <1>2 DEF ExactInv
<1>3. CASE phase' = "scan"
  <2>1. turn' = 1 /\ todo' = Pairs(hosts[1], store[hosts[1]])
    BY <1>1, <1>3 DEF NextDeadHost
  <2>2. hosts[1] \in Hosts /\ quantity[hosts[1]] = 0
    BY <1>1, HostsFacts DEF QuantityInv, IInv
  <2>3. store[hosts[1]] \ Left(hosts[1])' = {}
    BY <1>1, <2>1, <2>2 DEF Left, Pairs, IInv, TypeOK
  <2>4. \A i \in 1 .. Len(hosts) :
          i =< 1 => quantity[hosts[i]] = Cardinality(store[hosts[i]] \ Left(hosts[i])')
    <3>1. \A i \in 1 .. Len(hosts) : i =< 1 => i = 1
      BY <1>1
    <3>2. quantity[hosts[1]] = Cardinality(store[hosts[1]] \ Left(hosts[1])')
      BY <2>2, <2>3, FS_EmptySet
    <3> QED
      BY <3>1, <3>2
  <2> QED
    BY <1>1, <1>3, <2>1, <2>4 DEF ExactInv
<1> QED
  BY <1>1, <1>2, <1>3

\* A round that is over.
LEMMA BalanceEnds ==
  ASSUME phase' = "idle" PROVE FillInv' /\ ExactInv' /\ MoveInv' /\ SourceInv'
BY DEF FillInv, ExactInv, MoveInv, SourceInv

\* Hosts and repository are read once; the sort keeps the hosts.
LEMMA SourceStep == ASSUME IInv, SourceInv, [Next]_vars PROVE SourceInv'
<1>1. CASE Start
  <2>1. hosts' \in SetToSeqs(alive) /\ alive \in SUBSET Hosts
    BY <1>1 DEF Start, IInv, TypeOK
  <2>2. ToSet(hosts') = alive
    BY <2>1, SetToSeqsAll
  <2> QED
    BY <1>1, <2>2 DEF Start, SourceInv, envVars
<1>2. CASE ScanNext
  BY <1>2 DEF ScanNext, Sorted, SourceInv, envVars
<1>3. CASE NextDeadHost \/ Plan \/ Pick \/ NextTurn
  BY <1>3 DEF NextDeadHost, Plan, Pick, NextTurn, SourceInv, envVars
<1>4. CASE UNCHANGED vars \/ Environment
  BY <1>4 DEF vars, Environment, SourceInv
<1>5. CASE Finish
  BY <1>5 DEF Finish, SourceInv
<1>6. ASSUME NEW ok \in BOOLEAN, NEW p \in todo,
             \/ ReleaseDead(p, ok) \/ ScanKeep(p) \/ ScanRelease(p, ok)
             \/ BalancerRelease(p, ok) \/ BalancerAssign(p, ok)
      PROVE  SourceInv'
  BY <1>6 DEF ReleaseDead, ScanKeep, ScanRelease, BalancerRelease, BalancerAssign, Abort,
              SourceInv, envVars
<1> QED
  BY <1>1, <1>2, <1>3, <1>4, <1>5, <1>6 DEF Next, Round

LEMMA BInit == Init => BInv
BY RInit DEF BInv, Init, FillInv, ExactInv, MoveInv, SourceInv

LEMMA BStep == ASSUME BInv, [Next]_vars PROVE BInv'
<1>1. RInv /\ RInv' /\ IInv /\ QuantityInv /\ FillInv /\ ExactInv /\ MoveInv
  BY RStep DEF BInv, RInv
<1>2. SourceInv'
  BY <1>1, SourceStep DEF BInv
<1> SUFFICES FillInv' /\ ExactInv' /\ MoveInv'
  BY <1>1, <1>2 DEF BInv
<1>3. CASE UNCHANGED vars \/ Environment
  <2>1. UNCHANGED <<store, phase, hosts, listed, quantity, free, turn, overHost, wantage, todo>>
    BY <1>3 DEF vars, Environment, roundVars
  <2> QED
    BY <1>1, <2>1 DEF FillInv, ExactInv, MoveInv, Passed, Size, Left, average
<1>4. CASE Start \/ Finish
  BY <1>4 DEF Start, Finish, FillInv, ExactInv, MoveInv
<1>5. CASE NextDeadHost
  BY <1>1, <1>5, NextDeadHostExact DEF NextDeadHost, FillInv, MoveInv
<1>6. CASE ScanNext
  BY <1>1, <1>6, ScanNextExact DEF ScanNext, MoveInv
<1>7. CASE Plan \/ Pick \/ NextTurn
  BY <1>1, <1>7, PlanBalance, PickBalance, NextTurnBalance
<1>8. ASSUME NEW ok \in BOOLEAN, NEW p \in todo,
             \/ ReleaseDead(p, ok) \/ ScanKeep(p) \/ ScanRelease(p, ok)
             \/ BalancerRelease(p, ok) \/ BalancerAssign(p, ok)
      PROVE  FillInv' /\ ExactInv' /\ MoveInv'
  <2>1. CASE ScanKeep(p)
    BY <1>1, <2>1, ScanKeepExact DEF ScanKeep, FillInv, MoveInv
  <2>2. CASE ok = FALSE /\ ~ScanKeep(p)
    <3>1. Abort
      BY <1>8, <2>2 DEF ReleaseDead, ScanRelease, BalancerRelease, BalancerAssign
    <3> QED
      BY <3>1, BalanceEnds DEF Abort
  <2>3. CASE ReleaseDead(p, TRUE)
    BY <2>3 DEF ReleaseDead, FillInv, ExactInv, MoveInv
  <2>4. CASE ScanRelease(p, TRUE)
    BY <1>1, <2>4, ScanReleaseExact DEF ScanRelease, FillInv, MoveInv
  <2>5. CASE BalancerRelease(p, TRUE) \/ BalancerAssign(p, TRUE)
    BY <1>1, <2>5, ReleaseBalance, AssignBalance
  <2> QED
    BY <1>8, <2>1, <2>2, <2>3, <2>4, <2>5
<1> QED
  BY <1>3, <1>4, <1>5, <1>6, <1>7, <1>8 DEF Next, Round

(***************************************************************************)
(* Every reachable state of the scheduler satisfies the invariant of the    *)
(* round's arithmetic (scheduler.go:84-186).                                *)
(***************************************************************************)
THEOREM BalanceKept == Spec => []BInv
<1>1. Init => BInv
  BY BInit
<1>2. BInv /\ [Next]_vars => BInv'
  BY BStep
<1> QED
  BY <1>1, <1>2, PTL DEF Spec

\* If every host has k configs or more, that many are assigned.
LEMMA AssignedAtLeast ==
  ASSUME IInv, phase \in Balancing, NEW k \in Nat,
         \A h \in ToSet(hosts) : k =< Size(h)
  PROVE  Len(hosts) * k + Cardinality(free) =< Cardinality(listed)
<1> DEFINE part == [h \in ToSet(hosts) |-> store[h]]
<1>1. /\ ToSet(hosts) \subseteq Hosts /\ Cardinality(ToSet(hosts)) = Len(hosts)
      /\ IsFiniteSet(ToSet(hosts)) /\ Len(hosts) \in Nat
  <2>1. phase # "idle"
    BY DEF Balancing
  <2> QED
    BY <2>1, Members, HostsFacts, SchedulerAssumption, FS_Subset DEF IInv
<1>2. listed \in SUBSET Configs /\ free \subseteq listed /\ free \in SUBSET Configs
  BY DEF IInv, TypeOK, Partition
<1>3. part \in [ToSet(hosts) -> SUBSET (listed \ free)]
  BY <1>1 DEF IInv, Partition
<1>4. \A g, h \in ToSet(hosts) : g # h => part[g] \intersect part[h] = {}
  BY <1>1 DEF IInv, Partition, TypeOK
<1>5. \A h \in ToSet(hosts) : k =< Cardinality(part[h])
  BY DEF Size
<1>6. IsFiniteSet(listed \ free) /\ Cardinality(listed \ free) \in Nat
  BY <1>2, ConfigSets
<1>7. Len(hosts) * k =< Cardinality(listed \ free)
  <2> HIDE DEF part
  <2> QED
    BY <1>1, <1>3, <1>4, <1>5, <1>6, CountAtLeast
<1>8. Cardinality(listed \ free) = Cardinality(listed) - Cardinality(free)
  <2>1. listed \intersect free = free /\ IsFiniteSet(listed)
    BY <1>2, ConfigSets
  <2> QED
    BY <2>1, FS_Difference
<1>9. Cardinality(listed) \in Nat /\ Cardinality(free) \in Nat /\ Len(hosts) * k \in Nat
  BY <1>1, <1>2, ConfigSets
<1> QED
  BY <1>7, <1>8, <1>9

\* If no host has more than k and one has fewer, fewer are listed, once
\* nothing is free.
LEMMA ListedLess ==
  ASSUME IInv, phase \in Balancing, free = {}, NEW k \in Nat,
         \A h \in ToSet(hosts) : Size(h) =< k, \E h \in ToSet(hosts) : Size(h) < k
  PROVE  Cardinality(listed) < Len(hosts) * k
<1> DEFINE part == [h \in ToSet(hosts) |-> store[h]]
<1>1. /\ ToSet(hosts) \subseteq Hosts /\ Cardinality(ToSet(hosts)) = Len(hosts)
      /\ IsFiniteSet(ToSet(hosts)) /\ Len(hosts) \in Nat
  <2>1. phase # "idle"
    BY DEF Balancing
  <2> QED
    BY <2>1, Members, HostsFacts, SchedulerAssumption, FS_Subset DEF IInv
<1>2. listed \in SUBSET Configs /\ IsFiniteSet(listed)
  BY ConfigSets DEF IInv, TypeOK
<1>3. part \in [ToSet(hosts) -> SUBSET listed]
  BY <1>1 DEF IInv, Partition
<1>4. \A c \in listed : \E h \in ToSet(hosts) : c \in part[h]
  BY <1>1 DEF IInv, Partition
<1>5. /\ \A h \in ToSet(hosts) : Cardinality(part[h]) =< k
      /\ \E h \in ToSet(hosts) : Cardinality(part[h]) < k
  BY DEF Size
<1> HIDE DEF part
<1> QED
  BY <1>1, <1>2, <1>3, <1>4, <1>5, CountLess

(***************************************************************************)
(* However many hosts and configs there are and whatever a round finds, one *)
(* that ends without an error leaves fewer configs unassigned than there    *)
(* are hosts (scheduler.go:164-183).                                        *)
(***************************************************************************)
THEOREM LeftoverAlwaysBounded == Spec => []LeftoverBounded
<1>1. BInv => LeftoverBounded
  <2> SUFFICES ASSUME BInv, phase = "done" PROVE Cardinality(free) < Len(hosts)
    BY DEF LeftoverBounded
  <2>1. IInv /\ phase # "idle" /\ phase \in Balancing
    BY DEF BInv, RInv, Balancing
  <2>2. /\ Len(hosts) \in Nat \ {0} /\ average \in Nat /\ Cardinality(free) \in Nat
        /\ Cardinality(listed) \in Nat
    BY <2>1, RoundFacts, ConfigSets DEF IInv, TypeOK
  <2>3. CASE free = {}
    BY <2>2, <2>3, FS_EmptySet
  <2>4. CASE \A i \in 1 .. Len(hosts) : average =< Size(hosts[i])
    <3>1. \A h \in ToSet(hosts) : average =< Size(h)
      BY <2>1, <2>4, HostsFacts DEF IInv
    <3>2. Len(hosts) * average + Cardinality(free) =< Cardinality(listed)
      BY <2>1, <2>2, <3>1, AssignedAtLeast
    <3>3. Cardinality(listed) < Len(hosts) * average + Len(hosts)
      BY <2>2, AverageBounds DEF average
    <3>4. PICK x \in Nat : x = Len(hosts) * average
      BY <2>2
    <3> QED
      BY <2>2, <3>2, <3>3, <3>4
  <2> QED
    BY <2>3, <2>4 DEF BInv, FillInv
<1> QED
  BY <1>1, BalanceKept, PTL

\* In a settled assignment nothing is free and no host is out of bounds.
LEMMA SettledBounds ==
  ASSUME BInv, Settled, phase \in Balancing
  PROVE  /\ free = {}
         /\ \A h \in ToSet(hosts) : average =< Size(h) /\ Size(h) < average + 2
<1>1. /\ IInv /\ phase # "idle" /\ ToSet(hosts) = alive /\ listed = repo
  BY DEF BInv, RInv, SourceInv, Balancing
<1>2. /\ Len(hosts) \in Nat \ {0} /\ average \in Nat /\ ToSet(hosts) \subseteq Hosts
      /\ \A h \in Hosts : Size(h) \in Nat
      /\ Cardinality(listed) \in Nat
  BY <1>1, RoundFacts, HostsFacts, ConfigSets DEF IInv, TypeOK
<1>3. free = {}
  <2> SUFFICES ASSUME NEW c \in free PROVE FALSE
    OBVIOUS
  <2>1. c \in Configs /\ c \in repo
    BY <1>1 DEF IInv, TypeOK, Partition
  <2>2. Holders(c) = {}
    BY <1>1 DEF Holders, IInv, Partition
  <2> QED
    BY <2>1, <2>2, FS_EmptySet DEF Settled
<1>4. \A g, h \in ToSet(hosts) : Size(g) - Size(h) =< 1
  BY <1>1 DEF Settled, Size
<1>5. /\ Len(hosts) * average =< Cardinality(listed)
      /\ Cardinality(listed) < Len(hosts) * average + Len(hosts)
  BY <1>2, AverageBounds DEF average
<1>6. ASSUME NEW h \in ToSet(hosts), Size(h) < average PROVE FALSE
  <2>1. \A g \in ToSet(hosts) : Size(g) =< average
    BY <1>2, <1>4, <1>6
  <2>2. Cardinality(listed) < Len(hosts) * average
    BY <1>1, <1>2, <1>3, <1>6, <2>1, ListedLess
  <2>3. PICK x \in Nat : x = Len(hosts) * average
    BY <1>2
  <2> QED
    BY <1>2, <1>5, <2>2, <2>3
<1>7. ASSUME NEW h \in ToSet(hosts), Size(h) >= average + 2 PROVE FALSE
  <2>1. \A g \in ToSet(hosts) : average + 1 =< Size(g)
    BY <1>2, <1>4, <1>7
  <2>2. Len(hosts) * (average + 1) + Cardinality(free) =< Cardinality(listed)
    BY <1>1, <1>2, <2>1, AssignedAtLeast
  <2>3. Cardinality(free) = 0
    BY <1>3, FS_EmptySet
  <2>4. PICK x \in Nat : x = Len(hosts) * average
    BY <1>2
  <2>5. Len(hosts) * (average + 1) = x + Len(hosts)
    BY <1>2, <2>4
  <2> QED
    BY <1>2, <1>5, <2>2, <2>3, <2>4, <2>5
<1> QED
  BY <1>2, <1>3, <1>6, <1>7

\* A config of a settled assignment has one holder.
LEMMA SettledOnce ==
  ASSUME TypeOK, Settled, NEW c \in Configs, NEW g \in Hosts, NEW h \in Hosts,
         c \in store[g], c \in store[h]
  PROVE  g = h /\ c \in repo
<1>1. g \in Holders(c) /\ h \in Holders(c) /\ IsFiniteSet(Holders(c))
  BY SchedulerAssumption, FS_Subset DEF Holders
<1>2. Cardinality(Holders(c)) = IF c \in repo THEN 1 ELSE 0
  BY DEF Settled
<1>3. c \in repo
  BY <1>1, <1>2, FS_EmptySet
<1>4. PICK x : Holders(c) = {x}
  BY <1>1, <1>2, <1>3, FS_Singleton
<1> QED
  BY <1>1, <1>3, <1>4

(***************************************************************************)
(* For any number of hosts and configs: once an assignment is settled, no   *)
(* round of the scheduler moves, releases or assigns anything, not even a   *)
(* round that fails (scheduler.go:81-108, 132-160).                         *)
(***************************************************************************)
THEOREM SettledStaysQuiet == Spec => QuietWhenSettled
<1>1. ASSUME BInv, [Next]_vars, Settled PROVE UNCHANGED store
  <2>1. IInv /\ TypeOK
    BY <1>1 DEF BInv, RInv, IInv
  <2>2. ASSUME NEW ok \in BOOLEAN, NEW p \in todo, ReleaseDead(p, ok) PROVE UNCHANGED store
    <3>1. phase = "dead" /\ releaseConfig(p, ok) /\ p[1] \in Hosts \ alive
      BY <1>1, <2>1, <2>2, ReleaseType DEF ReleaseDead, BInv, RInv, RoundInv, SourceInv
    <3>2. store[p[1]] = {} /\ store \in [Hosts -> SUBSET Configs]
      BY <1>1, <2>1, <3>1 DEF Settled, TypeOK
    <3>3. [store EXCEPT ![p[1]] = @ \ {p[2]}] = store
      BY <3>2
    <3> QED
      BY <3>1, <3>3 DEF releaseConfig
  <2>3. ASSUME NEW ok \in BOOLEAN, NEW p \in todo, ScanRelease(p, ok) PROVE FALSE
    <3>1. /\ phase = "scan" /\ p[2] \notin free /\ p[1] = hosts[turn] /\ p[2] \in store[p[1]]
          /\ p[1] \in Hosts /\ p[2] \in Configs /\ p = <<p[1], p[2]>>
          /\ turn \in 1 .. Len(hosts)
      BY <2>1, <2>3, HostsFacts DEF ScanRelease, IInv, ScanInv, TypeOK
    <3>2. p[2] \in listed
      BY <1>1, <2>1, <3>1, SettledOnce DEF BInv, SourceInv
    <3>3. PICK i \in 1 .. turn : Keeps(i, p[2])
      BY <2>1, <3>1, <3>2 DEF IInv, ScanInv
    <3>4. i \in 1 .. Len(hosts) /\ i # turn
      BY <2>1, <3>1, <3>3, HostsFacts DEF Keeps
    <3>5. hosts[i] \in Hosts /\ hosts[i] # p[1] /\ p[2] \in store[hosts[i]]
      BY <2>1, <3>1, <3>3, <3>4, HostsFacts DEF Keeps, IInv, HostsOK
    <3> QED
      BY <1>1, <2>1, <3>1, <3>5, SettledOnce
  <2>4. ASSUME NEW ok \in BOOLEAN, NEW p \in todo, BalancerRelease(p, ok) PROVE FALSE
    <3>1. /\ phase = "release" /\ phase \in Balancing /\ todo # {}
          /\ p[1] = overHost /\ p[2] \in store[overHost] /\ overHost \in Hosts
      BY <2>1, <2>4 DEF BalancerRelease, Balancing, IInv, TurnInv
    <3>2. /\ free = {}
          /\ \A h \in ToSet(hosts) : average =< Size(h) /\ Size(h) < average + 2
      BY <1>1, <3>1, SettledBounds
    <3>3. overHost \in ToSet(hosts)
      BY <2>1, <3>1 DEF IInv, Partition
    <3>4. turn \in 1 .. Len(hosts)
      BY <2>1, <3>1, HostsFacts DEF IInv, TurnInv, TypeOK
    <3>5. hosts[turn] \in ToSet(hosts) /\ hosts[turn] \in Hosts
      BY <2>1, <3>4, HostsFacts
    <3>6. Size(hosts[turn]) < average \/ Size(overHost) >= average + 2
      BY <1>1, <3>1, <3>2 DEF BInv, MoveInv
    <3>7. /\ average \in Nat /\ Size(hosts[turn]) \in Nat /\ Size(overHost) \in Nat
      BY <2>1, <3>1, <3>5, RoundFacts
    <3> QED
      BY <3>2, <3>3, <3>5, <3>6, <3>7
  <2>5. ASSUME NEW ok \in BOOLEAN, NEW p \in todo, BalancerAssign(p, ok) PROVE FALSE
    <3>1. phase \in Balancing /\ p[2] \in free
      BY <2>1, <2>5 DEF BalancerAssign, Balancing, IInv, TurnInv
    <3> QED
      BY <1>1, <3>1, SettledBounds
  <2>6. CASE UNCHANGED vars \/ Environment
    BY <2>6 DEF vars, Environment
  <2>7. CASE Start \/ NextDeadHost \/ ScanNext \/ Plan \/ Pick \/ NextTurn \/ Finish
    BY <2>7 DEF Start, NextDeadHost, ScanNext, Plan, Pick, NextTurn, Finish
  <2>8. CASE \E p \in todo : ScanKeep(p)
    BY <2>8 DEF ScanKeep
  <2> QED
    BY <1>1, <2>2, <2>3, <2>4, <2>5, <2>6, <2>7, <2>8 DEF Next, Round
<1>2. BInv /\ [Next]_vars => [Settled => UNCHANGED store]_vars
  BY <1>1
<1>3. Spec => [][Settled => UNCHANGED store]_vars
  BY <1>2, BalanceKept, PTL DEF Spec
<1> QED
  BY <1>3 DEF QuietWhenSettled

=============================================================================
