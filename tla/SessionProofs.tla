--------------------------- MODULE SessionProofs ---------------------------
(***************************************************************************)
(* Proofs about Session for any hosts, datacenters, aggregation configs and *)
(* keys: the aggregations work on parsing results that no longer change,    *)
(* and what they send is made of all of them.  The second needs the first:  *)
(* a result was complete when it was sent, and stays complete only because  *)
(* wg.Wait leaves no parsing goroutine behind.                              *)
(*                                                                         *)
(* Proofs about Discovery for any sessions, groups, geos and answers: the   *)
(* lists of hosts have each host as often as rows of the answers stand for  *)
(* it.  This is a matter of counting: selecting rows numbers them anew      *)
(* (Ranks), grouping spreads them over the datacenters (GroupedCount), and  *)
(* merging puts lists one after the other (ConcatCount).                    *)
(***************************************************************************)
EXTENDS DispatchServices, FiniteSetTheorems, SequenceTheorems, TLAPS

TypeInv ==
  /\ pc \in {"params", "parsing", "aggregating", "done", "failed"}
  /\ hosts \subseteq Hosts
  /\ parsing \in [Hosts -> {"idle", "todo", "running", "ok", "failed"}]
  /\ data \subseteq Hosts \X AllKeys
  /\ agg \in [AggConfigs -> {"idle", "running", "ok", "failed"}]
  /\ DOMAIN sent = AggConfigs

\* Nothing is parsed but the hosts of the session, and only until wg.Wait.
ParsingInv ==
  /\ \A h \in Hosts \ hosts : parsing[h] = "idle"
  /\ pc # "parsing" => \A h \in Hosts : parsing[h] \notin {"todo", "running"}

\* Nothing is aggregated before wg.Wait.
AggregatingInv ==
  pc \in {"params", "parsing", "failed"} =>
    \A a \in AggConfigs : agg[a] = "idle" /\ sent[a] = {}

\* What was sent are requests over the data as it is now.
SentInv == \A a \in AggConfigs : sent[a] \subseteq Requests(a)

IInv == TypeInv /\ ParsingInv /\ AggregatingInv /\ SentInv

-----------------------------------------------------------------------------

LEMMA InitIInv == Init => IInv
BY DEF Init, IInv, TypeInv, ParsingInv, AggregatingInv, SentInv

\* The requests depend on the data only.
LEMMA SameRequests ==
  ASSUME data' = data PROVE \A a \in AggConfigs : Requests(a)' = Requests(a)
BY DEF Requests, HostsWith, Request

\* The goroutine of a parsing: it ends before any aggregation begins.
LEMMA ParsingStep ==
  ASSUME IInv, NEW h \in Hosts, StartParsing(h) \/ ParsingReply(h) \/ ParsingError(h)
  PROVE  IInv' /\ pc = "parsing"
<1>1. TypeInv /\ ParsingInv /\ AggregatingInv /\ SentInv
  BY DEF IInv
<1>2. /\ parsing[h] \in {"todo", "running"} /\ UNCHANGED <<pc, hosts, agg, sent>>
      /\ \E r \in {"running", "ok", "failed"} : parsing' = [parsing EXCEPT ![h] = r]
  BY DEF StartParsing, ParsingReply, ParsingError
<1>3. pc = "parsing" /\ h \in hosts
  BY <1>1, <1>2 DEF ParsingInv
<1>4. data' \subseteq Hosts \X AllKeys
  BY <1>1 DEF TypeInv, StartParsing, ParsingReply, ParsingError
<1>5. TypeInv'
  BY <1>1, <1>2, <1>4 DEF TypeInv
<1>6. ParsingInv' /\ AggregatingInv'
  BY <1>1, <1>2, <1>3 DEF TypeInv, ParsingInv, AggregatingInv
<1>7. SentInv'
  BY <1>2, <1>3, <1>1 DEF SentInv, AggregatingInv
<1> QED
  BY <1>3, <1>5, <1>6, <1>7 DEF IInv

\* Dispatch itself leaves the data alone.
LEMMA DispatchStep ==
  ASSUME IInv, ParamsFail \/ Params \/ StartAggregating \/ Finish \/ Deadline
  PROVE  IInv' /\ data' = data
<1>1. TypeInv /\ ParsingInv /\ AggregatingInv /\ SentInv
  BY DEF IInv
<1>2. data' = data /\ sent' = sent
  BY DEF ParamsFail, Params, StartAggregating, Finish, Deadline
<1>3. SentInv'
  BY <1>1, <1>2, SameRequests DEF SentInv
<1>4. CASE ParamsFail \/ Finish \/ Deadline
  <2>1. TypeInv'
    BY <1>1, <1>4 DEF TypeInv, ParamsFail, Finish, Deadline
  <2>2. ParsingInv' /\ AggregatingInv'
    BY <1>1, <1>4 DEF ParsingInv, AggregatingInv, ParamsFail, Finish, Deadline
  <2> QED
    BY <1>2, <1>3, <2>1, <2>2 DEF IInv
<1>5. CASE Params
  <2>1. PICK found \in SUBSET Hosts :
          /\ hosts' = found
          /\ parsing' = [h \in Hosts |-> IF h \in found THEN "todo" ELSE "idle"]
          /\ pc' = IF found = {} THEN "failed" ELSE "parsing"
    BY <1>5 DEF Params
  <2>2. pc = "params" /\ agg' = agg
    BY <1>5 DEF Params
  <2>3. TypeInv'
    BY <1>1, <1>2, <2>1, <2>2 DEF TypeInv
  <2>4. ParsingInv' /\ AggregatingInv'
    BY <1>1, <1>2, <2>1, <2>2 DEF ParsingInv, AggregatingInv
  <2> QED
    BY <1>2, <1>3, <2>3, <2>4 DEF IInv
<1>6. CASE StartAggregating
  <2>1. /\ \A h \in hosts : parsing[h] \in {"ok", "failed"}
        /\ pc' = "aggregating" /\ UNCHANGED <<hosts, parsing>>
        /\ agg' = [a \in AggConfigs |-> "running"]
    BY <1>6 DEF StartAggregating
  <2>2. TypeInv'
    BY <1>1, <1>2, <2>1 DEF TypeInv
  <2>3. ParsingInv' /\ AggregatingInv'
    BY <1>1, <2>1 DEF ParsingInv, AggregatingInv
  <2> QED
    BY <1>2, <1>3, <2>2, <2>3 DEF IInv
<1> QED
  BY <1>4, <1>5, <1>6

\* The goroutine of an aggregation.
LEMMA AggregationStep ==
  ASSUME IInv, NEW a \in AggConfigs, Aggregated(a) \/ AggregationError(a)
  PROVE  IInv' /\ data' = data
<1>1. TypeInv /\ ParsingInv /\ AggregatingInv /\ SentInv
  BY DEF IInv
<1>2. /\ agg[a] = "running" /\ UNCHANGED <<pc, hosts, parsing, data>>
      /\ \E r \in {"ok", "failed"} : agg' = [agg EXCEPT ![a] = r]
      /\ \/ sent' = sent
         \/ \E done \in SUBSET Requests(a) : sent' = [sent EXCEPT ![a] = done]
  BY DEF Aggregated, AggregationError
<1>3. pc \notin {"params", "parsing", "failed"}
  BY <1>1, <1>2 DEF AggregatingInv
<1>4. TypeInv'
  BY <1>1, <1>2 DEF TypeInv
<1>5. ParsingInv' /\ AggregatingInv'
  BY <1>1, <1>2, <1>3 DEF ParsingInv, AggregatingInv
<1>6. \A b \in AggConfigs : sent'[b] \subseteq Requests(b)
  BY <1>1, <1>2 DEF SentInv, TypeInv
<1>7. SentInv'
  BY <1>2, <1>6, SameRequests DEF SentInv
<1> QED
  BY <1>2, <1>4, <1>5, <1>7 DEF IInv

\* Every step, one case per action.
LEMMA InductiveStep == ASSUME IInv, [Next]_vars PROVE IInv' /\ (pc = "aggregating" => data' = data)
<1>1. CASE UNCHANGED vars
  <2>1. SentInv'
    BY <1>1, SameRequests DEF vars, IInv, SentInv
  <2> QED
    BY <1>1, <2>1 DEF vars, IInv, TypeInv, ParsingInv, AggregatingInv
<1> QED
  BY <1>1, ParsingStep, DispatchStep, AggregationStep DEF Next

\* A request of key k and what it is made of.
LEMMA RequestFacts ==
  ASSUME IInv, NEW a \in AggConfigs, NEW k \in Keys[a], NEW r \in sent[a], r.key = k
  PROVE  /\ r.type = "metahost" => r.from = HostsWith(k)
         /\ r.type = "datacenter" => r.from = {h \in HostsWith(k) : Dc[h] = r.name}
<1>1. r \in Requests(a)
  BY DEF IInv, SentInv
<1>2. PICK j \in Keys[a] :
        \/ \E h \in IF j \in PerHost THEN HostsWith(j) ELSE {} : r = Request(j, "host", h, {h})
        \/ \E dc \in IF j \in SkipDc THEN {} ELSE {Dc[h] : h \in HostsWith(j)} :
             r = Request(j, "datacenter", dc, {h \in HostsWith(j) : Dc[h] = dc})
        \/ \E hs \in {HostsWith(j)} \ {{}} : r = Request(j, "metahost", "metahost", hs)
  BY <1>1 DEF Requests
<1>3. CASE \E h \in IF j \in PerHost THEN HostsWith(j) ELSE {} : r = Request(j, "host", h, {h})
  BY <1>3 DEF Request
<1>4. CASE \E dc \in IF j \in SkipDc THEN {} ELSE {Dc[h] : h \in HostsWith(j)} :
             r = Request(j, "datacenter", dc, {h \in HostsWith(j) : Dc[h] = dc})
  BY <1>4 DEF Request
<1>5. CASE \E hs \in {HostsWith(j)} \ {{}} : r = Request(j, "metahost", "metahost", hs)
  BY <1>5 DEF Request
<1> QED
  BY <1>2, <1>3, <1>4, <1>5

LEMMA Complete == IInv => SentIsComplete
<1> SUFFICES ASSUME IInv, NEW a \in AggConfigs, NEW k \in Keys[a]
             PROVE  LET of(type) == {r \in sent[a] : r.key = k /\ r.type = type}
                        dcs == of("datacenter")
                    IN  /\ \A r \in of("metahost") : r.from = {h \in Hosts : <<h, k>> \in data}
                        /\ \A r, s \in dcs : r # s => r.from \intersect s.from = {}
                        /\ of("metahost") # {} /\ {r.name : r \in dcs} = {Dc[h] : h \in HostsWith(k)} =>
                             UNION {r.from : r \in dcs} = HostsWith(k)
  BY DEF SentIsComplete
<1> DEFINE of(type) == {r \in sent[a] : r.key = k /\ r.type = type}
           dcs == of("datacenter")
<1>1. HostsWith(k) = {h \in Hosts : <<h, k>> \in data}
  <2>1. \A q \in data : q = <<q[1], q[2]>> /\ q[1] \in Hosts
    BY DEF IInv, TypeInv
  <2> QED
    BY <2>1 DEF HostsWith
<1>2. \A r \in of("metahost") : r.from = {h \in Hosts : <<h, k>> \in data}
  BY <1>1, RequestFacts
<1>3. \A r \in dcs : r.from = {h \in HostsWith(k) : Dc[h] = r.name}
  BY RequestFacts
<1>4. \A r, s \in dcs : r # s => r.from \intersect s.from = {}
  <2> SUFFICES ASSUME NEW r \in dcs, NEW s \in dcs, r # s, NEW h \in r.from, h \in s.from PROVE FALSE
    OBVIOUS
  <2>1. r.name = Dc[h] /\ s.name = Dc[h]
    BY <1>3
  <2>2. r.from = s.from
    BY <1>3, <2>1
  <2>3. r.key = s.key /\ r.type = s.type /\ r.name = s.name
    BY <2>1
  <2>4. \A q \in sent[a] : q = Request(q.key, q.type, q.name, q.from)
    BY DEF IInv, SentInv, Requests, Request
  <2> QED
    BY <2>2, <2>3, <2>4 DEF Request
<1>5. ASSUME {r.name : r \in dcs} = {Dc[h] : h \in HostsWith(k)}
      PROVE  UNION {r.from : r \in dcs} = HostsWith(k)
  BY <1>3, <1>5
<1> QED
  BY <1>2, <1>4, <1>5

(***************************************************************************)
(* A result that reached the senders is made of every host that was parsed  *)
(* for its key, and stays so to the end of the session, whatever order the  *)
(* workers answer in and whatever they fail (client.go:230-262,             *)
(* aggregating.go:57-160).                                                  *)
(***************************************************************************)
THEOREM SentOverAllHosts == Spec => []SentIsComplete
BY InitIInv, InductiveStep, Complete, PTL DEF Spec

(***************************************************************************)
(* Nobody writes the parsing results that the aggregations share, also not  *)
(* a parsing whose deadline passed (client.go:217-262).                     *)
(***************************************************************************)
THEOREM SharedResultsStable == Spec => ResultsStable
<1>1. ASSUME IInv, [Next]_vars PROVE [pc = "aggregating" => UNCHANGED data]_vars
  BY <1>1, InductiveStep
<1>2. Spec => [][pc = "aggregating" => UNCHANGED data]_vars
  BY InitIInv, InductiveStep, <1>1, PTL DEF Spec
<1> QED
  BY <1>2 DEF ResultsStable

-----------------------------------------------------------------------------
(* Counting.  These facts are about sets of numbers and selections. *)

\* The instance counts as this module does.
LEMMA DCounts == \A T : D!Cardinality(T) = Cardinality(T)
BY DEF D!Cardinality, Cardinality

\* The n-th element of I.
At(I, n) == D!Only(D!Nth(I, n))

\* The ranks of the elements of a finite set of numbers are 1, 2, and so on.
LEMMA Ranks ==
  ASSUME NEW I \in SUBSET Nat, IsFiniteSet(I)
  PROVE  /\ Cardinality(I) \in Nat
         /\ \A n \in 1 .. Cardinality(I) : At(I, n) \in I
         /\ \A m, n \in 1 .. Cardinality(I) : At(I, m) = At(I, n) => m = n
         /\ \A i \in I : \E n \in 1 .. Cardinality(I) : At(I, n) = i
<1> DEFINE k == Cardinality(I)
           Upto(i) == {j \in I : j =< i}
           rank == [i \in I |-> Cardinality(Upto(i))]
<1>1. k \in Nat
  BY FS_CardinalityType
<1>2. \A i \in I : IsFiniteSet(Upto(i)) /\ Cardinality(Upto(i)) \in Nat /\ Cardinality(Upto(i)) =< k
  <2> TAKE i \in I
  <2>1. Upto(i) \in SUBSET I
    OBVIOUS
  <2> HIDE DEF Upto
  <2> QED
    BY <2>1, FS_Subset, FS_CardinalityType
<1>3. \A i \in I : rank[i] \in 1 .. k
  <2> TAKE i \in I
  <2>1. i \in Upto(i)
    OBVIOUS
  <2>2. rank[i] = Cardinality(Upto(i))
    OBVIOUS
  <2> HIDE DEF Upto, rank
  <2>3. Cardinality(Upto(i)) # 0
    BY <1>2, <2>1, FS_EmptySet
  <2> QED
    BY <1>1, <1>2, <2>2, <2>3
<1>4. \A i, j \in I : i < j => rank[i] # rank[j]
  <2> SUFFICES ASSUME NEW i \in I, NEW j \in I, i < j
               PROVE  rank[i] # rank[j]
    OBVIOUS
  <2>1. Upto(i) \in SUBSET Upto(j) /\ j \in Upto(j) /\ j \notin Upto(i)
    <3>1. i \in Nat /\ j \in Nat /\ ~(j =< i) /\ j =< j
      OBVIOUS
    <3>2. \A m \in I : m =< i => m =< j
      OBVIOUS
    <3> QED
      BY <3>1, <3>2
  <2>2. rank[i] = Cardinality(Upto(i)) /\ rank[j] = Cardinality(Upto(j))
    OBVIOUS
  <2> HIDE DEF Upto, rank
  <2> QED
    BY <1>2, <2>1, <2>2, FS_Subset
<1>5. \A i, j \in I : rank[i] = rank[j] => i = j
  <2> HIDE DEF rank
  <2> QED
    BY <1>4
<1>6. rank \in [I -> 1 .. k]
  BY <1>3
<1>7. rank \in Surjection(I, 1 .. k)
  <2> HIDE DEF rank, k
  <2>1. rank \in Injection(I, 1 .. k)
    BY <1>5, <1>6 DEF Injection, IsInjective
  <2>2. IsFiniteSet(1 .. k) /\ Cardinality(1 .. k) = k
    BY <1>1, FS_Interval
  <2> QED
    BY <2>1, <2>2, FS_Injection DEF k
<1>8. \A n \in 1 .. k : \E i \in I : rank[i] = n
  <2> HIDE DEF rank, k
  <2> QED
    BY <1>7 DEF Surjection
<1>9. \A n \in 1 .. k : D!Nth(I, n) = {i \in I : rank[i] = n}
  BY DCounts DEF D!Nth
<1> HIDE DEF rank, k
<1>10. \A n \in 1 .. k : At(I, n) \in I /\ rank[At(I, n)] = n
  <2> TAKE n \in 1 .. k
  <2>1. D!Nth(I, n) # {}
    BY <1>8, <1>9
  <2>2. At(I, n) \in D!Nth(I, n)
    BY <2>1 DEF At, D!Only
  <2> QED
    BY <1>9, <2>2
<1>11. \A i \in I : At(I, rank[i]) = i
  BY <1>3, <1>5, <1>10
<1> QED
  BY <1>1, <1>3, <1>10, <1>11 DEF k

\* Selecting keeps every index once.
LEMMA SelectedCount ==
  ASSUME NEW s, NEW I \in SUBSET Nat, IsFiniteSet(I), NEW A \in SUBSET I
  PROVE  /\ DOMAIN D!Selected(s, I) = 1 .. Cardinality(I) /\ Cardinality(I) \in Nat
         /\ \A n \in 1 .. Cardinality(I) : At(I, n) \in I /\ D!Selected(s, I)[n] = s[At(I, n)]
         /\ Cardinality({n \in 1 .. Cardinality(I) : At(I, n) \in A}) = Cardinality(A)
<1> DEFINE k == Cardinality(I)
           B == {n \in 1 .. k : At(I, n) \in A}
           f == [n \in B |-> At(I, n)]
<1>1. /\ k \in Nat
      /\ \A n \in 1 .. k : At(I, n) \in I
      /\ \A m, n \in 1 .. k : At(I, m) = At(I, n) => m = n
      /\ \A i \in I : \E n \in 1 .. k : At(I, n) = i
  BY Ranks
<1>2. D!Selected(s, I) = [n \in 1 .. k |-> s[At(I, n)]]
  BY DCounts DEF D!Selected, At
<1>3. IsFiniteSet(B)
  <2>1. IsFiniteSet(1 .. k) /\ B \in SUBSET (1 .. k)
    BY <1>1, FS_Interval
  <2> HIDE DEF B
  <2> QED
    BY <2>1, FS_Subset
<1>4. f \in Bijection(B, A)
  <2>1. f \in [B -> A] /\ \A m, n \in B : f[m] = f[n] => m = n
    BY <1>1
  <2>2. \A a \in A : \E n \in B : f[n] = a
    BY <1>1
  <2> HIDE DEF f, B
  <2> QED
    BY <2>1, <2>2 DEF Bijection, Injection, IsInjective, Surjection
<1>5. Cardinality(A) = Cardinality(B)
  <2> HIDE DEF f, B
  <2> QED
    BY <1>3, <1>4, FS_Bijection DEF ExistsBijection
<1> QED
  BY <1>1, <1>2, <1>5

-----------------------------------------------------------------------------
(* Lists, and where they have a value *)

IsSeq(q) == \E S : q \in Seq(S)

Places(q, v) == {i \in DOMAIN q : q[i] = v}

LEMMA ListFacts ==
  ASSUME NEW q, IsSeq(q)
  PROVE  /\ Len(q) \in Nat /\ DOMAIN q = 1 .. Len(q)
         /\ \A v : IsFiniteSet(Places(q, v)) /\ Cardinality(Places(q, v)) \in Nat
<1>1. PICK S : q \in Seq(S)
  BY DEF IsSeq
<1>2. Len(q) \in Nat /\ DOMAIN q = 1 .. Len(q)
  BY <1>1
<1>3. IsFiniteSet(1 .. Len(q))
  BY <1>2, FS_Interval
<1>4. \A v : Places(q, v) \in SUBSET (1 .. Len(q))
  BY <1>2 DEF Places
<1> QED
  BY <1>2, <1>3, <1>4, FS_Subset, FS_CardinalityType

\* A function on 1 .. n is a list.
LEMMA FunctionIsList ==
  ASSUME NEW n \in Nat, NEW f, f = [i \in 1 .. n |-> f[i]]
  PROVE  IsSeq(f) /\ Len(f) = n
<1> DEFINE S == {f[i] : i \in 1 .. n}
<1>1. f \in [1 .. n -> S]
  OBVIOUS
<1> HIDE DEF S
<1> QED
  BY <1>1, SeqDef DEF IsSeq

LEMMA ConcatCount ==
  ASSUME NEW p, NEW q, IsSeq(p), IsSeq(q), NEW v
  PROVE  /\ IsSeq(p \o q)
         /\ Cardinality(Places(p \o q, v)) = Cardinality(Places(p, v)) + Cardinality(Places(q, v))
<1> DEFINE P == Places(p, v)
           Q == Places(q, v)
           f == [i \in Q |-> Len(p) + i]
           R == {Len(p) + i : i \in Q}
<1>1. /\ Len(p) \in Nat /\ DOMAIN p = 1 .. Len(p) /\ IsFiniteSet(P) /\ Cardinality(P) \in Nat
      /\ Len(q) \in Nat /\ DOMAIN q = 1 .. Len(q) /\ IsFiniteSet(Q) /\ Cardinality(Q) \in Nat
  BY ListFacts
<1>2. PICK S : p \in Seq(S) /\ q \in Seq(S)
  <2>1. PICK A : p \in Seq(A)
    BY DEF IsSeq
  <2>2. PICK B : q \in Seq(B)
    BY DEF IsSeq
  <2>3. A \subseteq A \union B /\ B \subseteq A \union B
    OBVIOUS
  <2>4. p \in Seq(A \union B) /\ q \in Seq(A \union B)
    BY <2>1, <2>2, <2>3, SeqMonotonic
  <2> QED
    BY <2>4
<1>3. /\ p \o q \in Seq(S) /\ Len(p \o q) = Len(p) + Len(q)
      /\ \A i \in 1 .. Len(p) : (p \o q)[i] = p[i]
      /\ \A i \in 1 .. Len(q) : (p \o q)[Len(p) + i] = q[i]
      /\ DOMAIN (p \o q) = 1 .. Len(p) + Len(q)
  BY <1>1, <1>2, ConcatProperties
<1>4. Places(p \o q, v) = P \union R
  <2>1. \A i \in 1 .. Len(p) + Len(q) : i \in 1 .. Len(p) \/ \E j \in 1 .. Len(q) : i = Len(p) + j
    <3> TAKE i \in 1 .. Len(p) + Len(q)
    <3>1. i > Len(p) => i - Len(p) \in 1 .. Len(q) /\ i = Len(p) + (i - Len(p))
      BY <1>1
    <3> QED
      BY <1>1, <3>1
  <2>2. \A j \in 1 .. Len(q) : Len(p) + j \in 1 .. Len(p) + Len(q)
    BY <1>1
  <2>3. \A i \in 1 .. Len(p) : i \in 1 .. Len(p) + Len(q)
    BY <1>1
  <2> DEFINE r == p \o q
  <2>4. /\ DOMAIN r = 1 .. Len(p) + Len(q)
        /\ \A i \in 1 .. Len(p) : r[i] = p[i]
        /\ \A i \in 1 .. Len(q) : r[Len(p) + i] = q[i]
    BY <1>3
  <2> HIDE DEF r
  <2>5. ASSUME NEW i \in Places(r, v) PROVE i \in P \union R
    <3>1. i \in 1 .. Len(p) + Len(q) /\ r[i] = v
      BY <2>4 DEF Places
    <3>2. CASE i \in 1 .. Len(p)
      BY <1>1, <2>4, <3>1, <3>2 DEF Places
    <3>3. CASE \E j \in 1 .. Len(q) : i = Len(p) + j
      <4>1. PICK j \in 1 .. Len(q) : i = Len(p) + j
        BY <3>3
      <4>2. j \in Q
        BY <1>1, <2>4, <3>1, <4>1 DEF Places
      <4> QED
        BY <4>1, <4>2
    <3> QED
      BY <2>1, <3>1, <3>2, <3>3
  <2>6. ASSUME NEW i \in P PROVE i \in Places(r, v)
    BY <1>1, <2>3, <2>4 DEF Places
  <2>7. ASSUME NEW j \in Q PROVE Len(p) + j \in Places(r, v)
    BY <1>1, <2>2, <2>4 DEF Places
  <2>8. Places(r, v) = P \union R
    <3> HIDE DEF P, Q
    <3> QED
      BY <2>5, <2>6, <2>7
  <2> QED
    BY <2>8 DEF r
<1>5. P \intersect R = {}
  BY <1>1 DEF Places
<1>6. IsFiniteSet(R) /\ Cardinality(R) = Cardinality(Q)
  <2>1. Q \subseteq Nat
    BY <1>1 DEF Places
  <2>2. f \in [Q -> R] /\ \A i, j \in Q : f[i] = f[j] => i = j
    BY <1>1, <2>1
  <2>3. \A r \in R : \E i \in Q : f[i] = r
    OBVIOUS
  <2> HIDE DEF f, Q, R
  <2>4. f \in Bijection(Q, R)
    BY <2>2, <2>3 DEF Bijection, Injection, IsInjective, Surjection
  <2> QED
    BY <1>1, <2>4, FS_Bijection DEF ExistsBijection
<1> HIDE DEF P, Q, R, f
<1>7. Cardinality(P \union R) = Cardinality(P) + Cardinality(Q)
  <2>1. Cardinality(P \union R) = Cardinality(P) + Cardinality(R) - Cardinality(P \intersect R)
    BY <1>1, <1>6, FS_Union
  <2>2. Cardinality(P \intersect R) = 0
    BY <1>5, FS_EmptySet
  <2> QED
    BY <1>1, <1>6, <2>1, <2>2
<1> QED
  BY <1>3, <1>4, <1>7 DEF IsSeq, P, Q

-----------------------------------------------------------------------------
(* What a Fetch makes of an answer *)

\* The pairs that name host h in datacenter d.
PairsFor(pairs, d, h) == {i \in DOMAIN pairs : pairs[i][1] = d /\ pairs[i][2] = h}

\* Grouped has every pair once, in the list of its datacenter.
LEMMA GroupedCount ==
  ASSUME NEW pairs, NEW k \in Nat, DOMAIN pairs = 1 .. k, NEW d, NEW h
  PROVE  /\ IsSeq(D!Of(D!Grouped(pairs), d))
         /\ Cardinality(Places(D!Of(D!Grouped(pairs), d), h)) =
              Cardinality(PairsFor(pairs, d, h))
<1> DEFINE I == {i \in 1 .. k : pairs[i][1] = d}
           A == {i \in 1 .. k : pairs[i][1] = d /\ pairs[i][2] = h}
           mine == D!Selected(pairs, I)
           list == [i \in DOMAIN mine |-> mine[i][2]]
           dcs == {p[1] : p \in D!ToSet(pairs)}
<1>0. PairsFor(pairs, d, h) = A
  BY DEF PairsFor
<1>1. dcs = {pairs[i][1] : i \in 1 .. k}
  BY DEF D!ToSet
<1>2. I \in SUBSET Nat /\ IsFiniteSet(I) /\ A \in SUBSET I
  <2>1. IsFiniteSet(1 .. k) /\ I \in SUBSET (1 .. k)
    BY FS_Interval
  <2> QED
    BY <2>1, FS_Subset
<1>3. CASE d \in dcs
  <2>1. D!Of(D!Grouped(pairs), d) = list
    <3>1. D!Grouped(pairs) = [e \in dcs |->
            LET ours == D!Selected(pairs, {i \in 1 .. k : pairs[i][1] = e})
            IN  [i \in DOMAIN ours |-> ours[i][2]]]
      BY DEF D!Grouped
    <3>2. DOMAIN D!Grouped(pairs) = dcs /\ D!Grouped(pairs)[d] = list
      BY <1>3, <3>1
    <3> QED
      BY <1>3, <3>2 DEF D!Of
  <2> HIDE DEF A
  <2>2. /\ DOMAIN mine = 1 .. Cardinality(I) /\ Cardinality(I) \in Nat
        /\ \A n \in 1 .. Cardinality(I) : At(I, n) \in I /\ mine[n] = pairs[At(I, n)]
        /\ Cardinality({n \in 1 .. Cardinality(I) : At(I, n) \in A}) = Cardinality(A)
    <3> HIDE DEF I
    <3> QED
      BY <1>2, SelectedCount
  <2> USE DEF A
  <2>3. list = [i \in 1 .. Cardinality(I) |-> mine[i][2]]
    <3> HIDE DEF I, mine
    <3> QED
      BY <2>2
  <2>4. Places(list, h) = {n \in 1 .. Cardinality(I) : At(I, n) \in A}
    <3>1. \A n \in 1 .. Cardinality(I) : At(I, n) \in I /\ list[n] = pairs[At(I, n)][2]
      BY <2>2, <2>3
    <3>2. \A i \in I : i \in A <=> pairs[i][2] = h
      OBVIOUS
    <3>3. DOMAIN list = 1 .. Cardinality(I)
      BY <2>3
    <3> HIDE DEF I, A, list
    <3> QED
      BY <3>1, <3>2, <3>3 DEF Places
  <2>5. IsSeq(list)
    <3>1. PICK f : f = list
      OBVIOUS
    <3>2. f = [i \in 1 .. Cardinality(I) |-> f[i]]
      <4> HIDE DEF list, I
      <4>1. f = [i \in 1 .. Cardinality(I) |-> mine[i][2]]
        BY <2>3, <3>1
      <4> QED
        BY <4>1
    <3> HIDE DEF list, I
    <3> QED
      BY <2>2, <3>1, <3>2, FunctionIsList
  <2> QED
    BY <1>0, <2>1, <2>2, <2>4, <2>5
<1>4. CASE d \notin dcs
  <2>1. DOMAIN D!Grouped(pairs) = dcs
    BY DEF D!Grouped
  <2>2. D!Of(D!Grouped(pairs), d) = <<>>
    BY <1>4, <2>1 DEF D!Of
  <2>3. A = {}
    BY <1>1, <1>4
  <2>4. Places(<<>>, h) = {} /\ IsSeq(<<>>)
    BY DEF Places, IsSeq
  <2> QED
    BY <1>0, <2>2, <2>3, <2>4
<1> QED
  BY <1>3, <1>4

\* The pairs are what dc and host make of rows.
MadeOf(pairs, rows, dc, host) ==
  /\ DOMAIN pairs = DOMAIN rows
  /\ \A n \in DOMAIN rows : pairs[n][1] = dc[rows[n]] /\ pairs[n][2] = host[rows[n]]

\* The rows in J of which they make host h in datacenter d.
RowsFor(body, J, dc, host, d, h) == {j \in J : dc[body[j]] = d /\ host[body[j]] = h}

\* The same for the pairs made of the rows in J.
LEMMA RowsCount ==
  ASSUME NEW body, IsSeq(body), NEW J \in SUBSET DOMAIN body, NEW dc, NEW host, NEW pairs,
         MadeOf(pairs, D!Selected(body, J), dc, host), NEW d, NEW h
  PROVE  /\ IsSeq(D!Of(D!Grouped(pairs), d))
         /\ Cardinality(Places(D!Of(D!Grouped(pairs), d), h)) =
              Cardinality(RowsFor(body, J, dc, host, d, h))
<1> DEFINE k == Cardinality(J)
           A == RowsFor(body, J, dc, host, d, h)
           rows == D!Selected(body, J)
<1>1. J \in SUBSET Nat /\ IsFiniteSet(J)
  <2>1. Len(body) \in Nat /\ DOMAIN body = 1 .. Len(body)
    BY ListFacts
  <2>2. IsFiniteSet(1 .. Len(body))
    BY <2>1, FS_Interval
  <2> QED
    BY <2>1, <2>2, FS_Subset
<1>2. A \in SUBSET J
  BY DEF RowsFor
<1>3. /\ DOMAIN rows = 1 .. k /\ k \in Nat
      /\ \A n \in 1 .. k : At(J, n) \in J /\ rows[n] = body[At(J, n)]
      /\ Cardinality({n \in 1 .. k : At(J, n) \in A}) = Cardinality(A)
  <2> HIDE DEF A
  <2> QED
    BY <1>1, <1>2, SelectedCount
<1>4. /\ DOMAIN pairs = DOMAIN rows
      /\ \A n \in DOMAIN rows : pairs[n][1] = dc[rows[n]] /\ pairs[n][2] = host[rows[n]]
  BY DEF MadeOf
<1> HIDE DEF k, rows
<1>5. /\ DOMAIN pairs = 1 .. k /\ k \in Nat
      /\ PairsFor(pairs, d, h) = {n \in 1 .. k : At(J, n) \in A}
  BY <1>3, <1>4 DEF PairsFor, RowsFor
<1>6. /\ IsSeq(D!Of(D!Grouped(pairs), d))
      /\ Cardinality(Places(D!Of(D!Grouped(pairs), d), h)) = Cardinality(PairsFor(pairs, d, h))
  BY <1>5, GroupedCount
<1> QED
  BY <1>3, <1>5, <1>6

\* The rows of an answer for geo g that stand for host h in datacenter d.
Standing(k, g, body, d, h) == {j \in DOMAIN body : <<d, h>> \in D!Meaning(k, g, body[j])}

\* What an answer looks like: a list, of addresses if ZooKeeper's.
WellFormed(k, body) ==
  /\ IsSeq(body)
  /\ k = "zk" => \A i \in DOMAIN body : IsSeq(body[i]) /\ Len(body[i]) \in 1 .. 2

\* Selected rows are rows.
LEMMA RowsOfBody ==
  ASSUME NEW body, IsSeq(body), NEW J \in SUBSET DOMAIN body
  PROVE  \A n \in DOMAIN D!Selected(body, J) :
           D!Selected(body, J)[n] \in {body[j] : j \in DOMAIN body}
<1>1. J \in SUBSET Nat /\ IsFiniteSet(J)
  <2>1. Len(body) \in Nat /\ DOMAIN body = 1 .. Len(body)
    BY ListFacts
  <2>2. IsFiniteSet(1 .. Len(body))
    BY <2>1, FS_Interval
  <2> QED
    BY <2>1, <2>2, FS_Subset
<1>2. PICK A \in SUBSET J : TRUE
  OBVIOUS
<1>3. /\ DOMAIN D!Selected(body, J) = 1 .. Cardinality(J)
      /\ \A n \in 1 .. Cardinality(J) : At(J, n) \in J /\ D!Selected(body, J)[n] = body[At(J, n)]
  BY <1>1, <1>2, SelectedCount
<1> QED
  BY <1>3

\* For each kind: the lists have a host as often as rows stand for it.
LEMMA TSVCount ==
  ASSUME NEW k, NEW g, NEW body, IsSeq(body), k = "tsv", NEW d, NEW h
  PROVE  /\ IsSeq(D!Of(D!Parsed(k, g, body), d))
         /\ Cardinality(Places(D!Of(D!Parsed(k, g, body), d), h)) =
              Cardinality(Standing(k, g, body, d, h))
<1> DEFINE J == {j \in DOMAIN body : Len(body[j]) = 2}
           R == {body[j] : j \in DOMAIN body}
           rows == D!Selected(body, J)
           pairs == D!parseTSV(body)
           dc == [r \in R |-> D!Field(r, 1, "NoDC")]
           host == [r \in R |-> r[2]]
<1>1. pairs = [i \in DOMAIN rows |-> <<D!Field(rows[i], 1, "NoDC"), rows[i][2]>>]
  BY DEF D!parseTSV
<1>2. \A n \in DOMAIN rows : rows[n] \in R
  BY RowsOfBody
<1>3. MadeOf(pairs, rows, dc, host)
  <2> HIDE DEF rows, pairs, R
  <2> QED
    BY <1>1, <1>2 DEF MadeOf
<1>4. J \in SUBSET DOMAIN body
  OBVIOUS
<1>5. /\ IsSeq(D!Of(D!Grouped(pairs), d))
      /\ Cardinality(Places(D!Of(D!Grouped(pairs), d), h)) =
           Cardinality(RowsFor(body, J, dc, host, d, h))
  <2> HIDE DEF J, R, pairs, dc, host
  <2> QED
    BY <1>3, <1>4, RowsCount
<1>6. D!Parsed(k, g, body) = D!Grouped(pairs)
  BY Zenon DEF D!Parsed
<1>7. \A row : D!Meaning(k, g, row) = IF Len(row) # 2 THEN {} ELSE
             {<<IF row[1] = D!Blank THEN "NoDC" ELSE row[1], row[2]>>}
  BY Zenon DEF D!Meaning
<1>8. Standing(k, g, body, d, h) = RowsFor(body, J, dc, host, d, h)
  <2>1. ASSUME NEW j \in DOMAIN body
        PROVE  <<d, h>> \in D!Meaning(k, g, body[j]) <=>
                 j \in J /\ dc[body[j]] = d /\ host[body[j]] = h
    <3>1. body[j] \in R
      OBVIOUS
    <3> HIDE DEF R
    <3> QED
      BY <1>7, <3>1 DEF D!Field
  <2> HIDE DEF J, dc, host
  <2> QED
    BY <1>4, <2>1 DEF Standing, RowsFor
<1> QED
  BY <1>5, <1>6, <1>8

LEMMA JSONCount ==
  ASSUME NEW k, NEW g, NEW body, IsSeq(body), k = "json", NEW d, NEW h
  PROVE  /\ IsSeq(D!Of(D!Parsed(k, g, body), d))
         /\ Cardinality(Places(D!Of(D!Parsed(k, g, body), d), h)) =
              Cardinality(Standing(k, g, body, d, h))
<1> DEFINE J == {j \in DOMAIN body : body[j][1] # D!Blank}
           R == {body[j] : j \in DOMAIN body}
           rows == D!Selected(body, J)
           pairs == D!parseJSON(body)
           dc == [r \in R |-> D!Field(r, 2, "NoDC")]
           host == [r \in R |-> r[1]]
<1>1. pairs = [i \in DOMAIN rows |-> <<D!Field(rows[i], 2, "NoDC"), rows[i][1]>>]
  BY DEF D!parseJSON
<1>2. \A n \in DOMAIN rows : rows[n] \in R
  BY RowsOfBody
<1>3. MadeOf(pairs, rows, dc, host)
  <2> HIDE DEF rows, pairs, R
  <2> QED
    BY <1>1, <1>2 DEF MadeOf
<1>4. J \in SUBSET DOMAIN body
  OBVIOUS
<1>5. /\ IsSeq(D!Of(D!Grouped(pairs), d))
      /\ Cardinality(Places(D!Of(D!Grouped(pairs), d), h)) =
           Cardinality(RowsFor(body, J, dc, host, d, h))
  <2> HIDE DEF J, R, pairs, dc, host
  <2> QED
    BY <1>3, <1>4, RowsCount
<1>6. D!Parsed(k, g, body) = D!Grouped(pairs)
  BY Zenon DEF D!Parsed
<1>7. \A row : D!Meaning(k, g, row) = IF row[1] = D!Blank THEN {} ELSE
             {<<IF row[2] = D!Blank THEN "NoDC" ELSE row[2], row[1]>>}
  BY Zenon DEF D!Meaning
<1>8. Standing(k, g, body, d, h) = RowsFor(body, J, dc, host, d, h)
  <2>1. ASSUME NEW j \in DOMAIN body
        PROVE  <<d, h>> \in D!Meaning(k, g, body[j]) <=>
                 j \in J /\ dc[body[j]] = d /\ host[body[j]] = h
    <3>1. body[j] \in R
      OBVIOUS
    <3> HIDE DEF R
    <3> QED
      BY <1>7, <3>1 DEF D!Field
  <2> HIDE DEF J, dc, host
  <2> QED
    BY <1>4, <2>1 DEF Standing, RowsFor
<1> QED
  BY <1>5, <1>6, <1>8

LEMMA QDNSCount ==
  ASSUME NEW k, NEW g, NEW body, IsSeq(body), k = "qloud", NEW d, NEW h
  PROVE  /\ IsSeq(D!Of(D!Parsed(k, g, body), d))
         /\ Cardinality(Places(D!Of(D!Parsed(k, g, body), d), h)) =
              Cardinality(Standing(k, g, body, d, h))
<1> DEFINE J == {j \in DOMAIN body : body[j][2] \notin {"error", "other"}}
           R == {body[j] : j \in DOMAIN body}
           rows == D!Selected(body, J)
           pairs == D!parseQDNS(body)
           dc == [r \in R |-> D!Field(r, 2, "NoDC")]
           host == [r \in R |-> r[1]]
<1>1. pairs = [i \in DOMAIN rows |-> <<D!Field(rows[i], 2, "NoDC"), rows[i][1]>>]
  BY DEF D!parseQDNS
<1>2. \A n \in DOMAIN rows : rows[n] \in R
  BY RowsOfBody
<1>3. MadeOf(pairs, rows, dc, host)
  <2> HIDE DEF rows, pairs, R
  <2> QED
    BY <1>1, <1>2 DEF MadeOf
<1>4. J \in SUBSET DOMAIN body
  OBVIOUS
<1>5. /\ IsSeq(D!Of(D!Grouped(pairs), d))
      /\ Cardinality(Places(D!Of(D!Grouped(pairs), d), h)) =
           Cardinality(RowsFor(body, J, dc, host, d, h))
  <2> HIDE DEF J, R, pairs, dc, host
  <2> QED
    BY <1>3, <1>4, RowsCount
<1>6. D!Parsed(k, g, body) = D!Grouped(pairs)
  BY Zenon DEF D!Parsed
<1>7. \A row : D!Meaning(k, g, row) = IF row[2] \in {"error", "other"} THEN {} ELSE
             {<<IF row[2] = D!Blank THEN "NoDC" ELSE row[2], row[1]>>}
  BY Zenon DEF D!Meaning
<1>8. Standing(k, g, body, d, h) = RowsFor(body, J, dc, host, d, h)
  <2>1. ASSUME NEW j \in DOMAIN body
        PROVE  <<d, h>> \in D!Meaning(k, g, body[j]) <=>
                 j \in J /\ dc[body[j]] = d /\ host[body[j]] = h
    <3>1. body[j] \in R
      OBVIOUS
    <3> HIDE DEF R
    <3> QED
      BY <1>7, <3>1 DEF D!Field
  <2> HIDE DEF J, dc, host
  <2> QED
    BY <1>4, <2>1 DEF Standing, RowsFor
<1> QED
  BY <1>5, <1>6, <1>8

LEMMA RTCCount ==
  ASSUME NEW k, NEW g, NEW body, IsSeq(body), k = "rtc", NEW d, NEW h
  PROVE  /\ IsSeq(D!Of(D!Parsed(k, g, body), d))
         /\ Cardinality(Places(D!Of(D!Parsed(k, g, body), d), h)) =
              Cardinality(Standing(k, g, body, d, h))
<1> DEFINE m == Len(body)
           pairs == D!parseRTC(g, body)
<1>1. m \in Nat /\ DOMAIN body = 1 .. m
  BY ListFacts
<1>2. pairs = [i \in 1 .. m |-> <<g, body[i][1]>>]
  BY <1>1 DEF D!parseRTC
<1>3. D!Parsed(k, g, body) = D!Grouped(pairs)
  BY Zenon DEF D!Parsed
<1>4. \A row : D!Meaning(k, g, row) = {<<g, row[1]>>}
  BY Zenon DEF D!Meaning
<1> HIDE DEF m, pairs
<1>5. DOMAIN pairs = 1 .. m
  BY <1>2
<1>6. Standing(k, g, body, d, h) = PairsFor(pairs, d, h)
  BY <1>1, <1>2, <1>4 DEF Standing, PairsFor
<1> QED
  BY <1>1, <1>3, <1>5, <1>6, GroupedCount

\* The list of ZooKeeper is the stripped one, and stripping keeps hosts.
LEMMA ZKCount ==
  ASSUME NEW k, NEW g, NEW body, WellFormed(k, body), k = "zk", NEW d, NEW h
  PROVE  /\ WellFormed(k, D!StripPort(body))
         /\ IsSeq(D!Of(D!Parsed(k, g, D!StripPort(body)), d))
         /\ Cardinality(Places(D!Of(D!Parsed(k, g, D!StripPort(body)), d), h)) =
              Cardinality(Standing(k, g, body, d, h))
<1>1. PICK list : list = D!StripPort(body)
  OBVIOUS
<1>2. PICK m \in Nat : m = Len(body) /\ DOMAIN body = 1 .. m
  BY ListFacts DEF WellFormed
<1>3. \A i \in 1 .. m : IsSeq(body[i]) /\ Len(body[i]) \in 1 .. 2
  BY <1>2 DEF WellFormed
<1>4. list = [i \in 1 .. m |-> IF Len(body[i]) > 1 THEN D!Front(body[i]) ELSE body[i]]
  BY <1>1, <1>2 DEF D!StripPort
<1>5. \A i \in 1 .. m : list[i] = <<body[i][1]>>
  <2> TAKE i \in 1 .. m
  <2>1. PICK row, S : row = body[i] /\ row \in Seq(S) /\ Len(row) \in 1 .. 2
    BY <1>3 DEF IsSeq
  <2>2. list[i] = IF Len(row) > 1 THEN D!Front(row) ELSE row
    BY <1>4, <2>1
  <2>3. CASE Len(row) = 1
    <3>1. row = <<row[1]>>
      BY <2>1, <2>3
    <3> QED
      BY <2>1, <2>2, <2>3, <3>1
  <2>4. CASE Len(row) = 2
    <3>1. D!Front(row) = SubSeq(row, 1, 1)
      BY <2>4 DEF D!Front
    <3>2. SubSeq(row, 1, 1) = <<row[1]>>
      <4>1. PICK one : one = SubSeq(row, 1, 1)
        OBVIOUS
      <4>2. one \in Seq(S) /\ Len(one) = 1 /\ one[1] = row[1]
        BY <2>1, <2>4, <4>1, SubSeqProperties
      <4>3. one = <<one[1]>>
        BY <4>2
      <4> QED
        BY <4>1, <4>2, <4>3
    <3> QED
      BY <2>1, <2>2, <2>4, <3>1, <3>2
  <2> QED
    BY <2>1, <2>3, <2>4
<1>6. IsSeq(list) /\ DOMAIN list = 1 .. m
  <2>1. list = [i \in 1 .. m |-> list[i]]
    BY <1>4
  <2> QED
    BY <1>2, <2>1, FunctionIsList
<1>7. WellFormed(k, list)
  <2>1. \A i \in 1 .. m : IsSeq(list[i]) /\ Len(list[i]) \in 1 .. 2
    <3> TAKE i \in 1 .. m
    <3>1. PICK e : list[i] = <<e>>
      BY <1>5
    <3>2. <<e>> \in Seq({e}) /\ Len(<<e>>) = 1
      OBVIOUS
    <3>3. IsSeq(<<e>>)
      BY Zenon, <3>2 DEF IsSeq
    <3> QED
      BY <3>1, <3>2, <3>3
  <2> QED
    BY <1>6, <2>1 DEF WellFormed
<1>8. D!Parsed(k, g, list) = [e \in {"unk"} |-> list]
  BY Zenon DEF D!Parsed
<1>9. \A row : D!Meaning(k, g, row) = {<<"unk", <<row[1]>>>>}
  BY Zenon DEF D!Meaning
<1>10. \A j \in 1 .. m : <<d, h>> \in D!Meaning(k, g, body[j]) <=> d = "unk" /\ list[j] = h
  BY <1>5, <1>9
<1>11. CASE d = "unk"
  <2>1. D!Of(D!Parsed(k, g, list), d) = list
    BY <1>8, <1>11 DEF D!Of
  <2>2. Places(list, h) = Standing(k, g, body, d, h)
    BY <1>2, <1>6, <1>10, <1>11 DEF Places, Standing
  <2> QED
    BY <1>1, <1>6, <1>7, <2>1, <2>2
<1>12. CASE d # "unk"
  <2>1. D!Of(D!Parsed(k, g, list), d) = <<>>
    BY <1>8, <1>12 DEF D!Of
  <2>2. Standing(k, g, body, d, h) = {}
    BY <1>2, <1>10, <1>12 DEF Standing
  <2>3. Places(<<>>, h) = {} /\ IsSeq(<<>>)
    BY DEF Places, IsSeq
  <2> QED
    BY <1>1, <1>7, <2>1, <2>2, <2>3
<1> QED
  BY <1>11, <1>12

\* All kinds.  The list is what is parsed and cached.
Listing(k, body) == IF k = "zk" THEN D!StripPort(body) ELSE body

LEMMA ParsedCount ==
  ASSUME D!DiscoveryAssumption, NEW k \in Kinds, NEW g, NEW body, WellFormed(k, body)
  PROVE  /\ WellFormed(k, Listing(k, body))
         /\ \A d : IsSeq(D!Of(D!Parsed(k, g, Listing(k, body)), d))
         /\ \A d, h : Cardinality(Places(D!Of(D!Parsed(k, g, Listing(k, body)), d), h)) =
                        Cardinality(Standing(k, g, body, d, h))
<1>1. k \in {"tsv", "json", "rtc", "zk", "qloud"}
  BY DEF D!DiscoveryAssumption
<1>2. IsSeq(body)
  BY DEF WellFormed
<1>3. k # "zk" => Listing(k, body) = body
  BY DEF Listing
<1>4. CASE k = "tsv"
  BY <1>2, <1>3, <1>4, TSVCount
<1>5. CASE k = "json"
  BY <1>2, <1>3, <1>5, JSONCount
<1>6. CASE k = "rtc"
  BY <1>2, <1>3, <1>6, RTCCount
<1>7. CASE k = "qloud"
  BY <1>2, <1>3, <1>7, QDNSCount
<1>8. CASE k = "zk"
  <2>1. Listing(k, body) = D!StripPort(body)
    BY <1>8 DEF Listing
  <2> QED
    BY <1>8, <2>1, ZKCount
<1> QED
  BY <1>1, <1>4, <1>5, <1>6, <1>7, <1>8

LEMMA MergedList ==
  ASSUME NEW f, NEW o, NEW d
  PROVE  D!Of(D!Merge(f, o), d) = D!Of(f, d) \o D!Of(o, d)
<1>1. PICK m : m = D!Merge(f, o)
  OBVIOUS
<1>2. m = [e \in DOMAIN f \union DOMAIN o |-> D!Of(f, e) \o D!Of(o, e)]
  BY <1>1 DEF D!Merge
<1>3. CASE d \in DOMAIN f \union DOMAIN o
  <2>1. d \in DOMAIN m /\ m[d] = D!Of(f, d) \o D!Of(o, d)
    BY <1>2, <1>3
  <2> QED
    BY <1>1, <2>1 DEF D!Of
<1>4. CASE d \notin DOMAIN f \union DOMAIN o
  <2>1. D!Of(f, d) = <<>> /\ D!Of(o, d) = <<>> /\ D!Of(m, d) = <<>>
    BY <1>2, <1>4 DEF D!Of
  <2>2. <<>> \o <<>> = <<>>
    OBVIOUS
  <2> QED
    BY <1>1, <2>1, <2>2
<1> QED
  BY <1>3, <1>4

-----------------------------------------------------------------------------
(* What a session was answered *)

\* The rows, by answer and place, that stand for host h in datacenter d.
Answered(k, ls, d, h) ==
  UNION {{<<i, j>> : j \in Standing(k, ls[i][1], ls[i][2], d, h)} : i \in DOMAIN ls}

LEMMA AnsweredRows ==
  ASSUME NEW s, NEW d, NEW h
  PROVE  {r \in D!Rows(s) : <<d, h>> \in D!MeaningOf(s, r)} = Answered(kind, listed[s], d, h)
<1> DEFINE ls == listed[s]
<1>1. \A r : r \in D!Rows(s) <=> \E i \in DOMAIN ls : \E j \in DOMAIN ls[i][2] : r = <<i, j>>
  BY DEF D!Rows
<1>2. \A i, j : D!MeaningOf(s, <<i, j>>) = D!Meaning(kind, ls[i][1], ls[i][2][j])
  BY DEF D!MeaningOf
<1>3. \A i, j : j \in Standing(kind, ls[i][1], ls[i][2], d, h) <=>
        j \in DOMAIN ls[i][2] /\ <<d, h>> \in D!Meaning(kind, ls[i][1], ls[i][2][j])
  BY DEF Standing
<1>4. \A r : r \in Answered(kind, ls, d, h) <=>
        \E i \in DOMAIN ls : \E j \in Standing(kind, ls[i][1], ls[i][2], d, h) : r = <<i, j>>
  BY DEF Answered
<1>5. ASSUME NEW r \in D!Rows(s), <<d, h>> \in D!MeaningOf(s, r)
      PROVE  r \in Answered(kind, ls, d, h)
  <2>1. PICK i \in DOMAIN ls : \E j \in DOMAIN ls[i][2] : r = <<i, j>>
    BY <1>1
  <2>2. PICK j \in DOMAIN ls[i][2] : r = <<i, j>>
    BY <2>1
  <2> QED
    BY <1>2, <1>3, <1>4, <1>5, <2>2
<1>6. ASSUME NEW r \in Answered(kind, ls, d, h)
      PROVE  r \in D!Rows(s) /\ <<d, h>> \in D!MeaningOf(s, r)
  <2>1. PICK i \in DOMAIN ls :
          \E j \in Standing(kind, ls[i][1], ls[i][2], d, h) : r = <<i, j>>
    BY <1>4
  <2>2. PICK j \in Standing(kind, ls[i][1], ls[i][2], d, h) : r = <<i, j>>
    BY <2>1
  <2> QED
    BY <1>1, <1>2, <1>3, <2>2
<1> QED
  BY <1>5, <1>6

\* A further answer adds its own rows.
LEMMA AnsweredMore ==
  ASSUME NEW k, NEW ls, IsSeq(ls), NEW g, NEW body, IsSeq(body), NEW d, NEW h,
         IsFiniteSet(Answered(k, ls, d, h))
  PROVE  /\ IsSeq(Append(ls, <<g, body>>))
         /\ IsFiniteSet(Answered(k, Append(ls, <<g, body>>), d, h))
         /\ Cardinality(Answered(k, Append(ls, <<g, body>>), d, h)) =
              Cardinality(Answered(k, ls, d, h)) + Cardinality(Standing(k, g, body, d, h))
<1>1. PICK more : more = Append(ls, <<g, body>>)
  OBVIOUS
<1>2. PICK n \in Nat : n = Len(ls) /\ DOMAIN ls = 1 .. n
  BY ListFacts
<1>3. /\ IsSeq(more) /\ DOMAIN more = 1 .. n + 1
      /\ \A i \in 1 .. n : more[i] = ls[i]
      /\ more[n + 1] = <<g, body>>
  <2>1. PICK S : ls \in Seq(S)
    BY DEF IsSeq
  <2>2. PICK e : e = <<g, body>>
    OBVIOUS
  <2>3. ls \in Seq(S \union {e}) /\ e \in S \union {e}
    BY <2>1, SeqMonotonic
  <2> QED
    BY <1>1, <1>2, <2>2, <2>3, AppendProperties DEF IsSeq
<1> DEFINE T == Standing(k, g, body, d, h)
           A == Answered(k, ls, d, h)
           B == {<<n + 1, j>> : j \in T}
           f == [j \in T |-> <<n + 1, j>>]
<1>4. IsFiniteSet(T) /\ Cardinality(T) \in Nat
  <2>1. Len(body) \in Nat /\ DOMAIN body = 1 .. Len(body)
    BY ListFacts
  <2>2. IsFiniteSet(1 .. Len(body)) /\ T \in SUBSET (1 .. Len(body))
    BY <2>1, FS_Interval DEF Standing
  <2> HIDE DEF T
  <2> QED
    BY <2>2, FS_Subset, FS_CardinalityType
<1>5. Answered(k, more, d, h) = A \union B
  <2>1. \A r : r \in Answered(k, more, d, h) <=>
          \E i \in 1 .. n + 1 : \E j \in Standing(k, more[i][1], more[i][2], d, h) : r = <<i, j>>
    BY <1>3 DEF Answered
  <2>2. \A r : r \in A <=>
          \E i \in 1 .. n : \E j \in Standing(k, ls[i][1], ls[i][2], d, h) : r = <<i, j>>
    BY <1>2 DEF Answered
  <2>3. \A r : r \in B <=> \E j \in T : r = <<n + 1, j>>
    OBVIOUS
  <2>4. \A i : i \in 1 .. n + 1 <=> i \in 1 .. n \/ i = n + 1
    OBVIOUS
  <2>5. more[n + 1][1] = g /\ more[n + 1][2] = body
    BY <1>3
  <2> HIDE DEF A, B
  <2>6. \A r : r \in Answered(k, more, d, h) <=> r \in A \/ r \in B
    BY <1>3, <2>1, <2>2, <2>3, <2>4, <2>5
  <2> QED
    BY <2>6
<1>6. A \intersect B = {}
  <2>1. \A r \in A : r[1] \in 1 .. n
    BY <1>2 DEF Answered
  <2>2. \A r \in B : r[1] = n + 1
    OBVIOUS
  <2> HIDE DEF A, B
  <2> QED
    BY <2>1, <2>2
<1>7. IsFiniteSet(B) /\ Cardinality(B) = Cardinality(T)
  <2>1. f \in [T -> B] /\ \A i, j \in T : f[i] = f[j] => i = j
    OBVIOUS
  <2>2. \A r \in B : \E j \in T : f[j] = r
    OBVIOUS
  <2> HIDE DEF f, T, B
  <2>3. f \in Bijection(T, B)
    BY <2>1, <2>2 DEF Bijection, Injection, IsInjective, Surjection
  <2> QED
    BY <1>4, <2>3, FS_Bijection DEF ExistsBijection
<1> HIDE DEF T, A, B, f
<1>8. IsFiniteSet(A) /\ Cardinality(A) \in Nat
  BY FS_CardinalityType DEF A
<1>9. /\ IsFiniteSet(A \union B)
      /\ Cardinality(A \union B) = Cardinality(A) + Cardinality(B) - Cardinality(A \intersect B)
  BY <1>7, <1>8, FS_Union
<1>10. Cardinality(A \intersect B) = 0
  BY <1>6, FS_EmptySet
<1>11. Cardinality(A \union B) = Cardinality(A) + Cardinality(T)
  BY <1>4, <1>7, <1>8, <1>9, <1>10
<1>12. /\ IsSeq(more) /\ IsFiniteSet(Answered(k, more, d, h))
       /\ Cardinality(Answered(k, more, d, h)) = Cardinality(A) + Cardinality(T)
  BY <1>3, <1>5, <1>9, <1>11
<1> QED
  BY Zenon, <1>1, <1>12 DEF A, T

-----------------------------------------------------------------------------
(* The invariant *)

\* Where the sessions are, and what the cache holds: well-formed answers.
DTypeInv ==
  /\ kind \in Kinds
  /\ group \in [Sessions -> Nat \ {0}]
  /\ geo \in [Sessions -> SUBSET D!GeosOf(kind)]
  /\ DOMAIN cache = D!Urls(kind) /\ \A u \in D!Urls(kind) : WellFormed(kind, cache[u])

\* The lists hs are lists, and have each host as often as the answers ls.
AsAnswered(k, hs, ls) ==
  /\ IsSeq(ls)
  /\ \A d : IsSeq(D!Of(hs, d))
  /\ \A d, h : /\ IsFiniteSet(Answered(k, ls, d, h))
               /\ Cardinality(Places(D!Of(hs, d), h)) = Cardinality(Answered(k, ls, d, h))

DInv ==
  /\ DTypeInv
  /\ DOMAIN allHosts = Sessions /\ DOMAIN listed = Sessions
  /\ \A s \in Sessions : AsAnswered(kind, allHosts[s], listed[s])

LEMMA NothingAnswered == \A k : AsAnswered(k, D!NoHosts, <<>>)
<1> TAKE k
<1>1. IsSeq(<<>>)
  BY DEF IsSeq
<1>2. \A d : D!Of(D!NoHosts, d) = <<>>
  BY DEF D!Of, D!NoHosts
<1>3. \A h : Places(<<>>, h) = {}
  BY DEF Places
<1>4. \A d, h : Answered(k, <<>>, d, h) = {}
  BY DEF Answered
<1> QED
  BY <1>1, <1>2, <1>3, <1>4, FS_EmptySet DEF AsAnswered

\* One more answer, and what was parsed of it.
LEMMA AnswerMerged ==
  ASSUME D!DiscoveryAssumption, NEW k \in Kinds, NEW hs, NEW ls, AsAnswered(k, hs, ls),
         NEW g, NEW body, WellFormed(k, body)
  PROVE  AsAnswered(k, D!Merge(hs, D!Parsed(k, g, Listing(k, body))), Append(ls, <<g, body>>))
<1>1. PICK new : new = D!Parsed(k, g, Listing(k, body))
  OBVIOUS
<1>2. /\ \A d : IsSeq(D!Of(new, d))
      /\ \A d, h : Cardinality(Places(D!Of(new, d), h)) = Cardinality(Standing(k, g, body, d, h))
  BY <1>1, ParsedCount
<1>3. PICK merged : merged = D!Merge(hs, new)
  OBVIOUS
<1>4. \A d : D!Of(merged, d) = D!Of(hs, d) \o D!Of(new, d)
  BY <1>3, MergedList
<1>5. PICK more : more = Append(ls, <<g, body>>)
  OBVIOUS
<1>6. /\ IsSeq(ls) /\ IsSeq(body) /\ \A d : IsSeq(D!Of(hs, d))
      /\ \A d, h : /\ IsFiniteSet(Answered(k, ls, d, h))
                   /\ Cardinality(Places(D!Of(hs, d), h)) = Cardinality(Answered(k, ls, d, h))
  BY DEF AsAnswered, WellFormed
<1>7. ASSUME NEW d, NEW h
      PROVE  /\ IsSeq(more) /\ IsFiniteSet(Answered(k, more, d, h))
             /\ Cardinality(Answered(k, more, d, h)) =
                  Cardinality(Answered(k, ls, d, h)) + Cardinality(Standing(k, g, body, d, h))
  BY <1>5, <1>6, AnsweredMore
<1>8. ASSUME NEW d, NEW h
      PROVE  /\ IsSeq(D!Of(merged, d))
             /\ Cardinality(Places(D!Of(merged, d), h)) =
                  Cardinality(Places(D!Of(hs, d), h)) + Cardinality(Places(D!Of(new, d), h))
  <2>1. PICK p, q : p = D!Of(hs, d) /\ q = D!Of(new, d)
    OBVIOUS
  <2>2. /\ IsSeq(p \o q)
        /\ Cardinality(Places(p \o q, h)) = Cardinality(Places(p, h)) + Cardinality(Places(q, h))
    BY <1>2, <1>6, <2>1, ConcatCount
  <2> QED
    BY <1>4, <2>1, <2>2
<1>9. AsAnswered(k, merged, more)
  BY <1>2, <1>6, <1>7, <1>8 DEF AsAnswered
<1> QED
  BY <1>1, <1>3, <1>5, <1>9

\* What the services answer, and the marks in the cache, are well-formed.
LEMMA AnswersWellFormed ==
  ASSUME D!DiscoveryAssumption, NEW k \in Kinds
  PROVE  \A body \in Answers[k] \union {D!Failed, D!NotCached} : WellFormed(k, body)
<1>1. ASSUME NEW body \in Answers[k]
      PROVE  WellFormed(k, body)
  <2>1. IsSeq(body)
    BY Zenon DEF D!DiscoveryAssumption, IsSeq
  <2>2. k = "zk" => \A i \in DOMAIN body :
                      body[i] \in Seq(D!ToSet(body[i])) /\ Len(body[i]) \in 1 .. 2
    BY Zenon DEF D!DiscoveryAssumption
  <2>3. k = "zk" => \A i \in DOMAIN body : IsSeq(body[i]) /\ Len(body[i]) \in 1 .. 2
    BY Zenon, <2>2 DEF IsSeq
  <2> QED
    BY Zenon, <2>1, <2>3 DEF WellFormed
<1>2. ASSUME NEW e
      PROVE  WellFormed(k, <<<<e>>>>)
  <2>1. <<e>> \in Seq({e}) /\ Len(<<e>>) = 1
    OBVIOUS
  <2>2. PICK x : x = <<e>>
    OBVIOUS
  <2>3. <<x>> \in Seq({x}) /\ DOMAIN <<x>> = {1} /\ <<x>>[1] = x
    OBVIOUS
  <2>4. IsSeq(x) /\ Len(x) \in 1 .. 2
    <3>1. IsSeq(x)
      BY Zenon, <2>1, <2>2 DEF IsSeq
    <3> QED
      BY <2>1, <2>2, <3>1
  <2>5. IsSeq(<<x>>)
    BY Zenon, <2>3 DEF IsSeq
  <2>6. WellFormed(k, <<x>>)
    BY <2>3, <2>4, <2>5 DEF WellFormed
  <2> QED
    BY <2>2, <2>6
<1> QED
  BY <1>1, <1>2 DEF D!Failed, D!NotCached

LEMMA DInit == D!DiscoveryAssumption /\ D!Init => DInv
<1> SUFFICES ASSUME D!DiscoveryAssumption, D!Init PROVE DInv
  OBVIOUS
<1>1. DTypeInv
  BY AnswersWellFormed DEF D!Init, DTypeInv
<1> QED
  BY <1>1, NothingAnswered DEF D!Init, DInv

\* One url of a group.
LEMMA FetchedStep ==
  ASSUME D!DiscoveryAssumption, DInv, NEW s \in Sessions, NEW g \in geo[s],
         group[s] =< Len(Groups), NEW body, WellFormed(kind, body), D!Fetched(s, g, body),
         kind' = kind, group' = group
  PROVE  DInv'
<1>1. DTypeInv /\ kind \in Kinds
  BY DEF DInv, DTypeInv
<1>2. geo' = [geo EXCEPT ![s] = @ \ {g}]
  BY Zenon DEF D!Fetched
<1>3. geo' \in [Sessions -> SUBSET D!GeosOf(kind)]
  BY <1>1, <1>2 DEF DTypeInv
<1>4. CASE D!Unusable(kind, body)
  <2>1. cache' = cache /\ allHosts' = allHosts /\ listed' = listed
    BY <1>4, Zenon DEF D!Fetched
  <2> QED
    BY <1>1, <1>3, <2>1 DEF DInv, DTypeInv
<1>5. CASE ~D!Unusable(kind, body)
  <2>1. PICK u : u = <<Groups[group[s]], g>>
    OBVIOUS
  <2>2. PICK list : list = Listing(kind, body)
    OBVIOUS
  <2>3. list = IF kind = "zk" /\ body # D!Failed THEN D!StripPort(body) ELSE body
    BY <1>5, <2>2 DEF D!Unusable, Listing
  <2>4. /\ cache' = [cache EXCEPT ![u] = list]
        /\ allHosts' = [allHosts EXCEPT ![s] = D!Merge(@, D!Parsed(kind, g, list))]
        /\ listed' = [listed EXCEPT ![s] = Append(@, <<g, body>>)]
    BY <1>5, <2>1, <2>3, Zenon DEF D!Fetched
  <2>5. WellFormed(kind, list)
    BY <1>1, <2>2, ParsedCount
  <2>6. DTypeInv'
    BY <1>1, <1>3, <2>4, <2>5 DEF DTypeInv
  <2>7. AsAnswered(kind, D!Merge(allHosts[s], D!Parsed(kind, g, list)),
                   Append(listed[s], <<g, body>>))
    BY <1>1, <2>2, AnswerMerged DEF DInv
  <2>8. /\ DOMAIN allHosts' = Sessions /\ DOMAIN listed' = Sessions
        /\ allHosts'[s] = D!Merge(allHosts[s], D!Parsed(kind, g, list))
        /\ listed'[s] = Append(listed[s], <<g, body>>)
        /\ \A r \in Sessions \ {s} : allHosts'[r] = allHosts[r] /\ listed'[r] = listed[r]
    BY <2>4 DEF DInv
  <2>9. \A r \in Sessions : AsAnswered(kind, allHosts'[r], listed'[r])
    BY <2>7, <2>8 DEF DInv
  <2> QED
    BY <2>6, <2>8, <2>9 DEF DInv
<1> QED
  BY <1>4, <1>5

LEMMA DStep == D!DiscoveryAssumption /\ DInv /\ [D!Next]_discoveryVars => DInv'
<1> SUFFICES ASSUME D!DiscoveryAssumption, DInv, [D!Next]_discoveryVars
             PROVE  DInv'
  OBVIOUS
<1>1. DTypeInv /\ kind \in Kinds
  BY DEF DInv, DTypeInv
<1>2. ASSUME NEW s \in Sessions, D!FetchCached(s) PROVE DInv'
  <2>1. PICK g \in geo[s] : D!Fetched(s, g, cache[<<Groups[group[s]], g>>])
    BY <1>2, Zenon DEF D!FetchCached
  <2>2. group[s] =< Len(Groups) /\ kind' = kind /\ group' = group
    BY <1>2 DEF D!FetchCached
  <2>3. <<Groups[group[s]], g>> \in D!Urls(kind)
    <3>1. Len(Groups) \in Nat /\ DOMAIN Groups = 1 .. Len(Groups)
      BY DEF D!DiscoveryAssumption
    <3>2. group[s] \in Nat \ {0} /\ g \in D!GeosOf(kind)
      BY <1>1, <2>1 DEF DTypeInv
    <3>3. Groups[group[s]] \in D!ToSet(Groups)
      BY <2>2, <3>1, <3>2 DEF D!ToSet
    <3> QED
      BY <3>2, <3>3 DEF D!Urls
  <2>4. WellFormed(kind, cache[<<Groups[group[s]], g>>])
    BY <1>1, <2>3 DEF DTypeInv
  <2> QED
    BY <2>1, <2>2, <2>4, FetchedStep
<1>3. ASSUME NEW s \in Sessions, D!FetchAsks(s) PROVE DInv'
  <2>1. PICK g \in geo[s] : \E body \in Answers[kind] \union {D!Failed} : D!Fetched(s, g, body)
    BY <1>3, Zenon DEF D!FetchAsks
  <2>2. PICK body \in Answers[kind] \union {D!Failed} : D!Fetched(s, g, body)
    BY <2>1
  <2>3. group[s] =< Len(Groups) /\ kind' = kind /\ group' = group
    BY <1>3 DEF D!FetchAsks
  <2>4. WellFormed(kind, body)
    BY <1>1, AnswersWellFormed
  <2> QED
    BY <2>2, <2>3, <2>4, FetchedStep
<1>4. ASSUME NEW s \in Sessions, D!NextGroup(s) PROVE DInv'
  <2>1. DTypeInv'
    BY <1>1, <1>4 DEF DTypeInv, D!NextGroup
  <2> QED
    BY <1>4, <2>1 DEF DInv, D!NextGroup
<1>5. ASSUME NEW u \in D!Urls(kind), D!Refresh(u) PROVE DInv'
  <2>1. PICK body \in Answers[kind] \union {D!NotCached} : cache' = [cache EXCEPT ![u] = body]
    BY <1>5 DEF D!Refresh
  <2>2. WellFormed(kind, body)
    BY <1>1, AnswersWellFormed
  <2>3. DTypeInv'
    BY <1>1, <1>5, <2>1, <2>2 DEF DTypeInv, D!Refresh
  <2> QED
    BY <1>5, <2>3 DEF DInv, D!Refresh
<1>6. CASE UNCHANGED discoveryVars
  BY <1>6 DEF discoveryVars, DInv, DTypeInv
<1> QED
  BY <1>2, <1>3, <1>4, <1>5, <1>6 DEF D!Next

(***************************************************************************)
(* For any groups, geos, answers and number of sessions: the hosts of a     *)
(* session are, each as often and in its datacenter, what the services      *)
(* listed for its groups, whichever answers failed and whichever came from  *)
(* the cache that other sessions refresh and that the ZooKeeper fetcher     *)
(* changes in place (common/discovery.go:173-277, 306-387, 410-454,         *)
(* 492-553, combainer/client.go:124-132).                                   *)
(***************************************************************************)
THEOREM HostsAreAsListed == DiscoverySpec => []HostsAsListed
<1>1. D!Init => DInv
  BY DispatchAssumption, DInit
<1>2. DInv /\ [D!Next]_discoveryVars => DInv'
  BY DispatchAssumption, DStep
<1>3. ASSUME DInv, NEW s \in Sessions, NEW d, NEW h
      PROVE  D!Cardinality({i \in DOMAIN D!Of(allHosts[s], d) : D!Of(allHosts[s], d)[i] = h})
               = D!Cardinality({r \in D!Rows(s) : <<d, h>> \in D!MeaningOf(s, r)})
  <2>1. Cardinality(Places(D!Of(allHosts[s], d), h)) =
          Cardinality(Answered(kind, listed[s], d, h))
    BY <1>3 DEF DInv, AsAnswered
  <2>2. {r \in D!Rows(s) : <<d, h>> \in D!MeaningOf(s, r)} = Answered(kind, listed[s], d, h)
    BY AnsweredRows
  <2>3. {i \in DOMAIN D!Of(allHosts[s], d) : D!Of(allHosts[s], d)[i] = h} =
          Places(D!Of(allHosts[s], d), h)
    BY Zenon DEF Places
  <2> QED
    BY <2>1, <2>2, <2>3, DCounts
<1>4. DInv => HostsAsListed
  <2> SUFFICES ASSUME DInv PROVE D!HostsAsListed
    BY DEF HostsAsListed
  <2> QED
    BY <1>3 DEF D!HostsAsListed
<1> QED
  BY <1>1, <1>2, <1>4, PTL DEF DiscoverySpec

=============================================================================
