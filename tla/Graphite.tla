------------------------------ MODULE Graphite ------------------------------
(***************************************************************************)
(* The graphite sender (senders/graphite): concurrent Sends that share one  *)
(* connection per endpoint from a pool.  Get dials the endpoint once for    *)
(* everybody, a failed write evicts and closes the connection, and the      *)
(* points of a Send are named with a stack of name parts.                   *)
(*                                                                         *)
(* An entry of the pool is a number, given out when its dial begins, and so *)
(* is its connection.  A payload's result is given by its leaves, each a    *)
(* path of map keys and slice fields; whether a slice fits the configured   *)
(* fields is a property of the leaf.  The order of a map's keys is fixed.   *)
(* Dialling and writing are external: they succeed or fail.                 *)
(***************************************************************************)
EXTENDS Naturals, Sequences, FiniteSets, SequencesExt

CONSTANTS
  Senders,     \* goroutines, each with one Send at a time
  Endpoints,   \* graphite endpoints
  Data,        \* the payloads of every Send: [aggregate, subgroup, leaves]
  NoSubgroup,  \* GetSubgroupName returns an error
  Retry,       \* attempts of NewConn
  MaxEntries   \* bound on the number of dials

GraphiteAssumption ==
  /\ {Retry, MaxEntries} \subseteq Nat /\ Retry > 0
  /\ Data \in Seq(ToSet(Data))
  /\ \A n \in DOMAIN Data : Data[n].leaves \in Seq(ToSet(Data[n].leaves))

Entries == 1 .. MaxEntries
None == 0

VARIABLES
  cache,     \* cache[e]: the entry of endpoint e
  made,      \* number of entries so far
  phase,     \* phase[i]: "none", "dial", "set" or "failed", then "ready"
  tries,     \* tries[i]: attempts of NewConn
  err,       \* err[i]: the entry has an error instead of a service
  open,      \* the connections that are open on this side
  panicked,  \* the process died in Evict
  pc,        \* pc[s]: where the Send of s is
  endpoint,  \* endpoint[s]: g.endpoint
  held,      \* held[s]: the entry that Get is at, or has returned
  at,        \* at[s]: the payload that is sent and its next leaf
  metric,    \* metric[s]: metricName
  lines      \* lines[s]: what was written: the payload's index and the name

poolVars == <<cache, made, phase, tries, err, open>>
sendVars == <<endpoint, held, at, metric, lines>>
vars == <<cache, made, phase, tries, err, open, panicked, pc, endpoint, held, at, metric, lines>>

Init ==
  /\ cache = [e \in Endpoints |-> None]
  /\ made = 0
  /\ phase = [i \in Entries |-> "none"]
  /\ tries = [i \in Entries |-> 0]
  /\ err = [i \in Entries |-> FALSE]
  /\ open = {} /\ panicked = FALSE
  /\ pc = [s \in Senders |-> "idle"]
  /\ endpoint \in [Senders -> Endpoints]
  /\ held = [s \in Senders |-> None]
  /\ at = [s \in Senders |-> <<1, 0>>]
  /\ metric = [s \in Senders |-> <<>>]
  /\ lines = [s \in Senders |-> <<>>]

Goes(s, place) == pc' = [pc EXCEPT ![s] = place]

-----------------------------------------------------------------------------
(* The pool *)

\* Get: the entry is there, or it is made and its dial begins.
Get(s) ==
  LET e == endpoint[s]
  IN  /\ ~panicked /\ pc[s] \in {"idle", "sent", "error"}
      /\ at' = [at EXCEPT ![s] = <<1, 0>>]
      /\ metric' = [metric EXCEPT ![s] = <<>>]
      /\ lines' = [lines EXCEPT ![s] = <<>>]
      /\ \/ /\ cache[e] # None
            /\ held' = [held EXCEPT ![s] = cache[e]]
            /\ Goes(s, "wait")
            /\ UNCHANGED poolVars
         \/ /\ cache[e] = None /\ made < MaxEntries
            /\ made' = made + 1
            /\ phase' = [phase EXCEPT ![made'] = "dial"]
            /\ cache' = [cache EXCEPT ![e] = made']
            /\ held' = [held EXCEPT ![s] = made']
            /\ Goes(s, "dial")
            /\ UNCHANGED <<tries, err, open>>
      /\ UNCHANGED <<panicked, endpoint>>

\* One attempt of NewConn.
NewConn(s) ==
  LET i == held[s]
  IN  /\ ~panicked /\ pc[s] = "dial" /\ phase[i] = "dial"
      /\ tries' = [tries EXCEPT ![i] = @ + 1]
      /\ \/ /\ phase' = [phase EXCEPT ![i] = "set"]
            /\ open' = open \union {i}
            /\ UNCHANGED err
         \/ /\ phase' = [phase EXCEPT ![i] = IF tries'[i] < Retry THEN "dial" ELSE "failed"]
            /\ err' = [err EXCEPT ![i] = phase'[i] = "failed"]
            /\ UNCHANGED open
      /\ UNCHANGED <<cache, made, panicked, pc, sendVars>>

\* An error that leaves the waiting calls where they are.
GotSilently(s) ==
  LET i == held[s]
  IN  /\ ~panicked /\ pc[s] = "dial" /\ phase[i] \in {"set", "failed"}
      /\ cache' = [cache EXCEPT ![endpoint[s]] = IF err[i] THEN None ELSE @]
      /\ phase' = [phase EXCEPT ![i] = IF err[i] THEN @ ELSE "ready"]
      /\ Goes(s, IF err[i] THEN "error" ELSE "item")
      /\ UNCHANGED <<made, tries, err, open, panicked, sendVars>>

\* After an error the key is deleted; then ready is closed.
Got(s) ==
  LET i == held[s]
  IN  /\ ~panicked /\ pc[s] = "dial" /\ phase[i] \in {"set", "failed"}
      /\ cache' = [cache EXCEPT ![endpoint[s]] = IF err[i] THEN None ELSE @]
      /\ phase' = [phase EXCEPT ![i] = "ready"]
      /\ Goes(s, IF err[i] THEN "error" ELSE "item")
      /\ UNCHANGED <<made, tries, err, open, panicked, sendVars>>

\* <-e.ready
Waited(s) ==
  /\ ~panicked /\ pc[s] = "wait" /\ phase[held[s]] = "ready"
  /\ Goes(s, IF err[held[s]] THEN "error" ELSE "item")
  /\ UNCHANGED <<poolVars, panicked, sendVars>>

\* An Evict that takes whatever connection the endpoint has now.
EvictEndpoint(s) ==
  /\ ~panicked /\ pc[s] = "evict"
  /\ cache' = [cache EXCEPT ![endpoint[s]] = None]
  /\ open' = open \ {held[s]}
  /\ Goes(s, "error")
  /\ UNCHANGED <<made, phase, tries, err, panicked, sendVars>>

\* Evict looks through the entries, in any order, for the one with this
\* connection.  An entry whose dial is not over has no service to compare.
Evict(s) ==
  LET mine == {e \in Endpoints : cache[e] = held[s]}
      unset == {e \in Endpoints : cache[e] # None /\ phase[cache[e]] \in {"dial", "failed"}}
  IN  /\ ~panicked /\ pc[s] = "evict"
      /\ \/ /\ mine # {} \/ unset = {}
            /\ cache' = [e \in Endpoints |-> IF e \in mine THEN None ELSE cache[e]]
            /\ open' = IF mine = {} THEN open ELSE open \ {held[s]}
            /\ Goes(s, "error")
            /\ UNCHANGED panicked
         \/ /\ unset # {}
            /\ panicked' = TRUE
            /\ UNCHANGED <<cache, open, pc>>
      /\ UNCHANGED <<made, phase, tries, err, sendVars>>

-----------------------------------------------------------------------------
(* The points *)

\* The next payload: its aggregate is pushed, and it is passed over when its
\* tags have no subgroup.
Item(s) ==
  LET d == Data[at[s][1]]
  IN  /\ ~panicked /\ pc[s] = "item"
      /\ IF at[s][1] > Len(Data)
         THEN /\ Goes(s, "sent")
              /\ UNCHANGED <<at, metric>>
         ELSE /\ metric' = [metric EXCEPT ![s] = Append(@, d.aggregate)]
              /\ IF d.subgroup = NoSubgroup
                 THEN at' = [at EXCEPT ![s] = <<@[1] + 1, 0>>] /\ UNCHANGED pc
                 ELSE at' = [at EXCEPT ![s] = <<@[1], 1>>] /\ Goes(s, "leaf")
      /\ UNCHANGED <<poolVars, panicked, endpoint, held, lines>>

\* A leaf: it is written under the stack and its path; or the slice does not
\* fit the fields; or the write fails.  A connection that is closed on this
\* side cannot be written to.
Leaf(s) ==
  LET d == Data[at[s][1]]
      leaf == d.leaves[at[s][2]]
      line == [of |-> at[s][1], name |-> <<d.subgroup>> \o metric[s] \o leaf.path]
  IN  /\ ~panicked /\ pc[s] = "leaf" /\ at[s][2] =< Len(d.leaves)
      /\ \/ /\ leaf.fits /\ held[s] \in open
            /\ lines' = [lines EXCEPT ![s] = Append(@, line)]
            /\ at' = [at EXCEPT ![s] = <<@[1], @[2] + 1>>]
            /\ UNCHANGED pc
         \/ leaf.fits /\ Goes(s, "evict") /\ UNCHANGED <<lines, at>>
         \/ ~leaf.fits /\ Goes(s, "error") /\ UNCHANGED <<lines, at>>
      /\ UNCHANGED <<poolVars, panicked, endpoint, held, metric>>

\* A payload that is sent and leaves its aggregate on the stack.
ItemSentNotPopped(s) ==
  /\ ~panicked /\ pc[s] = "leaf" /\ at[s][2] > Len(Data[at[s][1]].leaves)
  /\ at' = [at EXCEPT ![s] = <<@[1] + 1, 0>>]
  /\ Goes(s, "item")
  /\ UNCHANGED <<poolVars, panicked, endpoint, held, metric, lines>>

\* The payload is sent, and its aggregate popped.
ItemSent(s) ==
  /\ ~panicked /\ pc[s] = "leaf" /\ at[s][2] > Len(Data[at[s][1]].leaves)
  /\ metric' = [metric EXCEPT ![s] = Front(@)]
  /\ at' = [at EXCEPT ![s] = <<@[1] + 1, 0>>]
  /\ Goes(s, "item")
  /\ UNCHANGED <<poolVars, panicked, endpoint, held, lines>>

SendStep(s) ==
  NewConn(s) \/ Got(s) \/ Waited(s) \/ Evict(s) \/ Item(s) \/ Leaf(s) \/ ItemSent(s)

Next == \E s \in Senders : Get(s) \/ SendStep(s)

Spec == Init /\ [][Next]_vars

\* A dial has a timeout, and goroutines run.
Fairness == \A s \in Senders : WF_vars(SendStep(s))

FairSpec == Spec /\ Fairness

-----------------------------------------------------------------------------
(* Properties *)

(***************************************************************************)
(* Every open connection is the one in the pool for its endpoint: no race   *)
(* of dials and evictions, of senders that found the same connection broken *)
(* or that come late, leaves one open that nobody can reach and close       *)
(* (connectionpool.go:77-109).                                              *)
(***************************************************************************)
NoConnectionLeaks == \A i \in open : \E e \in Endpoints : cache[e] = i

(***************************************************************************)
(* Every Send ends, the ones that wait for somebody else's dial included,   *)
(* unless the process dies (connectionpool.go:77-96).                       *)
(***************************************************************************)
SendEnds == \A s \in Senders : []<>(panicked \/ pc[s] \in {"idle", "sent", "error"})

\* The payloads before the n-th that have no subgroup.
Unnamed(n) == {i \in 1 .. n - 1 : Data[i].subgroup = NoSubgroup}

\* The i-th of them.
Nth(n, i) == {k \in Unnamed(n) : Cardinality({j \in Unnamed(n) : j =< k}) = i}
Only(T) == CHOOSE k \in T : TRUE

\* Their aggregates.
Skipped(n) == [i \in 1 .. Cardinality(Unnamed(n)) |-> Data[Only(Nth(n, i))].aggregate]

(***************************************************************************)
(* A point is named after its subgroup, its aggregate and its path.  Of the *)
(* payloads before it only those without a subgroup leave anything in the   *)
(* name: their aggregates, which are pushed and never popped                *)
(* (graphite.go:116-151).                                                   *)
(***************************************************************************)
PointsNamed ==
  \A s \in Senders : \A i \in DOMAIN lines[s] :
    LET n == lines[s][i].of
        d == Data[n]
    IN  \E leaf \in ToSet(d.leaves) :
          lines[s][i].name = <<d.subgroup>> \o Skipped(n) \o <<d.aggregate>> \o leaf.path

=============================================================================
