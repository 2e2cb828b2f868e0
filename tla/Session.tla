------------------------------ MODULE Session ------------------------------
(***************************************************************************)
(* One iteration of a parsing config: Client.Dispatch                       *)
(* (combainer/client.go) and what it makes the workers do: DoParsing,       *)
(* DoAggregating and DoSending (worker/*.go).                               *)
(*                                                                         *)
(* Time is the two deadlines of the session, which may pass at any moment.  *)
(* A call to a worker is answered, fails, or ends with its context.  The    *)
(* fan-out of goroutines inside a worker's call is module WorkerTask; here  *)
(* such a call has the set of its successful sub-calls as its result.       *)
(* Parsed data is identified by the host and the key it was parsed for.     *)
(***************************************************************************)
EXTENDS Integers, FiniteSets

CONSTANTS
  Hosts,            \* the hosts of the config's groups that discovery knows
  Dc,               \* Dc[h]: the datacenter of host h
  AggConfigs,       \* parsingConfig.AggConfigs
  Keys,             \* Keys[a]: the keys of aggregationConfig.Data of a
  PerHost,          \* the keys with perHost set
  SkipDc,           \* the keys with skipPerDatacenter set
  ParallelParsings, \* parsingConfig.ParallelParsings, 0: not set
  ShouldWait        \* argument of Dispatch

SessionAssumption ==
  /\ IsFiniteSet(Hosts) /\ Hosts # {} /\ IsFiniteSet(AggConfigs)
  /\ Dc \in [Hosts -> {Dc[h] : h \in Hosts}]
  /\ Keys \in [AggConfigs -> SUBSET UNION {Keys[a] : a \in AggConfigs}]
  /\ ParallelParsings \in Nat /\ ShouldWait \in BOOLEAN

AllKeys == UNION {Keys[a] : a \in AggConfigs}

VARIABLES
  pc,       \* where Dispatch is
  now,      \* "start", "parsed" (parsing deadline passed), "over" (whole time)
  hosts,    \* params.PTasks: the hosts of this session
  parsing,  \* parsing[h]: the parsing of host h, "idle", "todo", "running", "ok", "failed"
  data,     \* parsingResult.Data: <<host, key>> pairs
  agg,      \* agg[a]: the aggregation of config a
  sent,     \* sent[a]: the results DoSending passed to the senders
  stats     \* clientStats

vars == <<pc, now, hosts, parsing, data, agg, sent, stats>>

Counters == {"successParsing", "failedParsing", "successAggregate", "failedAggregate"}

Init ==
  /\ pc = "params" /\ now = "start" /\ hosts = {}
  /\ parsing = [h \in Hosts |-> "idle"]
  /\ data = {}
  /\ agg = [a \in AggConfigs |-> "idle"]
  /\ sent = [a \in AggConfigs |-> {}]
  /\ stats = [k \in Counters |-> 0]

-----------------------------------------------------------------------------
(* Dispatch *)

\* updateSessionParams: a config that cannot be read ends the iteration.
ParamsFail ==
  /\ pc = "params"
  /\ pc' = "failed"
  /\ UNCHANGED <<now, hosts, parsing, data, agg, sent, stats>>

\* A group whose hosts cannot be fetched is left out; with no hosts at all
\* the iteration fails.
Params ==
  /\ pc = "params"
  /\ \E found \in SUBSET Hosts :
       /\ hosts' = found
       /\ parsing' = [h \in Hosts |-> IF h \in found THEN "todo" ELSE "idle"]
       /\ pc' = IF found = {} THEN "failed" ELSE "parsing"
  /\ UNCHANGED <<now, data, agg, sent, stats>>

\* params.ParallelParsings
parallelParsings ==
  IF ParallelParsings > 0 /\ Cardinality(hosts) > ParallelParsings
  THEN ParallelParsings ELSE Cardinality(hosts)

Running == {h \in Hosts : parsing[h] = "running"}

\* The next task waits for a token, then gets a goroutine.
StartParsing(h) ==
  /\ pc = "parsing" /\ parsing[h] = "todo"
  /\ Cardinality(Running) < parallelParsings
  /\ parsing' = [parsing EXCEPT ![h] = "running"]
  /\ UNCHANGED <<pc, now, hosts, data, agg, sent, stats>>

Count(k) == stats' = [stats EXCEPT ![k] = @ + 1]

\* doParsing: the reply has the keys whose parser succeeded; a call that
\* outlives its context has failed.
ParsingReply(h) ==
  /\ parsing[h] = "running" /\ now = "start"
  /\ \E ks \in SUBSET AllKeys : data' = data \union ({h} \X ks)
  /\ parsing' = [parsing EXCEPT ![h] = "ok"]
  /\ Count("successParsing")
  /\ UNCHANGED <<pc, now, hosts, agg, sent>>

\* A call that is made with a context that has no deadline.
ParsingErrorInTime(h) ==
  /\ parsing[h] = "running" /\ now = "start"
  /\ parsing' = [parsing EXCEPT ![h] = "failed"]
  /\ Count("failedParsing")
  /\ UNCHANGED <<pc, now, hosts, data, agg, sent>>

ParsingError(h) ==
  /\ parsing[h] = "running"
  /\ parsing' = [parsing EXCEPT ![h] = "failed"]
  /\ Count("failedParsing")
  /\ UNCHANGED <<pc, now, hosts, data, agg, sent>>

\* A Dispatch that goes on to aggregate once every task is started.
AggregateAtOnce ==
  /\ pc = "parsing" /\ \A h \in hosts : parsing[h] # "todo"
  /\ pc' = "aggregating"
  /\ agg' = [a \in AggConfigs |-> "running"]
  /\ UNCHANGED <<now, hosts, parsing, data, sent, stats>>

\* wg.Wait after the parsing, then a goroutine for every aggregation.
StartAggregating ==
  /\ pc = "parsing" /\ \A h \in hosts : parsing[h] \in {"ok", "failed"}
  /\ pc' = "aggregating"
  /\ agg' = [a \in AggConfigs |-> "running"]
  /\ UNCHANGED <<now, hosts, parsing, data, sent, stats>>

\* wg.Wait after the aggregation; then, if asked to, for the whole time.
Finish ==
  /\ pc = "aggregating" /\ \A a \in AggConfigs : agg[a] \in {"ok", "failed"}
  /\ ShouldWait => now = "over"
  /\ pc' = "done"
  /\ UNCHANGED <<now, hosts, parsing, data, agg, sent, stats>>

Deadline ==
  /\ pc \in {"parsing", "aggregating"}
  /\ now' = IF now = "start" THEN "parsed" ELSE "over"
  /\ now # "over"
  /\ UNCHANGED <<pc, hosts, parsing, data, agg, sent, stats>>

-----------------------------------------------------------------------------
(* DoAggregating and DoSending of a worker *)

HostsWith(k) == {p[1] : p \in {q \in data : q[2] = k}}

Request(k, type, name, from) == [key |-> k, type |-> type, name |-> name, from |-> from]

\* Requests of an aggregation that does not begin a new list of results at
\* every datacenter.
RequestsOfAll(a) ==
  UNION {  {Request(k, "host", h, {h}) : h \in IF k \in PerHost THEN HostsWith(k) ELSE {}}
    \union {Request(k, "datacenter", Dc[h], HostsWith(k)) : h \in HostsWith(k)}
    \union {Request(k, "metahost", "metahost", hs) : hs \in {HostsWith(k)} \ {{}}}
         : k \in Keys[a]}

\* One request for every host that has data, if asked for, one for every
\* datacenter that has any, unless skipped, and one for them all.
Requests(a) ==
  UNION {  {Request(k, "host", h, {h}) : h \in IF k \in PerHost THEN HostsWith(k) ELSE {}}
    \union {Request(k, "datacenter", dc, {h \in HostsWith(k) : Dc[h] = dc})
              : dc \in IF k \in SkipDc THEN {} ELSE {Dc[h] : h \in HostsWith(k)}}
    \union {Request(k, "metahost", "metahost", hs) : hs \in {HostsWith(k)} \ {{}}}
         : k \in Keys[a]}

\* DoAggregating: the requests that succeed are passed to the senders, whose
\* failures are only logged.
Aggregated(a) ==
  /\ agg[a] = "running" /\ now # "over"
  /\ \E done \in SUBSET Requests(a) : sent' = [sent EXCEPT ![a] = done]
  /\ agg' = [agg EXCEPT ![a] = "ok"]
  /\ Count("successAggregate")
  /\ UNCHANGED <<pc, now, hosts, parsing, data>>

AggregationError(a) ==
  /\ agg[a] = "running"
  /\ agg' = [agg EXCEPT ![a] = "failed"]
  /\ Count("failedAggregate")
  /\ UNCHANGED <<pc, now, hosts, parsing, data, sent>>

-----------------------------------------------------------------------------

Next ==
  \/ ParamsFail \/ Params \/ StartAggregating \/ Finish \/ Deadline
  \/ \E h \in Hosts : StartParsing(h) \/ ParsingReply(h) \/ ParsingError(h)
  \/ \E a \in AggConfigs : Aggregated(a) \/ AggregationError(a)

Spec == Init /\ [][Next]_vars

(***************************************************************************)
(* Time passes, the Go scheduler runs Dispatch, and a call whose context is *)
(* done returns.  A worker need not answer.                                 *)
(***************************************************************************)
Fairness ==
  /\ WF_vars(Deadline) /\ WF_vars(StartAggregating) /\ WF_vars(Finish)
  /\ WF_vars(ParamsFail \/ Params)
  /\ \A h \in Hosts : /\ WF_vars(StartParsing(h))
                      /\ WF_vars(now # "start" /\ ParsingError(h))
  /\ \A a \in AggConfigs : WF_vars(now = "over" /\ AggregationError(a))

FairSpec == Spec /\ Fairness

-----------------------------------------------------------------------------
(* Properties *)

(***************************************************************************)
(* The aggregations share the parsing results (client.go:248): from their   *)
(* start to the end of the session nobody writes to them, also when a       *)
(* parsing was still waiting for its worker at the deadline.                *)
(***************************************************************************)
ResultsStable == [][pc = "aggregating" => UNCHANGED data]_vars

(***************************************************************************)
(* What reaches the senders for a key as the metahost is made of the data   *)
(* of every host that was parsed for it, and what reaches them for its      *)
(* datacenters, when none is missing, of each of these hosts once           *)
(* (aggregating.go:57-160).                                                 *)
(***************************************************************************)
SentIsComplete ==
  \A a \in AggConfigs : \A k \in Keys[a] :
    LET of(type) == {r \in sent[a] : r.key = k /\ r.type = type}
        dcs == of("datacenter")
    IN  /\ \A r \in of("metahost") : r.from = {h \in Hosts : <<h, k>> \in data}
        /\ \A r, s \in dcs : r # s => r.from \intersect s.from = {}
        /\ of("metahost") # {} /\ {r.name : r \in dcs} = {Dc[h] : h \in HostsWith(k)} =>
             UNION {r.from : r \in dcs} = HostsWith(k)

(***************************************************************************)
(* Every iteration ends, also when no worker ever answers and more hosts    *)
(* wait for a token than there are tokens, and then every host and every    *)
(* aggregation is counted once, as a success or as a failure                *)
(* (client.go:217-310, stats.go:17-35).                                     *)
(***************************************************************************)
DispatchEnds ==
  <>(\/ pc = "failed"
     \/ /\ pc = "done"
        /\ stats.successParsing + stats.failedParsing = Cardinality(hosts)
        /\ stats.successAggregate + stats.failedAggregate = Cardinality(AggConfigs))

=============================================================================
