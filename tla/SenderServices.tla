--------------------------- MODULE SenderServices ---------------------------
(***************************************************************************)
(* The juggler and graphite senders side by side: JugglerChecks,            *)
(* JugglerSend, EventsStore and Graphite.  They share no variable.          *)
(***************************************************************************)
EXTENDS Naturals, Sequences, FiniteSets

CONSTANTS
  Senders,                                                      \* of two of them
  Processes, Triggers, Conf, Initial, JHosts, MaxGarbled,       \* of JugglerChecks
  Events, JFrontend, BatchSize, Attempts,                       \* of JugglerSend
  Pushers, Workers, History, MaxEvents,                         \* of EventsStore
  Endpoints, Data, NoSubgroup, Retry, MaxEntries                \* of Graphite

VARIABLES
  processOf, server, cache, expired, refresh, garbled, check, copy, todo, tried, dirty,
  batchEndpoint, sliced, front, je, job, retry, body, failed, taken, answered, result,
  workerOf, stored, pushed, push, event, worker, request, mQuery, written,
  pool, made, phase, tries, err, open, panicked, send, endpoint, held, at, metric, lines

Checks == INSTANCE JugglerChecks WITH pc <- check
Send == INSTANCE JugglerSend WITH pc <- job
Store == INSTANCE EventsStore
Pool == INSTANCE Graphite WITH cache <- pool, pc <- send

ASSUME SendersAssumption ==
  /\ Checks!JugglerChecksAssumption /\ Send!JugglerSendAssumption
  /\ Store!EventsStoreAssumption /\ Pool!GraphiteAssumption

checksVars ==
  <<processOf, server, cache, expired, refresh, garbled, check, copy, todo, tried, dirty>>
sendVars ==
  <<batchEndpoint, sliced, front, je, job, retry, body, failed, taken, answered, result>>
storeVars == <<workerOf, stored, pushed, push, event, worker, request, mQuery, written>>
graphiteVars ==
  <<pool, made, phase, tries, err, open, panicked, send, endpoint, held, at, metric, lines>>

Init == Checks!Init /\ Send!Init /\ Store!Init /\ Pool!Init

ChecksMoves == Checks!Next /\ UNCHANGED <<sendVars, storeVars, graphiteVars>>
SendMoves == Send!Next /\ UNCHANGED <<checksVars, storeVars, graphiteVars>>
StoreMoves == Store!Next /\ UNCHANGED <<checksVars, sendVars, graphiteVars>>
GraphiteMoves == Pool!Next /\ UNCHANGED <<checksVars, sendVars, storeVars>>

Next == ChecksMoves \/ SendMoves \/ StoreMoves \/ GraphiteMoves

Spec == Init /\ [][Next]_<<checksVars, sendVars, storeVars, graphiteVars>>

-----------------------------------------------------------------------------
(* Properties *)

\* The API has a check for every event that is sent
\* (senders/juggler/api.go:195-280).
EventsHaveChecks == Checks!EventsHaveChecks

\* A sender that goes on alone repairs its checks
\* (senders/juggler/api.go:111-280, 431-459).
Heals == Checks!Heals

\* Every event is in one batch or goes to every frontend, and no error means
\* that no event was refused that the sender could know of
\* (senders/juggler/juggler.go:92-163, 190-194).
EventsAccounted == Send!EventsAccounted

\* The history of one process is its latest events without a gap, that of two
\* is in the order of the writes (senders/juggler/plugins_store.go:105-143).
HistoryKept == Store!HistoryKept

\* Every open connection is the one in the pool for its endpoint
\* (senders/graphite/connectionpool.go:77-109).
NoConnectionLeaks == Pool!NoConnectionLeaks

\* Only payloads without a subgroup leave their aggregates in the names of
\* later points (senders/graphite/graphite.go:116-151).
PointsNamed == Pool!PointsNamed

=============================================================================
