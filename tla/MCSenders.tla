----------------------------- MODULE MCSenders -----------------------------
(***************************************************************************)
(* SenderServices for TLC.  Its parts share no variable, so that their      *)
(* interleavings add nothing: the initial state chooses which of them moves.*)
(***************************************************************************)
EXTENDS SenderServices, TLC

CONSTANTS a, b, proc1, proc2, w1, w2, e1, e2

VARIABLE part  \* what moves

-----------------------------------------------------------------------------
(* The instances *)

\* Two senders with a host each under one check.
Event(h, c) == [host |-> h, service |-> c]
SharedCheck == (a :> <<Event("h1", "4xx")>>) @@ (b :> <<Event("h2", "4xx")>>)

CheckConf ==
  [ttl |-> 0, aggregator |-> "timed", notifications |-> {}, method |-> {"sms", "mail"},
   flaps |-> "none", flapsByChecks |-> [c \in {"4xx"} |-> "stable"],
   tags |-> {}, description |-> "", namespace |-> ""]

\* Nothing, or somebody else's check: other settings, a tag and a child to
\* be kept.
OldCheck ==
  [service |-> "4xx", ttl |-> 60, aggregator |-> "", notifications |-> {}, flaps |-> "none",
   tags |-> {"own"}, description |-> "", namespace |-> "", children |-> {"h3"}]
InitialChecks == {"4xx" :> [service |-> "none"], "4xx" :> OldCheck}

\* A payload without its tags, a map with a slice in it, and a map with a
\* slice that does not fit.
Fits(path) == [path |-> path, fits |-> TRUE]
Misfits(path) == [path |-> path, fits |-> FALSE]
Payload(agg, sub, ls) == [aggregate |-> agg, subgroup |-> sub, leaves |-> ls]
Mixed ==
  <<Payload("20x", NoSubgroup, <<Fits(<<>>)>>),
    Payload("30x", "host", <<Fits(<<"m", "A">>), Fits(<<"m", "B">>)>>),
    Payload("40x", "dc", <<Fits(<<"k">>), Misfits(<<"n">>)>>)>>

-----------------------------------------------------------------------------

\* Senders of one process that find nothing, or of two that find the old
\* check; Pushes of one process or of two; batches, or every event to every
\* frontend.  What does not move has only one initial state.
MCInit ==
  /\ part \in {"checks", "send", "store", "graphite"}
  /\ Init
  /\ processOf[a] = proc1 /\ (part # "checks" => processOf[b] = proc1)
  /\ server["4xx"] = OldCheck <=> processOf[b] = proc2
  /\ batchEndpoint \/ part = "send"
  /\ workerOf[a] = w1 /\ (part # "store" => workerOf[b] = w1)
  /\ endpoint[a] = e1 /\ (part # "graphite" => endpoint[b] = e1)

OneProcess == processOf[a] = processOf[b]
OneWorker == workerOf[a] = workerOf[b]

\* Garbled answers and the last Push only in one process, a second API host
\* only with two.
MCNext ==
  /\ \/ part = "checks" /\ ChecksMoves
        /\ IF OneProcess THEN \A s \in Senders : tried'[s] = Checks!NoneTried ELSE garbled' = 0
     \/ part = "send" /\ SendMoves
     \/ part = "store" /\ StoreMoves /\ (OneWorker \/ pushed' < MaxEvents)
     \/ part = "graphite" /\ GraphiteMoves
  /\ UNCHANGED part

\* Where nothing has been asked for, nothing of JugglerChecks, EventsStore and
\* Graphite is enabled; JugglerSend begins with a step of its own.
Fairness ==
  /\ Checks!Fairness /\ Store!Fairness /\ Pool!Fairness
  /\ WF_sendVars(part = "send" /\ (Send!Slice \/ Send!Single \/ Send!Return))
  /\ \A j \in 1 .. Events * JFrontend :
       WF_sendVars(part = "send" /\ j \in Send!Jobs /\ Send!JobStep(j))

MCSpec ==
  /\ MCInit /\ [][MCNext]_<<part, checksVars, sendVars, storeVars, graphiteVars>>
  /\ Fairness

-----------------------------------------------------------------------------

\* Everybody gets on: sendInternal returns, the worker of the events store
\* gets to its next request, and every Send to graphite ends
\* (senders/juggler/juggler.go:99-158, plugins_store.go:135-139,
\* senders/graphite/connectionpool.go:77-96).
SendersEnd ==
  /\ []<>(part = "send" => result # "none")
  /\ Store!WorkerServes
  /\ Pool!SendEnds

=============================================================================
