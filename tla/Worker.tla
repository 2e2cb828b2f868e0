------------------------------- MODULE Worker -------------------------------
(***************************************************************************)
(* A worker process (cmd/worker/main.go): SpawnServices first, then calls   *)
(* are served.  Composes Spawn with WorkerTask, as a DoParsing and as a     *)
(* DoAggregating.  Calls share nothing but services and the pool of         *)
(* aggregator connections, so that one call stands for all.                 *)
(***************************************************************************)
EXTENDS Integers, Sequences, FiniteSets

CONSTANTS
  Services, Attempts, ErrSize, PoolSize,  \* of Spawn
  Jobs, NoJob,                            \* of WorkerTask
  ParserKey                               \* ParserKey[j]: the key of parser call j

VARIABLES
  spawn, agg, service, tries, services, spawning, errCh, errChClosed, errs,  \* of Spawn
  call,                                                       \* the call that is served
  pc, job, wg, closed, answered, result, sender               \* of WorkerTask

spawnVars == <<spawn, agg, service, tries, services, spawning, errCh, errChClosed, errs>>
callVars == <<pc, job, wg, closed, answered, result, sender>>
vars == <<spawnVars, call, callVars>>

S == INSTANCE Spawn WITH pc <- spawn, wg <- spawning, closed <- errChClosed

\* A parser's result is kept under a key that others may have too.
P == INSTANCE WorkerTask WITH KeyOf <- ParserKey, Fetches <- TRUE, Senders <- Services

\* An aggregation request has a result of its own; the senders are services.
A == INSTANCE WorkerTask WITH
       KeyOf <- [j \in Jobs |-> j], Fetches <- FALSE, Senders <- Services

ASSUME WorkerAssumption ==
  S!SpawnAssumption /\ P!WorkerTaskAssumption /\ A!WorkerTaskAssumption

Init ==
  /\ S!Init
  /\ \/ call = "DoParsing" /\ P!Init
     \/ call = "DoAggregating" /\ A!Init

\* s.Serve comes after SpawnServices.
Serving == spawn = "serving"

Next ==
  \/ S!Next /\ UNCHANGED <<call, callVars>>
  \/ Serving /\ call = "DoParsing" /\ P!Next /\ UNCHANGED <<spawnVars, call>>
  \/ Serving /\ call = "DoAggregating" /\ A!Next /\ UNCHANGED <<spawnVars, call>>

\* A call's goroutines run once the worker serves.
Fairness ==
  /\ S!Fairness
  /\ \/ []~Serving
     \/ call = "DoParsing" /\ P!Fairness
     \/ call = "DoAggregating" /\ A!Fairness

Spec == Init /\ [][Next]_vars /\ Fairness

-----------------------------------------------------------------------------
(* Properties *)

(***************************************************************************)
(* No goroutine of a call runs while services or the aggregator's pool are  *)
(* incomplete: both are read without the lock that register takes           *)
(* (worker.go:30-43, 122-184, cmd/worker/main.go:76-79).                    *)
(***************************************************************************)
CallsFindAll ==
  (\E j \in Jobs : job[j] # "none") => S!ServesWithAll /\ Serving

(***************************************************************************)
(* Nobody sends on the channel of a call once it is closed                  *)
(* (parsing.go:119-127, aggregating.go:168-176).                            *)
(***************************************************************************)
NoSendOnClosed == P!NoSendOnClosed

(***************************************************************************)
(* What a call goes on with has a result for exactly the keys for which     *)
(* some goroutine had an answer (parsing.go:129-132, aggregating.go:178-    *)
(* 181).                                                                    *)
(***************************************************************************)
NoResultLost ==
  /\ call = "DoParsing" => P!NoResultLost
  /\ call = "DoAggregating" => A!NoResultLost

(***************************************************************************)
(* The worker comes up and the call returns: no goroutine, the closer and   *)
(* the range loop wait for each other for ever (worker.go:145-184,          *)
(* parsing.go:124-134, aggregating.go:173-185, sending.go:50-71).  One case *)
(* is excepted: the goroutine of a service that cannot be spawned reports   *)
(* the error and returns without wg.Done (worker.go:165-168), errCh is      *)
(* never closed, and SpawnServices never returns the error that             *)
(* cmd/worker/main.go:76-78 waits for.                                      *)
(***************************************************************************)
CallReturns == <>(errs # {} \/ spawn = "failed" \/ pc \in {"returned", "failed"})

=============================================================================
