------------------------------- MODULE Spawn -------------------------------
(***************************************************************************)
(* SpawnServices of the worker (worker/worker.go): the aggregator first,    *)
(* then a goroutine for every sender binary in appsDir that starts the      *)
(* process, dials it and registers the connection; the errors are collected *)
(* from a channel that another goroutine closes after wg.Wait.              *)
(*                                                                         *)
(* Left out: the goroutine that runs a process again whenever it ends (it   *)
(* shares nothing with the rest), ports, logs and environment.  Dialling is *)
(* external: it succeeds or fails.                                          *)
(***************************************************************************)
EXTENDS Integers, Sequences, FiniteSets

CONSTANTS
  Services,  \* the files of appsDir
  Attempts,  \* attempts of dialService
  ErrSize,   \* capacity of errCh
  PoolSize   \* number of aggregatorConnections

SpawnAssumption ==
  IsFiniteSet(Services) /\ {Attempts, ErrSize, PoolSize} \subseteq Nat

VARIABLES
  pc,        \* where SpawnServices is
  agg,       \* how many aggregatorConnections are set
  service,   \* service[s]: where the goroutine of s is
  tries,     \* tries[s]: failed attempts of dialService
  services,  \* the registered senders
  wg,        \* the WaitGroup
  errCh,     \* the services whose errors are in errCh
  closed,    \* errCh is closed
  errs       \* the services whose errors have been received

vars == <<pc, agg, service, tries, services, wg, errCh, closed, errs>>

Init ==
  /\ pc = "aggregator" /\ agg = 0
  /\ service = [s \in Services |-> "none"]
  /\ tries = [s \in Services |-> 0]
  /\ services = {} /\ wg = 0
  /\ errCh = <<>> /\ closed = FALSE /\ errs = {}

\* Every connection of the pool is dialled; the first error is returned.
DialAggregator ==
  /\ pc = "aggregator"
  /\ \/ agg < PoolSize /\ agg' = agg + 1 /\ UNCHANGED pc
     \/ agg < PoolSize /\ pc' = "failed" /\ UNCHANGED agg
     \/ agg = PoolSize /\ pc' \in {"spawn", "failed"} /\ UNCHANGED agg
  /\ UNCHANGED <<service, tries, services, wg, errCh, closed, errs>>

\* The loop over the files of appsDir.
SpawnAll ==
  /\ pc = "spawn"
  /\ service' = [s \in Services |-> "dial"]
  /\ wg' = Cardinality(Services)
  /\ pc' = "collect"
  /\ UNCHANGED <<agg, tries, services, errCh, closed, errs>>

\* dialService: as long as i =< attempts.
Dial(s) ==
  /\ service[s] = "dial"
  /\ \/ /\ service' = [service EXCEPT ![s] = "register"]
        /\ UNCHANGED tries
     \/ /\ tries' = [tries EXCEPT ![s] = @ + 1]
        /\ service' = [service EXCEPT ![s] = IF tries[s] < Attempts THEN "dial" ELSE "error"]
  /\ UNCHANGED <<pc, agg, services, wg, errCh, closed, errs>>

\* A goroutine that is done and has registered nothing.
DoneUnregistered(s) ==
  /\ service[s] = "register"
  /\ service' = [service EXCEPT ![s] = "up"]
  /\ wg' = wg - 1
  /\ UNCHANGED <<pc, agg, tries, services, errCh, closed, errs>>

Register(s) ==
  /\ service[s] = "register"
  /\ service' = [service EXCEPT ![s] = "up"]
  /\ services' = services \union {s}
  /\ wg' = wg - 1
  /\ UNCHANGED <<pc, agg, tries, errCh, closed, errs>>

\* errCh <- err, and return without wg.Done.
SendError(s) ==
  /\ service[s] = "error" /\ Len(errCh) < ErrSize
  /\ service' = [service EXCEPT ![s] = "gone"]
  /\ errCh' = Append(errCh, s)
  /\ UNCHANGED <<pc, agg, tries, services, wg, closed, errs>>

CloseErrCh ==
  /\ pc = "collect" /\ wg = 0 /\ ~closed
  /\ closed' = TRUE
  /\ UNCHANGED <<pc, agg, service, tries, services, wg, errCh, errs>>

Receive ==
  /\ pc = "collect" /\ errCh # <<>>
  /\ errs' = errs \union {Head(errCh)}
  /\ errCh' = Tail(errCh)
  /\ UNCHANGED <<pc, agg, service, tries, services, wg, closed>>

\* The range loop ends: nil, or the errors.
Return ==
  /\ pc = "collect" /\ errCh = <<>> /\ closed
  /\ pc' = IF errs = {} THEN "serving" ELSE "failed"
  /\ UNCHANGED <<agg, service, tries, services, wg, errCh, closed, errs>>

Next ==
  \/ DialAggregator \/ SpawnAll \/ CloseErrCh \/ Receive \/ Return
  \/ \E s \in Services : Dial(s) \/ Register(s) \/ SendError(s)

Spec == Init /\ [][Next]_vars

\* Every goroutine runs, and a dial ends one way or the other.
Fairness ==
  /\ WF_vars(DialAggregator \/ SpawnAll \/ CloseErrCh \/ Receive \/ Return)
  /\ \A s \in Services : WF_vars(Dial(s) \/ Register(s) \/ SendError(s))

FairSpec == Spec /\ Fairness

-----------------------------------------------------------------------------
(* Properties *)

(***************************************************************************)
(* The worker serves only with every sender registered and the aggregator's *)
(* pool complete: from then on services and aggregatorConnections are read  *)
(* without the lock that register takes (worker.go:30-43, 122-184).         *)
(***************************************************************************)
ServesWithAll == pc = "serving" => services = Services /\ agg = PoolSize

=============================================================================
