----------------------------- MODULE WorkerTask -----------------------------
(***************************************************************************)
(* The goroutines of one call to a worker.  DoParsing (worker/parsing.go)   *)
(* fetches the host's data, then runs a parser goroutine for every key;     *)
(* DoAggregating (worker/aggregating.go) runs a goroutine for every         *)
(* request, then DoSending (worker/sending.go) one for every sender.  Both  *)
(* collect the results from an unbuffered channel that another goroutine    *)
(* closes when the WaitGroup is down to zero.                               *)
(***************************************************************************)
EXTENDS Integers, FiniteSets

CONSTANTS
  Jobs,     \* the parser calls or the aggregation requests
  KeyOf,    \* KeyOf[j]: the key under which the result of j is kept
  Fetches,  \* the call is a DoParsing
  NoJob,    \* no result is kept
  Senders   \* the senders of the aggregation config; a DoParsing has no use for them

WorkerTaskAssumption ==
  /\ IsFiniteSet(Jobs) /\ IsFiniteSet(Senders) /\ NoJob \notin Jobs
  /\ KeyOf \in [Jobs -> {KeyOf[j] : j \in Jobs}]
  /\ Fetches \in BOOLEAN

VARIABLES
  pc,       \* where the call itself is
  job,      \* job[j]: where the goroutine of job j is
  wg,       \* the WaitGroup of the jobs
  closed,   \* the closer has closed ch
  answered, \* the jobs whose call was answered (history)
  result,   \* result[k]: the job whose result is kept under k, or none
  sender    \* sender[s]: where the goroutine of sender s is

vars == <<pc, job, wg, closed, answered, result, sender>>

Init ==
  /\ pc = IF Fetches THEN "fetch" ELSE "start"
  /\ job = [j \in Jobs |-> "none"]
  /\ wg = 0 /\ closed = FALSE /\ answered = {}
  /\ result = [k \in {KeyOf[j] : j \in Jobs} |-> NoJob]
  /\ sender = [s \in Senders |-> "none"]

\* fetchDataFromTarget; an error is the answer of the call.
Fetch ==
  /\ pc = "fetch"
  /\ pc' \in {"start", "failed"}
  /\ UNCHANGED <<job, wg, closed, answered, result, sender>>

\* The loop that starts the goroutines.  A config without type or class, or
\* one that cannot be packed, gets none, or one that returns at once.
Start ==
  /\ pc = "start"
  /\ \E bad \in SUBSET Jobs :
       /\ job' = [j \in Jobs |-> IF j \in bad THEN "end" ELSE "call"]
       /\ wg' = Cardinality(Jobs)
  /\ pc' = "collect"
  /\ UNCHANGED <<closed, answered, result, sender>>

\* The aggregator answers, or the call fails or ends with its context.
Call(j) ==
  /\ job[j] = "call"
  /\ \/ job' = [job EXCEPT ![j] = "send"] /\ answered' = answered \union {j}
     \/ job' = [job EXCEPT ![j] = "end"] /\ UNCHANGED answered
  /\ UNCHANGED <<pc, wg, closed, result, sender>>

\* A send that gives up when nobody receives at that moment.
DeliverOrDrop(j) ==
  /\ job[j] = "send" /\ pc = "collect"
  /\ job' = [job EXCEPT ![j] = "end"]
  /\ result' = [result EXCEPT ![KeyOf[j]] = j] \/ UNCHANGED result
  /\ UNCHANGED <<pc, wg, closed, answered, sender>>

\* The send on ch meets the receive of the range loop.
Deliver(j) ==
  /\ job[j] = "send" /\ pc = "collect"
  /\ job' = [job EXCEPT ![j] = "end"]
  /\ result' = [result EXCEPT ![KeyOf[j]] = j]
  /\ UNCHANGED <<pc, wg, closed, answered, sender>>

\* wg.Done at the end of the goroutine, which an error leaves before.
DoneIfAnswered(j) ==
  /\ job[j] = "end" /\ j \in answered
  /\ job' = [job EXCEPT ![j] = "done"]
  /\ wg' = wg - 1
  /\ UNCHANGED <<pc, closed, answered, result, sender>>

\* The deferred wg.Done.
Done(j) ==
  /\ job[j] = "end"
  /\ job' = [job EXCEPT ![j] = "done"]
  /\ wg' = wg - 1
  /\ UNCHANGED <<pc, closed, answered, result, sender>>

\* A closer that waits for the calls only.
CloseAfterCalls ==
  /\ pc = "collect" /\ ~closed /\ \A j \in Jobs : job[j] # "call"
  /\ closed' = TRUE
  /\ UNCHANGED <<pc, job, wg, answered, result, sender>>

\* The closer: wg.Wait, close(ch).
CloseChan ==
  /\ pc = "collect" /\ wg = 0 /\ ~closed
  /\ closed' = TRUE
  /\ UNCHANGED <<pc, job, wg, answered, result, sender>>

\* The range loop ends when ch is closed; DoAggregating goes on to DoSending.
\* Senders without a known type are left out.
Collected ==
  /\ pc = "collect" /\ closed
  /\ IF Fetches
     THEN pc' = "returned" /\ UNCHANGED sender
     ELSE /\ pc' = "sending"
          /\ \E known \in SUBSET Senders :
               sender' = [s \in Senders |-> IF s \in known THEN "call" ELSE "done"]
  /\ UNCHANGED <<job, wg, closed, answered, result>>

\* DoSend is answered or fails: either way it is only logged.
Send(s) ==
  /\ sender[s] = "call"
  /\ sender' = [sender EXCEPT ![s] = "done"]
  /\ UNCHANGED <<pc, job, wg, closed, answered, result>>

\* wg.Wait of DoSending; the call returns nil.
Sent ==
  /\ pc = "sending" /\ \A s \in Senders : sender[s] = "done"
  /\ pc' = "returned"
  /\ UNCHANGED <<job, wg, closed, answered, result, sender>>

Next ==
  \/ Fetch \/ Start \/ CloseChan \/ Collected \/ Sent
  \/ \E j \in Jobs : Call(j) \/ Deliver(j) \/ Done(j)
  \/ \E s \in Senders : Send(s)

Spec == Init /\ [][Next]_vars

\* Goroutines run, and a call returns at the latest when its context ends.
Fairness ==
  /\ WF_vars(Fetch \/ Start \/ CloseChan \/ Collected \/ Sent)
  /\ \A j \in Jobs : WF_vars(Call(j) \/ Deliver(j) \/ Done(j))
  /\ \A s \in Senders : WF_vars(Send(s))

FairSpec == Spec /\ Fairness

-----------------------------------------------------------------------------
(* Properties *)

(***************************************************************************)
(* Nobody sends on ch, or is about to, once it is closed: a send on a       *)
(* closed channel would end the process (parsing.go:119-127,                *)
(* aggregating.go:168-176).                                                 *)
(***************************************************************************)
NoSendOnClosed == closed => \A j \in Jobs : job[j] \notin {"call", "send"}

(***************************************************************************)
(* What the call goes on with has a result for exactly the keys for which   *)
(* some goroutine had an answer, whatever their order (parsing.go:129-132,  *)
(* aggregating.go:178-181).                                                 *)
(***************************************************************************)
NoResultLost ==
  pc \in {"sending", "returned"} =>
    /\ \A j \in answered : result[KeyOf[j]] \in answered
    /\ \A k \in DOMAIN result : result[k] # NoJob => KeyOf[result[k]] = k

=============================================================================
