---------------------------- MODULE JugglerSend ----------------------------
(***************************************************************************)
(* The events of one Send of the juggler sender (sendInternal, sendBatch    *)
(* and sendEvent of senders/juggler/juggler.go): a goroutine per batch, or  *)
(* per event and frontend, one shared counter of failed events, and the     *)
(* error that is made of it once all goroutines have ended.                 *)
(*                                                                         *)
(* The endpoint is external: it takes any part of what is posted, and what  *)
(* the sender gets to know of that is an answer or none.  Left out: the     *)
(* 100 ms between two attempts, and the marshalling of a batch.             *)
(***************************************************************************)
EXTENDS Naturals, Sequences, FiniteSets

CONSTANTS
  Events,         \* number of events of the Send
  JFrontend,      \* number of frontends
  BatchSize,      \* events in a batch
  Attempts        \* attempts of sendBatch

JugglerSendAssumption ==
  /\ {Events, JFrontend, BatchSize, Attempts} \subseteq Nat
  /\ JFrontend > 0 /\ BatchSize > 0 /\ Attempts > 0

\* What ioutil.ReadAll leaves in responseBody: a report of the events that
\* were not taken, an error of the endpoint, or what is not JSON.
NoBody == [kind |-> "unreadable"]
ErrorBody == [kind |-> "error"]
Report(lost) == [kind |-> "report", lost |-> lost]

VARIABLES
  batchEndpoint,  \* the Send is configured with an endpoint for batches
  sliced,         \* number of events that have all their goroutines
  front,          \* number of frontends the next event has been given to
  je,             \* je[j]: the events of goroutine j
  pc,             \* pc[j]: "post", "sent", "failed" or "done"
  retry,          \* retry[j]: the attempts so far
  body,           \* body[j]: responseBody
  failed,         \* sendEeventsFailed
  taken,          \* taken[j]: the events of j that were taken (external)
  answered,       \* answered[j]: the last answer was a 200 (a history variable)
  result          \* what sendInternal returned, "none" until then

jobVars == <<retry, body, taken, answered>>
vars == <<batchEndpoint, sliced, front, je, pc, retry, body, failed, taken, answered, result>>

Jobs == DOMAIN je

Init ==
  /\ batchEndpoint \in BOOLEAN
  /\ sliced = 0 /\ front = 0 /\ je = <<>> /\ pc = <<>>
  /\ retry = <<>> /\ body = <<>> /\ taken = <<>> /\ answered = <<>>
  /\ failed = 0 /\ result = "none"

\* go func: the next goroutine, for the events es.
Go(es) ==
  /\ je' = Append(je, es)
  /\ pc' = Append(pc, "post")
  /\ retry' = Append(retry, 0)
  /\ body' = Append(body, NoBody)
  /\ taken' = Append(taken, {})
  /\ answered' = Append(answered, FALSE)

Slice ==
  /\ batchEndpoint /\ sliced < Events
  /\ sliced' = IF Events - sliced > BatchSize THEN sliced + BatchSize ELSE Events
  /\ Go(sliced + 1 .. sliced')
  /\ UNCHANGED <<batchEndpoint, front, failed, result>>

\* Without a batch endpoint: every event to every frontend.
Single ==
  /\ ~batchEndpoint /\ sliced < Events
  /\ Go({sliced + 1})
  /\ IF front + 1 = JFrontend
     THEN front' = 0 /\ sliced' = sliced + 1
     ELSE front' = front + 1 /\ sliced' = sliced
  /\ UNCHANGED <<batchEndpoint, failed, result>>

-----------------------------------------------------------------------------
(* sendBatch                                                                *)

\* The attempt is over: the loop ends or goes on.
Attempted(j, ends) ==
  /\ retry' = [retry EXCEPT ![j] = @ + 1]
  /\ pc' = [pc EXCEPT ![j] = IF ends # "again" THEN ends
                             ELSE IF retry[j] + 1 < Attempts THEN "post" ELSE "failed"]

Takes(j, es) == taken' = [taken EXCEPT ![j] = @ \union es]

\* 200: a read error is overridden.
PostOK(j) ==
  /\ batchEndpoint /\ pc[j] = "post"
  /\ \E es \in SUBSET je[j] :
       /\ Takes(j, es)
       /\ \E b \in {NoBody, Report(je[j] \ es)} \union (IF es = {} THEN {ErrorBody} ELSE {}) :
            body' = [body EXCEPT ![j] = b]
  /\ Attempted(j, "sent")
  /\ answered' = [answered EXCEPT ![j] = TRUE]
  /\ UNCHANGED <<batchEndpoint, sliced, front, je, failed, result>>

\* Another status: tried again, unless it is 400.
PostRefused(j) ==
  /\ batchEndpoint /\ pc[j] = "post"
  /\ \E b \in {NoBody, ErrorBody, Report(je[j])} : body' = [body EXCEPT ![j] = b]
  /\ \E ends \in {"again", "failed"} : Attempted(j, ends)
  /\ UNCHANGED <<batchEndpoint, sliced, front, je, failed, taken, answered, result>>

\* No answer: the body of an earlier attempt is kept.  When it is the
\* context that ended, the next attempt has 5 seconds of its own.
PostUnanswered(j) ==
  /\ batchEndpoint /\ pc[j] = "post"
  /\ \E es \in SUBSET je[j] : Takes(j, es)
  /\ Attempted(j, "again")
  /\ UNCHANGED <<batchEndpoint, sliced, front, je, body, failed, answered, result>>

\* A goroutine that looks at the response only after an error.
BatchEndsEarly(j) ==
  /\ batchEndpoint /\ pc[j] \in {"sent", "failed"}
  /\ failed' = failed + (IF pc[j] = "failed" THEN Cardinality(je[j]) ELSE 0)
  /\ pc' = [pc EXCEPT ![j] = "done"]
  /\ UNCHANGED <<batchEndpoint, sliced, front, je, jobVars, result>>

\* The goroutine of a batch after sendBatch: an error counts the batch, and
\* the response is looked at all the same.
BatchEnds(j) ==
  /\ batchEndpoint /\ pc[j] \in {"sent", "failed"}
  /\ failed' = failed
       + (IF pc[j] = "failed" THEN Cardinality(je[j]) ELSE 0)
       + (IF body[j].kind = "error" THEN Cardinality(je[j]) ELSE 0)
       + (IF body[j].kind = "report" THEN Cardinality(body[j].lost) ELSE 0)
  /\ pc' = [pc EXCEPT ![j] = "done"]
  /\ UNCHANGED <<batchEndpoint, sliced, front, je, jobVars, result>>

-----------------------------------------------------------------------------
(* sendEvent *)

SendEvent(j) ==
  /\ ~batchEndpoint /\ pc[j] = "post"
  /\ retry' = [retry EXCEPT ![j] = 1]
  /\ \/ /\ taken' = [taken EXCEPT ![j] = je[j]]
        /\ answered' = [answered EXCEPT ![j] = TRUE]
        /\ failed' = failed
     \/ /\ \E es \in SUBSET je[j] : Takes(j, es)
        /\ failed' = failed + 1
        /\ UNCHANGED answered
  /\ pc' = [pc EXCEPT ![j] = "done"]
  /\ UNCHANGED <<batchEndpoint, sliced, front, je, body, result>>

\* jWg.Wait
Return ==
  /\ result = "none" /\ sliced = Events /\ \A j \in Jobs : pc[j] = "done"
  /\ result' = IF failed > 0 THEN "error" ELSE "nil"
  /\ UNCHANGED <<batchEndpoint, sliced, front, je, pc, jobVars, failed>>

JobStep(j) ==
  PostOK(j) \/ PostRefused(j) \/ PostUnanswered(j) \/ BatchEnds(j) \/ SendEvent(j)

Next == Slice \/ Single \/ Return \/ \E j \in Jobs : JobStep(j)

Spec == Init /\ [][Next]_vars

\* Goroutines run, and a request ends: it has the context's deadline.
Fairness ==
  /\ WF_vars(Slice \/ Single \/ Return)
  /\ \A j \in 1 .. Events * (1 + JFrontend) : WF_vars(j \in Jobs /\ JobStep(j))

FairSpec == Spec /\ Fairness

-----------------------------------------------------------------------------
(* Properties *)

\* Copies of event e that were sent: batches, or frontends, that hold it.
Carriers(e) == {j \in Jobs : e \in je[j]}

(***************************************************************************)
(* Slicing gives every event to one batch, or to every frontend, and no     *)
(* batch is empty or larger than BatchSize (juggler.go:92-113).             *)
(***************************************************************************)
EveryEventSent ==
  /\ \A j \in Jobs : Cardinality(je[j]) \in 1 .. BatchSize
  /\ result # "none" =>
       \A e \in 1 .. Events : Cardinality(Carriers(e)) = IF batchEndpoint THEN 1 ELSE JFrontend

(***************************************************************************)
(* When sendInternal reports success, every goroutine got a 200, and the    *)
(* endpoint has taken every event, except those of a batch whose answer     *)
(* could not be read: sendBatch overrides that error on purpose             *)
(* (juggler.go:136-163, 190-194).                                           *)
(***************************************************************************)
NilMeansTaken ==
  result = "nil" =>
    \A j \in Jobs : answered[j] /\ (taken[j] # je[j] => batchEndpoint /\ body[j] = NoBody)

\* Both: no event is left out, and none is lost without an error
\* (juggler.go:92-163, 190-194).
EventsAccounted == EveryEventSent /\ NilMeansTaken

=============================================================================
