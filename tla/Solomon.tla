------------------------------ MODULE Solomon ------------------------------
(***************************************************************************)
(* The solomon sender (senders/solomon/solomon.go): DoSend calls that queue *)
(* their pushes on the bounded JobQueue, and the workers that POST each job *)
(* to the Solomon API and retry after timeouts.                             *)
(*                                                                         *)
(* The payload of a push, the building of the pushes (sendInternal decides  *)
(* between an error and a number of pushes) and the length of the sleeps    *)
(* are left out.                                                            *)
(***************************************************************************)
EXTENDS Naturals, Sequences, FiniteSets

CONSTANTS
  Calls,      \* DoSend calls
  Workers,    \* as many as JobQueue has places: StartWorkers
  Retry,      \* Worker.Retry, which is postRetries
  MaxPushes   \* bound on the pushes of one call

ASSUME SolomonAssumption ==
  /\ IsFiniteSet(Workers)
  /\ Retry \in Nat
  /\ MaxPushes \in Nat

Jobs == Calls \X (1 .. MaxPushes)
NoJob == <<>>

\* What one POST yields: 200; 408; another status; the attempt's context
\* expired; any other error of the HTTP client.
Replies == {"200", "408", "status", "deadline", "error"}

Timeouts == {"408", "deadline"}

VARIABLES
  call,       \* call[s]: "new", "sending", "done" or "failed"
  pushes,     \* pushes[s]: how many pushes Send made out of its task
  queued,     \* queued[s]: how many of them are on the queue so far
  queue,      \* JobQueue
  job,        \* job[w]: the job worker w has, or NoJob
  attempt,    \* attempt[w]: sendToSolomon's local variables: attempt,
  isTimeout,  \* isTimeout
  sendErr,    \* and whether sendErr is set
  posts,      \* posts[j]: how often job j was POSTed
  last,       \* last[j]: the reply to its last POST ("none" before it)
  accepted,   \* the jobs some POST of which was answered 200
  result      \* result[j]: "none", "ok" or "err", as sendToSolomon returned

callVars == <<call, pushes, queued>>
workVars == <<job, attempt, isTimeout, sendErr, posts, last, accepted, result>>
vars == <<call, pushes, queued, queue, job, attempt, isTimeout, sendErr, posts, last, accepted, result>>

Init ==
  /\ call = [s \in Calls |-> "new"]
  /\ pushes = [s \in Calls |-> 0]
  /\ queued = [s \in Calls |-> 0]
  /\ queue = <<>>
  /\ job = [w \in Workers |-> NoJob]
  /\ attempt = [w \in Workers |-> 0]
  /\ isTimeout = [w \in Workers |-> FALSE]
  /\ sendErr = [w \in Workers |-> FALSE]
  /\ posts = [j \in Jobs |-> 0]
  /\ last = [j \in Jobs |-> "none"]
  /\ accepted = {}
  /\ result = [j \in Jobs |-> "none"]

-----------------------------------------------------------------------------
(* Send *)

\* sendInternal fails: nothing is queued.  Otherwise it has built 0 or more
\* pushes (an empty task has none).
SendBegin(s) ==
  /\ call[s] = "new"
  /\ \/ /\ call' = [call EXCEPT ![s] = "failed"]
        /\ UNCHANGED pushes
     \/ \E n \in 0 .. MaxPushes :
          /\ call' = [call EXCEPT ![s] = "sending"]
          /\ pushes' = [pushes EXCEPT ![s] = n]
  /\ UNCHANGED <<queued, queue, workVars>>

\* JobQueue <- Job{...}: blocks while the queue is full.  (A push that does
\* not marshal is queued too, empty.)
SendQueue(s) ==
  /\ call[s] = "sending"
  /\ queued[s] < pushes[s]
  /\ Len(queue) < Cardinality(Workers)
  /\ queue' = Append(queue, <<s, queued[s] + 1>>)
  /\ queued' = [queued EXCEPT ![s] = @ + 1]
  /\ UNCHANGED <<call, pushes, workVars>>

\* Send returns the marshal errors, if any.
SendEnd(s) ==
  /\ call[s] = "sending"
  /\ queued[s] = pushes[s]
  /\ \E r \in {"done", "failed"} : /\ r = "failed" => pushes[s] > 0
                                   /\ call' = [call EXCEPT ![s] = r]
  /\ UNCHANGED <<pushes, queued, queue, workVars>>

-----------------------------------------------------------------------------
(* A worker: start and sendToSolomon *)

\* A worker that keeps the locals of the job before.
TakeKeepsLocals(w) ==
  /\ job[w] = NoJob /\ queue # <<>>
  /\ job' = [job EXCEPT ![w] = Head(queue)]
  /\ queue' = Tail(queue)
  /\ UNCHANGED <<callVars, attempt, isTimeout, sendErr, posts, last, accepted, result>>

\* for job := range j
Take(w) ==
  /\ job[w] = NoJob /\ queue # <<>>
  /\ job' = [job EXCEPT ![w] = Head(queue)]
  /\ queue' = Tail(queue)
  /\ attempt' = [attempt EXCEPT ![w] = 0]
  /\ isTimeout' = [isTimeout EXCEPT ![w] = FALSE]
  /\ sendErr' = [sendErr EXCEPT ![w] = FALSE]
  /\ UNCHANGED <<callVars, posts, last, accepted, result>>

\* Whether the loop goes on after a reply: isTimeout is set by a 408 and a
\* deadline, cleared by another bad status, and kept by a 200 (whose break
\* only leaves the switch) and by any other error.
TimeoutAfter(w, reply) ==
  CASE reply \in Timeouts -> TRUE
    [] reply = "status" -> FALSE
    [] reply \in {"200", "error"} -> isTimeout[w]

\* sendErr after a reply: a deadline leaves it as it is.
ErrAfter(w, reply) ==
  CASE reply = "200" -> FALSE
    [] reply = "deadline" -> sendErr[w]
    [] reply \in {"408", "status", "error"} -> TRUE

\* sendToSolomon returns to start, which logs the error and drops the job.
Finish(w, err) ==
  /\ result' = [result EXCEPT ![job[w]] = IF err THEN "err" ELSE "ok"]
  /\ job' = [job EXCEPT ![w] = NoJob]
  /\ UNCHANGED <<callVars, queue>>

\* One POST with its reply, and the end of the loop's turn.
PostOnce(w) ==
  /\ attempt' = [attempt EXCEPT ![w] = @ + 1]
  /\ posts' = [posts EXCEPT ![job[w]] = @ + 1]
  /\ \E reply \in Replies :
       /\ last' = [last EXCEPT ![job[w]] = reply]
       /\ accepted' = IF reply = "200" THEN accepted \union {job[w]} ELSE accepted
       /\ isTimeout' = [isTimeout EXCEPT ![w] = TimeoutAfter(w, reply)]
       /\ sendErr' = [sendErr EXCEPT ![w] = ErrAfter(w, reply)]
  /\ IF isTimeout'[w]
     THEN UNCHANGED <<callVars, queue, job, result>>
     ELSE Finish(w, sendErr'[w])

\* The loop has attempts left.
Post(w) ==
  /\ job[w] # NoJob
  /\ attempt[w] < Retry
  /\ PostOnce(w)

\* A worker that gives up without an error of its own.
GiveUpQuietly(w) ==
  /\ job[w] # NoJob
  /\ attempt[w] >= Retry
  /\ Finish(w, sendErr[w])
  /\ UNCHANGED <<attempt, isTimeout, sendErr, posts, last, accepted>>

\* A worker that waits for another attempt it does not have.
GiveUpNever(w) ==
  /\ job[w] # NoJob
  /\ attempt[w] > Retry
  /\ Finish(w, TRUE)
  /\ UNCHANGED <<attempt, isTimeout, sendErr, posts, last, accepted>>

\* attempt >= w.Retry: sendErr is overwritten.
GiveUp(w) ==
  /\ job[w] # NoJob
  /\ attempt[w] >= Retry
  /\ Finish(w, TRUE)
  /\ UNCHANGED <<attempt, isTimeout, sendErr, posts, last, accepted>>

SendStep(s) == SendBegin(s) \/ SendQueue(s) \/ SendEnd(s)

WorkerStep(w) == Take(w) \/ Post(w) \/ GiveUp(w)

Next ==
  \/ \E s \in Calls : SendStep(s)
  \/ \E w \in Workers : WorkerStep(w)

(***************************************************************************)
(* A POST ends, its context has a deadline, so a worker goes on; a sender   *)
(* that finds room in the queue goes on.                                    *)
(***************************************************************************)
Fairness ==
  /\ \A s \in Calls : WF_vars(SendStep(s))
  /\ \A w \in Workers : WF_vars(WorkerStep(w))

Spec == Init /\ [][Next]_vars

FairSpec == Spec /\ Fairness

-----------------------------------------------------------------------------
(* Properties *)

(***************************************************************************)
(* A job that sendToSolomon reports as sent was accepted by the API: no mix *)
(* of timeouts, which do not set sendErr, and errors ends in a nil error    *)
(* without a 200 (solomon.go:284-287, 309-318).                             *)
(***************************************************************************)
ReportedMeansAccepted == \A j \in Jobs : result[j] = "ok" => j \in accepted

(***************************************************************************)
(* Every job has all of its attempts, whatever the worker's job before went *)
(* through: it is given up after Retry POSTs, or over a reply that is not a *)
(* timeout (solomon.go:279-287, 315-318).                                   *)
(***************************************************************************)
AttemptsNotShared ==
  \A j \in Jobs :
    result[j] = "err" => posts[j] = Retry \/ last[j] \in {"status", "error"}

\* Every call of Send returns, however often it finds the queue full
\* (solomon.go:267): the workers never stop taking jobs.
EveryCallEnds == \A s \in Calls : []<>(call[s] \in {"done", "failed"})

\* A job on the queue is sent or given up, also after its call has returned.
EveryJobEnds ==
  \A s \in Calls, n \in 1 .. MaxPushes :
    []<>(queued[s] >= n => result[<<s, n>>] # "none")

\* Both: nobody waits for ever for the workers (solomon.go:249-335).
EverythingEnds == EveryCallEnds /\ EveryJobEnds

(***************************************************************************)
(* "do not retry on net or http non timeout errors" (solomon.go:316): a     *)
(* worker that is about to POST a job again has not just met such an error. *)
(* After a timeout the code does retry them: isTimeout is still set.        *)
(***************************************************************************)
OnlyTimeoutsRetried ==
  \A w \in Workers :
    job[w] # NoJob /\ attempt[w] \in 1 .. Retry - 1 =>
      last[job[w]] \notin {"status", "error"}

=============================================================================
