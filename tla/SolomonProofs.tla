--------------------------- MODULE SolomonProofs ---------------------------
(***************************************************************************)
(* Proofs about Solomon for any number of calls, workers, pushes and        *)
(* attempts: what is reported as sent was accepted, and every job has all   *)
(* of its attempts.                                                         *)
(*                                                                         *)
(* The second needs more than the worker's locals: the count of POSTs of a  *)
(* job is the count of one worker only because a job is in one place at a   *)
(* time (on the queue, with one worker, or ended) and never comes back.     *)
(***************************************************************************)
EXTENDS Solomon, SequenceTheorems, TLAPS

TypeInv ==
  /\ call \in [Calls -> {"new", "sending", "done", "failed"}]
  /\ pushes \in [Calls -> 0 .. MaxPushes]
  /\ queued \in [Calls -> 0 .. MaxPushes]
  /\ queue \in Seq(Jobs)
  /\ job \in [Workers -> Jobs \union {NoJob}]
  /\ attempt \in [Workers -> Nat]
  /\ isTimeout \in [Workers -> BOOLEAN]
  /\ sendErr \in [Workers -> BOOLEAN]
  /\ posts \in [Jobs -> Nat]
  /\ last \in [Jobs -> Replies \union {"none"}]
  /\ accepted \subseteq Jobs
  /\ result \in [Jobs -> {"none", "ok", "err"}]

Pending(j) == \E i \in 1 .. Len(queue) : queue[i] = j

Running(j) == \E w \in Workers : job[w] = j

\* A job that its call has not come to yet.
Future(j) == j[2] > queued[j[1]]

\* A job is in one place at a time.
PlaceInv ==
  /\ \A j \in Jobs : Future(j) \/ Pending(j) => posts[j] = 0 /\ result[j] = "none" /\ ~Running(j)
  /\ \A j \in Jobs : Running(j) => result[j] = "none"
  /\ \A j \in Jobs : Pending(j) \/ Running(j) \/ result[j] # "none" => ~Future(j)
  /\ \A i, k \in 1 .. Len(queue) : queue[i] = queue[k] => i = k
  /\ \A v, w \in Workers : job[v] = job[w] /\ job[v] # NoJob => v = w

\* What sendToSolomon's attempt counts.
AttemptInv ==
  \A w \in Workers : job[w] # NoJob =>
    posts[job[w]] = attempt[w] /\ attempt[w] =< Retry

IInv == TypeInv /\ PlaceInv /\ AttemptInv /\ ReportedMeansAccepted /\ AttemptsNotShared

-----------------------------------------------------------------------------

LEMMA NoJobIsNone == NoJob \notin Jobs
BY DEF NoJob, Jobs

LEMMA InitIInv == Init => IInv
<1> SUFFICES ASSUME Init PROVE IInv
  OBVIOUS
<1>1. queue \in Seq(Jobs) /\ Len(queue) = 0
  BY EmptySeq DEF Init
<1>2. TypeInv
  BY <1>1, SolomonAssumption DEF Init, TypeInv
<1>3. PlaceInv
  BY <1>1, NoJobIsNone DEF Init, PlaceInv, Pending, Running, Future
<1> QED
  BY <1>2, <1>3 DEF Init, IInv, AttemptInv, ReportedMeansAccepted, AttemptsNotShared

\* A step of a call that puts nothing on the queue.
LEMMA SendMovesStep ==
  ASSUME IInv, NEW s \in Calls, SendBegin(s) \/ SendEnd(s) PROVE IInv'
<1>1. TypeInv /\ PlaceInv /\ AttemptInv /\ ReportedMeansAccepted /\ AttemptsNotShared
  BY DEF IInv
<1>2. UNCHANGED <<queued, queue, workVars>>
  BY DEF SendBegin, SendEnd
<1>3. TypeInv'
  BY <1>1, SolomonAssumption DEF SendBegin, SendEnd, workVars, TypeInv
<1>4. PlaceInv'
  BY <1>1, <1>2 DEF workVars, PlaceInv, Pending, Running, Future
<1> QED
  BY <1>1, <1>2, <1>3, <1>4
  DEF workVars, IInv, AttemptInv, ReportedMeansAccepted, AttemptsNotShared

\* The next push of a call goes to the end of the queue.
LEMMA SendQueueStep == ASSUME IInv, NEW s \in Calls, SendQueue(s) PROVE IInv'
<1>1. TypeInv /\ PlaceInv /\ AttemptInv /\ ReportedMeansAccepted /\ AttemptsNotShared
  BY DEF IInv
<1> DEFINE new == <<s, queued[s] + 1>>
<1>2. queued[s] \in Nat /\ queued[s] + 1 \in 1 .. MaxPushes
  BY <1>1, SolomonAssumption DEF SendQueue, TypeInv
<1>3. new \in Jobs /\ Future(new)
  BY <1>2 DEF Jobs, Future
<1>4. /\ queue' \in Seq(Jobs) /\ Len(queue) \in Nat /\ Len(queue') = Len(queue) + 1
      /\ \A i \in 1 .. Len(queue) : queue'[i] = queue[i]
      /\ queue'[Len(queue) + 1] = new
  BY <1>1, <1>3, AppendProperties, LenProperties DEF SendQueue, TypeInv
<1> HIDE DEF new
<1>5. \A j \in Jobs : Pending(j)' <=> Pending(j) \/ j = new
  <2>1. 1 .. Len(queue') = (1 .. Len(queue)) \union {Len(queue) + 1}
    BY <1>4
  <2> QED
    BY <1>4, <2>1 DEF Pending
<1> USE DEF new
<1>6. \A j \in Jobs : Future(j)' <=> Future(j) /\ j # new
  <2>1. \A j \in Jobs : j = <<j[1], j[2]>> /\ j[1] \in Calls /\ j[2] \in Nat
    BY SolomonAssumption DEF Jobs
  <2>2. \A c \in Calls : queued[c] \in Nat
    BY <1>1, SolomonAssumption DEF TypeInv
  <2>3. \A c \in Calls : queued'[c] = IF c = s THEN queued[s] + 1 ELSE queued[c]
    BY <1>1 DEF SendQueue, TypeInv
  <2> QED
    BY <1>2, <2>1, <2>2, <2>3 DEF Future
<1>7. \A j \in Jobs : Running(j)' <=> Running(j)
  BY DEF SendQueue, workVars, Running
<1>8. TypeInv'
  BY <1>1, <1>2, <1>4 DEF SendQueue, workVars, TypeInv
<1>9. PlaceInv'
  <2>1. \A i \in 1 .. Len(queue) : queue[i] # new
    BY <1>1, <1>3 DEF PlaceInv, Pending
  <2>2. \A i, k \in 1 .. Len(queue') : queue'[i] = queue'[k] => i = k
    BY <1>1, <1>4, <2>1 DEF PlaceInv
  <2>3. \A j \in Jobs : /\ Future(j)' \/ Pending(j)' => posts[j] = 0 /\ result[j] = "none" /\ ~Running(j)'
                        /\ Running(j)' => result[j] = "none"
                        /\ Pending(j)' \/ Running(j)' \/ result[j] # "none" => ~Future(j)'
    BY <1>1, <1>3, <1>5, <1>6, <1>7 DEF PlaceInv
  <2> QED
    BY <1>1, <2>2, <2>3 DEF SendQueue, workVars, PlaceInv
<1> QED
  BY <1>1, <1>8, <1>9
  DEF SendQueue, workVars, IInv, AttemptInv, ReportedMeansAccepted, AttemptsNotShared

\* A worker takes the head of the queue, with locals of its own.
LEMMA TakeStep == ASSUME IInv, NEW w \in Workers, Take(w) PROVE IInv'
<1>1. TypeInv /\ PlaceInv /\ AttemptInv /\ ReportedMeansAccepted /\ AttemptsNotShared
  BY DEF IInv
<1>2. /\ Len(queue) \in Nat /\ Len(queue) > 0
      /\ Head(queue) = queue[1] /\ queue[1] \in Jobs
      /\ queue' \in Seq(Jobs) /\ Len(queue') = Len(queue) - 1
      /\ \A i \in 1 .. Len(queue') : queue'[i] = queue[i + 1]
  BY <1>1, HeadTailProperties, LenProperties, EmptySeq DEF Take, TypeInv
<1>3. \A j \in Jobs : Pending(j)' <=> Pending(j) /\ j # queue[1]
  <2>1. \A i \in 1 .. Len(queue') : i + 1 \in 1 .. Len(queue) /\ i + 1 # 1
    BY <1>2
  <2>2. \A k \in 1 .. Len(queue) : k # 1 => k - 1 \in 1 .. Len(queue') /\ queue'[k - 1] = queue[k]
    BY <1>2
  <2>3. 1 \in 1 .. Len(queue)
    BY <1>2
  <2> QED
    BY <1>1, <1>2, <2>1, <2>2, <2>3 DEF Pending, PlaceInv
<1>4. Pending(queue[1])
  BY <1>2 DEF Pending
<1>5. \A j \in Jobs : Running(j)' <=> Running(j) \/ j = queue[1]
  BY <1>1, <1>2, NoJobIsNone DEF Take, Running, TypeInv
<1>6. \A j \in Jobs : Future(j)' <=> Future(j)
  BY DEF Take, callVars, Future
<1>7. TypeInv'
  BY <1>1, <1>2 DEF Take, callVars, TypeInv
<1>8. PlaceInv'
  <2>1. \A i, k \in 1 .. Len(queue') : queue'[i] = queue'[k] => i = k
    BY <1>1, <1>2 DEF PlaceInv
  <2>2. \A u, v \in Workers : job'[u] = job'[v] /\ job'[u] # NoJob => u = v
    BY <1>1, <1>2, <1>4 DEF Take, TypeInv, PlaceInv, Running
  <2>3. \A j \in Jobs : /\ Future(j)' \/ Pending(j)' => posts[j] = 0 /\ result[j] = "none" /\ ~Running(j)'
                        /\ Running(j)' => result[j] = "none"
                        /\ Pending(j)' \/ Running(j)' \/ result[j] # "none" => ~Future(j)'
    BY <1>1, <1>2, <1>3, <1>4, <1>5, <1>6 DEF PlaceInv
  <2> QED
    BY <1>1, <2>1, <2>2, <2>3 DEF Take, PlaceInv
<1>9. AttemptInv'
  <2>1. posts[queue[1]] = 0
    BY <1>1, <1>2, <1>4 DEF PlaceInv
  <2> QED
    BY <1>1, <1>2, <2>1, SolomonAssumption DEF Take, TypeInv, AttemptInv
<1> QED
  BY <1>1, <1>7, <1>8, <1>9 DEF Take, IInv, ReportedMeansAccepted, AttemptsNotShared

\* A job that ends leaves its worker.
LEMMA EndPlace ==
  ASSUME IInv, NEW w \in Workers, job[w] # NoJob, NEW r \in {"ok", "err"},
         job' = [job EXCEPT ![w] = NoJob], result' = [result EXCEPT ![job[w]] = r],
         UNCHANGED <<callVars, queue>>,
         \A j \in Jobs : j # job[w] => posts'[j] = posts[j]
  PROVE  PlaceInv'
<1>1. TypeInv /\ PlaceInv /\ job[w] \in Jobs /\ Running(job[w])
  BY DEF IInv, TypeInv, Running
<1>2. \A j \in Jobs : (Pending(j)' <=> Pending(j)) /\ (Future(j)' <=> Future(j))
  BY DEF callVars, Pending, Future
<1>3. \A j \in Jobs : Running(j)' <=> Running(j) /\ j # job[w]
  BY <1>1, NoJobIsNone DEF Running, TypeInv, PlaceInv
<1>4. \A u, v \in Workers : job'[u] = job'[v] /\ job'[u] # NoJob => u = v
  BY <1>1 DEF TypeInv, PlaceInv
<1>5. \A j \in Jobs : result'[j] = IF j = job[w] THEN r ELSE result[j]
  BY <1>1 DEF TypeInv
<1>6. \A j \in Jobs :
        /\ Future(j)' \/ Pending(j)' => posts'[j] = 0 /\ result'[j] = "none" /\ ~Running(j)'
        /\ Running(j)' => result'[j] = "none"
        /\ Pending(j)' \/ Running(j)' \/ result'[j] # "none" => ~Future(j)'
  BY <1>1, <1>2, <1>3, <1>5 DEF PlaceInv
<1> QED
  BY <1>1, <1>4, <1>6 DEF PlaceInv

\* sendToSolomon gives up after its attempts.
LEMMA GiveUpStep == ASSUME IInv, NEW w \in Workers, GiveUp(w) PROVE IInv'
<1>1. TypeInv /\ PlaceInv /\ AttemptInv /\ ReportedMeansAccepted /\ AttemptsNotShared
  BY DEF IInv
<1>2. job[w] \in Jobs
  BY <1>1 DEF GiveUp, TypeInv
<1>3. /\ job' = [job EXCEPT ![w] = NoJob] /\ result' = [result EXCEPT ![job[w]] = "err"]
      /\ UNCHANGED <<callVars, queue, attempt, isTimeout, sendErr, posts, last, accepted>>
  BY DEF GiveUp, Finish
<1>4. posts[job[w]] = Retry
  BY <1>1, SolomonAssumption DEF GiveUp, AttemptInv, TypeInv
<1>5. TypeInv'
  BY <1>1, <1>2, <1>3 DEF callVars, TypeInv
<1>6. PlaceInv'
  BY <1>3, EndPlace DEF GiveUp
<1>7. AttemptInv'
  BY <1>1, <1>3 DEF AttemptInv, TypeInv
<1>8. ReportedMeansAccepted' /\ AttemptsNotShared'
  BY <1>1, <1>2, <1>3, <1>4 DEF ReportedMeansAccepted, AttemptsNotShared, TypeInv
<1> QED
  BY <1>5, <1>6, <1>7, <1>8 DEF IInv

\* One POST: the job goes on after a timeout, or ends with its reply.
LEMMA PostStep == ASSUME IInv, NEW w \in Workers, Post(w) PROVE IInv'
<1>1. TypeInv /\ PlaceInv /\ AttemptInv /\ ReportedMeansAccepted /\ AttemptsNotShared
  BY DEF IInv
<1>2. job[w] \in Jobs /\ job[w] # NoJob /\ Running(job[w])
  BY <1>1 DEF Post, TypeInv, Running
<1>3. PICK reply \in Replies :
        /\ last' = [last EXCEPT ![job[w]] = reply]
        /\ accepted' = IF reply = "200" THEN accepted \union {job[w]} ELSE accepted
        /\ isTimeout' = [isTimeout EXCEPT ![w] = TimeoutAfter(w, reply)]
        /\ sendErr' = [sendErr EXCEPT ![w] = ErrAfter(w, reply)]
  BY DEF Post, PostOnce
<1>4. /\ attempt' = [attempt EXCEPT ![w] = @ + 1]
      /\ posts' = [posts EXCEPT ![job[w]] = @ + 1]
      /\ \/ isTimeout'[w] /\ UNCHANGED <<callVars, queue, job, result>>
         \/ ~isTimeout'[w] /\ Finish(w, sendErr'[w])
  BY DEF Post, PostOnce
<1>5. TimeoutAfter(w, reply) \in BOOLEAN /\ ErrAfter(w, reply) \in BOOLEAN
  BY <1>1 DEF TimeoutAfter, ErrAfter, Timeouts, Replies, TypeInv
<1>6. isTimeout'[w] = TimeoutAfter(w, reply) /\ sendErr'[w] = ErrAfter(w, reply)
  BY <1>1, <1>3 DEF TypeInv
<1>7. /\ attempt' \in [Workers -> Nat] /\ isTimeout' \in [Workers -> BOOLEAN]
      /\ sendErr' \in [Workers -> BOOLEAN] /\ posts' \in [Jobs -> Nat]
      /\ last' \in [Jobs -> Replies \union {"none"}] /\ accepted' \subseteq Jobs
  BY <1>1, <1>2, <1>3, <1>4, <1>5 DEF TypeInv
<1>8. \A j \in Jobs : j # job[w] => posts'[j] = posts[j] /\ last'[j] = last[j]
  BY <1>1, <1>3, <1>4 DEF TypeInv
<1>9. accepted \subseteq accepted'
  BY <1>3
<1>10. CASE isTimeout'[w] /\ UNCHANGED <<callVars, queue, job, result>>
  <2>1. TypeInv'
    BY <1>1, <1>7, <1>10 DEF callVars, TypeInv
  <2>2. \A j \in Jobs : /\ Pending(j)' <=> Pending(j)
                        /\ Future(j)' <=> Future(j)
                        /\ Running(j)' <=> Running(j)
    BY <1>10 DEF callVars, Pending, Future, Running
  <2>3. PlaceInv'
    BY <1>1, <1>2, <1>8, <1>10, <2>2 DEF PlaceInv
  <2>4. AttemptInv'
    <3>1. attempt[w] < Retry /\ attempt[w] \in Nat /\ posts[job[w]] = attempt[w]
      BY <1>1, <1>2 DEF Post, TypeInv, AttemptInv
    <3>2. posts'[job[w]] = attempt'[w] /\ attempt'[w] =< Retry
      BY <1>1, <1>2, <1>4, <3>1, SolomonAssumption DEF TypeInv
    <3>3. \A v \in Workers \ {w} : job[v] # NoJob => job[v] \in Jobs /\ job[v] # job[w]
      BY <1>1 DEF TypeInv, PlaceInv
    <3>4. \A v \in Workers \ {w} : attempt'[v] = attempt[v]
      BY <1>1, <1>4 DEF TypeInv
    <3> QED
      BY <1>1, <1>8, <1>10, <3>2, <3>3, <3>4 DEF AttemptInv
  <2>5. ReportedMeansAccepted' /\ AttemptsNotShared'
    BY <1>1, <1>2, <1>8, <1>9, <1>10 DEF PlaceInv, ReportedMeansAccepted, AttemptsNotShared
  <2> QED
    BY <2>1, <2>3, <2>4, <2>5 DEF IInv
<1>11. CASE ~isTimeout'[w] /\ Finish(w, sendErr'[w])
  <2> DEFINE r == IF sendErr'[w] THEN "err" ELSE "ok"
  <2>1. /\ job' = [job EXCEPT ![w] = NoJob] /\ result' = [result EXCEPT ![job[w]] = r]
        /\ UNCHANGED <<callVars, queue>> /\ r \in {"ok", "err"}
    BY <1>11 DEF Finish
  <2>2. r = "ok" => job[w] \in accepted'
    BY <1>3, <1>6, <1>11 DEF TimeoutAfter, ErrAfter, Timeouts, Replies
  <2>3. r = "err" => last'[job[w]] \in {"status", "error"}
    BY <1>1, <1>2, <1>3, <1>6, <1>11 DEF TimeoutAfter, ErrAfter, Timeouts, Replies, TypeInv
  <2> HIDE DEF r
  <2>4. TypeInv'
    BY <1>1, <1>2, <1>7, <2>1 DEF callVars, TypeInv
  <2>5. PlaceInv'
    BY <1>2, <1>8, <2>1, EndPlace
  <2>6. AttemptInv'
    <3>1. \A v \in Workers \ {w} : job[v] # NoJob => job[v] \in Jobs /\ job[v] # job[w]
      BY <1>1 DEF TypeInv, PlaceInv
    <3>2. \A v \in Workers \ {w} : attempt'[v] = attempt[v] /\ job'[v] = job[v]
      BY <1>1, <1>4, <2>1 DEF TypeInv
    <3>3. job'[w] = NoJob
      BY <1>1, <2>1 DEF TypeInv
    <3> QED
      BY <1>1, <1>8, <3>1, <3>2, <3>3 DEF AttemptInv
  <2>7. \A j \in Jobs : result'[j] = IF j = job[w] THEN r ELSE result[j]
    BY <1>1, <2>1 DEF TypeInv
  <2>8. ReportedMeansAccepted' /\ AttemptsNotShared'
    BY <1>1, <1>8, <1>9, <2>2, <2>3, <2>7 DEF ReportedMeansAccepted, AttemptsNotShared
  <2> QED
    BY <2>4, <2>5, <2>6, <2>8 DEF IInv
<1> QED
  BY <1>4, <1>10, <1>11

\* Every step, one case per action.
LEMMA InductiveStep == ASSUME IInv, [Next]_vars PROVE IInv'
<1>1. CASE UNCHANGED vars
  BY <1>1 DEF vars, IInv, TypeInv, PlaceInv, Pending, Running, Future, AttemptInv,
              ReportedMeansAccepted, AttemptsNotShared
<1> QED
  BY <1>1, SendMovesStep, SendQueueStep, TakeStep, PostStep, GiveUpStep
  DEF Next, SendStep, WorkerStep

(***************************************************************************)
(* A job that sendToSolomon reports as sent was answered with a 200         *)
(* (solomon.go:284-287, 309-318).                                           *)
(***************************************************************************)
THEOREM SentWasAccepted == Spec => []ReportedMeansAccepted
BY InitIInv, InductiveStep, PTL DEF Spec, IInv

(***************************************************************************)
(* A job is given up after exactly Retry POSTs of its own, or over a reply  *)
(* that is not a timeout, whatever its worker did before                    *)
(* (solomon.go:279-287, 315-318).                                           *)
(***************************************************************************)
THEOREM EveryJobHasItsAttempts == Spec => []AttemptsNotShared
BY InitIInv, InductiveStep, PTL DEF Spec, IInv

(***************************************************************************)
(* A job is on the queue once, with one worker, or ended, and never comes   *)
(* back: no push is posted by two workers (solomon.go:249-287, 324-335).    *)
(***************************************************************************)
THEOREM OneJobOnePlace == Spec => []PlaceInv
BY InitIInv, InductiveStep, PTL DEF Spec, IInv

=============================================================================
