---------------------------- MODULE WorkerProofs ----------------------------
(***************************************************************************)
(* Proofs about Worker for any number of services, jobs and keys: a call    *)
(* finds every service and the whole pool, nobody sends on a closed         *)
(* channel, and no answer is lost.                                          *)
(*                                                                         *)
(* All three rest on the two WaitGroups.  Each counts the goroutines that   *)
(* have not called wg.Done, so that the channel is closed only when none is *)
(* left; the range loops end only over a closed channel.                    *)
(***************************************************************************)
EXTENDS Worker, FiniteSetTheorems, TLAPS

(* SpawnServices *)

\* The goroutines of SpawnServices that have not called wg.Done.
Spawning == {s \in Services : service[s] # "up"}

SpawnInv ==
  /\ service \in [Services -> {"none", "dial", "register", "up", "error", "gone"}]
  /\ services = {s \in Services : service[s] = "up"}
  /\ spawn \in {"aggregator", "spawn", "collect", "serving", "failed"}
  /\ spawn \in {"aggregator", "spawn"} => /\ \A s \in Services : service[s] = "none"
                                          /\ ~errChClosed
  /\ spawn \in {"spawn", "collect", "serving"} => agg = PoolSize
  /\ spawn \in {"collect", "serving"} => spawning = Cardinality(Spawning)
  /\ spawn = "failed" => Spawning = {} \/ \A s \in Services : service[s] = "none"
  /\ errChClosed => Spawning = {}
  /\ spawn = "serving" => errChClosed

(* A call *)

\* The keys under which the results of the call are kept.
KeyFn == IF call = "DoParsing" THEN ParserKey ELSE [j \in Jobs |-> j]

Keys == {KeyFn[j] : j \in Jobs}

\* The goroutines of the call that have not called wg.Done.
Busy == {j \in Jobs : job[j] # "done"}

TaskInv ==
  /\ call \in {"DoParsing", "DoAggregating"}
  /\ job \in [Jobs -> {"none", "call", "send", "end", "done"}]
  /\ pc \in {"fetch", "start", "failed", "collect", "sending", "returned"}
  /\ pc \in {"fetch", "start", "failed"} => /\ \A j \in Jobs : job[j] = "none"
                                            /\ ~closed
  /\ pc \in {"collect", "sending", "returned"} => wg = Cardinality(Busy)
  /\ closed => Busy = {}
  /\ pc \in {"sending", "returned"} => closed

\* Every answer that has been delivered is kept under its key, or another
\* answer with this key.
ResultInv ==
  /\ answered \subseteq Jobs
  /\ \A j \in Jobs : job[j] \in {"none", "call"} => j \notin answered
  /\ \A j \in Jobs : job[j] = "send" => j \in answered
  /\ result \in [Keys -> answered \union {NoJob}]
  /\ \A j \in answered : job[j] # "send" => result[KeyFn[j]] \in answered
  /\ \A k \in Keys : result[k] # NoJob => KeyFn[result[k]] = k

\* The worker serves calls after SpawnServices only.
ServeInv == ~Serving => \A j \in Jobs : job[j] = "none"

IInv == SpawnInv /\ TaskInv /\ ResultInv /\ ServeInv

-----------------------------------------------------------------------------

LEMMA Assumptions ==
  /\ IsFiniteSet(Services) /\ IsFiniteSet(Jobs) /\ NoJob \notin Jobs
  /\ PoolSize \in Nat
<1>1. \A T : (S!IsFiniteSet(T) => IsFiniteSet(T)) /\ (P!IsFiniteSet(T) => IsFiniteSet(T))
  BY DEF S!IsFiniteSet, P!IsFiniteSet, IsFiniteSet
<1> QED
  BY <1>1, WorkerAssumption DEF S!SpawnAssumption, P!WorkerTaskAssumption

\* The instances count as this module does.
LEMMA Counts ==
  \A T : /\ S!Cardinality(T) = Cardinality(T)
        /\ P!Cardinality(T) = Cardinality(T)
        /\ A!Cardinality(T) = Cardinality(T)
BY DEF S!Cardinality, P!Cardinality, A!Cardinality, Cardinality

LEMMA KeyIsKey == \A j \in Jobs : KeyFn[j] \in Keys
BY DEF Keys

LEMMA InitIInv == Init => IInv
<1> SUFFICES ASSUME Init PROVE IInv
  OBVIOUS
<1>1. SpawnInv
  BY DEF Init, S!Init, SpawnInv
<1>2. TaskInv /\ ServeInv
  BY DEF Init, S!Init, P!Init, A!Init, TaskInv, ServeInv
<1>3. ResultInv
  <2>1. answered = {} /\ \A j \in Jobs : job[j] = "none"
    BY DEF Init, P!Init, A!Init
  <2>2. result = [k \in Keys |-> NoJob]
    BY DEF Init, P!Init, A!Init, Keys, KeyFn
  <2> QED
    BY <2>1, <2>2 DEF ResultInv
<1> QED
  BY <1>1, <1>2, <1>3 DEF IInv

-----------------------------------------------------------------------------
(* SpawnServices *)

\* A goroutine registers its service and is done.
LEMMA RegisterStep ==
  ASSUME SpawnInv, NEW s \in Services, S!Register(s) PROVE SpawnInv'
<1>1. Spawning' = Spawning \ {s} /\ s \in Spawning /\ IsFiniteSet(Spawning)
  BY Assumptions, FS_Subset DEF SpawnInv, S!Register, Spawning
<1>2. Cardinality(Spawning') = Cardinality(Spawning) - 1
  BY <1>1, FS_RemoveElement
<1>3. services' = {t \in Services : service'[t] = "up"}
  BY DEF SpawnInv, S!Register
<1>4. service' \in [Services -> {"none", "dial", "register", "up", "error", "gone"}]
  BY DEF SpawnInv, S!Register
<1> QED
  BY <1>1, <1>2, <1>3, <1>4 DEF SpawnInv, S!Register

\* A goroutine goes on and is not done.
LEMMA GoingStep ==
  ASSUME SpawnInv, NEW s \in Services, S!Dial(s) \/ S!SendError(s) PROVE SpawnInv'
<1>1. /\ service[s] # "up" /\ service[s] # "none"
      /\ service' \in [Services -> {"none", "dial", "register", "up", "error", "gone"}]
      /\ service'[s] # "up"
      /\ \A t \in Services \ {s} : service'[t] = service[t]
      /\ UNCHANGED <<spawn, agg, services, spawning, errChClosed>>
  BY DEF SpawnInv, S!Dial, S!SendError
<1>2. Spawning' = Spawning
  BY <1>1 DEF Spawning
<1>3. s \in Spawning
  BY <1>1 DEF Spawning
<1> QED
  BY <1>1, <1>2, <1>3 DEF SpawnInv

LEMMA SpawnStep == ASSUME SpawnInv, S!Next PROVE SpawnInv'
<1>1. CASE S!DialAggregator
  BY <1>1 DEF SpawnInv, S!DialAggregator, Spawning
<1>2. CASE S!SpawnAll
  <2>1. Spawning' = Services
    BY <1>2 DEF S!SpawnAll, Spawning
  <2> QED
    BY <1>2, <2>1, Counts DEF SpawnInv, S!SpawnAll
<1>3. CASE S!CloseErrCh
  <2>1. Spawning = {}
    BY <1>3, Assumptions, FS_Subset, FS_EmptySet DEF SpawnInv, S!CloseErrCh, Spawning
  <2> QED
    BY <1>3, <2>1 DEF SpawnInv, S!CloseErrCh, Spawning
<1>4. CASE S!Receive
  BY <1>4 DEF SpawnInv, S!Receive, Spawning
<1>5. CASE S!Return
  BY <1>5 DEF SpawnInv, S!Return, Spawning
<1> QED
  BY <1>1, <1>2, <1>3, <1>4, <1>5, RegisterStep, GoingStep DEF S!Next

\* Once the worker serves, SpawnServices has nothing left to do.
LEMMA ServesForGood == ASSUME SpawnInv, Serving PROVE ~S!Next
BY DEF SpawnInv, Spawning, Serving, S!Next, S!DialAggregator, S!SpawnAll, S!CloseErrCh,
       S!Receive, S!Return, S!Dial, S!Register, S!SendError

-----------------------------------------------------------------------------
(* A call *)

\* A goroutine gets an answer, or none.
LEMMA CallStep ==
  ASSUME TaskInv, ResultInv, NEW j \in Jobs, P!Call(j) \/ A!Call(j), call' = call
  PROVE  TaskInv' /\ ResultInv'
<1>1. /\ job[j] = "call"
      /\ \/ job' = [job EXCEPT ![j] = "send"] /\ answered' = answered \union {j}
         \/ job' = [job EXCEPT ![j] = "end"] /\ UNCHANGED answered
      /\ UNCHANGED <<pc, wg, closed, result, sender>>
  BY DEF P!Call, A!Call
<1>2. Busy' = Busy /\ j \in Busy
  BY <1>1 DEF TaskInv, Busy
<1>3. TaskInv'
  BY <1>1, <1>2 DEF TaskInv
<1>4. KeyFn' = KeyFn /\ Keys' = Keys
  BY DEF KeyFn, Keys
<1>5. ResultInv'
  BY <1>1, <1>4, KeyIsKey DEF TaskInv, ResultInv
<1> QED
  BY <1>3, <1>5

\* An answer is kept.
LEMMA DeliverStep ==
  ASSUME TaskInv, ResultInv, NEW j \in Jobs, call' = call,
         \/ call = "DoParsing" /\ P!Deliver(j)
         \/ call = "DoAggregating" /\ A!Deliver(j)
  PROVE  TaskInv' /\ ResultInv'
<1>1. /\ job[j] = "send" /\ pc = "collect"
      /\ job' = [job EXCEPT ![j] = "end"]
      /\ UNCHANGED <<pc, wg, closed, answered, sender>>
  BY DEF P!Deliver, A!Deliver
<1>2. result' = [result EXCEPT ![KeyFn[j]] = j]
  BY DEF P!Deliver, A!Deliver, KeyFn
<1>3. Busy' = Busy /\ j \in Busy
  BY <1>1 DEF TaskInv, Busy
<1>4. TaskInv'
  BY <1>1, <1>3 DEF TaskInv
<1>5. KeyFn' = KeyFn /\ Keys' = Keys
  BY DEF KeyFn, Keys
<1>6. j \in answered /\ KeyFn[j] \in Keys
  BY <1>1, KeyIsKey DEF ResultInv
<1>7. ResultInv'
  BY <1>1, <1>2, <1>5, <1>6, KeyIsKey DEF TaskInv, ResultInv
<1> QED
  BY <1>4, <1>7

\* A goroutine is done.
LEMMA DoneStep ==
  ASSUME TaskInv, ResultInv, NEW j \in Jobs, P!Done(j) \/ A!Done(j), call' = call
  PROVE  TaskInv' /\ ResultInv'
<1>1. /\ job[j] = "end"
      /\ job' = [job EXCEPT ![j] = "done"]
      /\ wg' = wg - 1
      /\ UNCHANGED <<pc, closed, answered, result, sender>>
  BY DEF P!Done, A!Done
<1>2. Busy' = Busy \ {j} /\ j \in Busy /\ IsFiniteSet(Busy)
  BY <1>1, Assumptions, FS_Subset DEF TaskInv, Busy
<1>3. Cardinality(Busy') = Cardinality(Busy) - 1
  BY <1>2, FS_RemoveElement
<1>4. TaskInv'
  BY <1>1, <1>2, <1>3 DEF TaskInv
<1>5. KeyFn' = KeyFn /\ Keys' = Keys
  BY DEF KeyFn, Keys
<1>6. ResultInv'
  BY <1>1, <1>5 DEF TaskInv, ResultInv
<1> QED
  BY <1>4, <1>6

\* The goroutines start.
LEMMA StartStep ==
  ASSUME TaskInv, ResultInv, P!Start \/ A!Start, call' = call
  PROVE  TaskInv' /\ ResultInv'
<1>1. PICK bad \in SUBSET Jobs :
        /\ job' = [j \in Jobs |-> IF j \in bad THEN "end" ELSE "call"]
        /\ wg' = Cardinality(Jobs)
  BY Counts DEF P!Start, A!Start
<1>2. pc = "start" /\ pc' = "collect" /\ UNCHANGED <<closed, answered, result, sender>>
  BY DEF P!Start, A!Start
<1>3. Busy' = Jobs
  BY <1>1 DEF Busy
<1>4. TaskInv'
  BY <1>1, <1>2, <1>3 DEF TaskInv
<1>5. KeyFn' = KeyFn /\ Keys' = Keys
  BY DEF KeyFn, Keys
<1>6. answered = {}
  BY <1>2 DEF TaskInv, ResultInv
<1>7. ResultInv'
  BY <1>1, <1>2, <1>5, <1>6 DEF ResultInv
<1> QED
  BY <1>4, <1>7

\* The closer, and the steps of the call itself.
LEMMA MainStep ==
  ASSUME TaskInv, ResultInv, call' = call,
         \/ P!Fetch \/ P!CloseChan \/ P!Collected \/ P!Sent \/ \E s \in Services : P!Send(s)
         \/ A!Fetch \/ A!CloseChan \/ A!Collected \/ A!Sent \/ \E s \in Services : A!Send(s)
  PROVE  TaskInv' /\ ResultInv'
<1>1. UNCHANGED <<job, wg, answered, result>>
  BY DEF P!Fetch, P!CloseChan, P!Collected, P!Sent, P!Send,
         A!Fetch, A!CloseChan, A!Collected, A!Sent, A!Send
<1>2. Busy' = Busy /\ KeyFn' = KeyFn /\ Keys' = Keys
  BY <1>1 DEF Busy, KeyFn, Keys
<1>3. ResultInv'
  BY <1>1, <1>2 DEF ResultInv
<1>4. CASE P!CloseChan \/ A!CloseChan
  <2>1. pc = "collect" /\ wg = 0 /\ closed' = TRUE /\ pc' = pc
    BY <1>4 DEF P!CloseChan, A!CloseChan
  <2>2. Busy = {}
    BY <2>1, Assumptions, FS_Subset, FS_EmptySet DEF TaskInv, Busy
  <2> QED
    BY <1>1, <1>2, <1>3, <2>1, <2>2 DEF TaskInv
<1>5. CASE P!Fetch \/ P!Collected \/ P!Sent \/ \E s \in Services : P!Send(s)
  <2>1. TaskInv'
    BY <1>1, <1>2, <1>5 DEF TaskInv, P!Fetch, P!Collected, P!Sent, P!Send
  <2> QED
    BY <1>3, <2>1
<1>6. CASE A!Fetch \/ A!Collected \/ A!Sent \/ \E s \in Services : A!Send(s)
  <2>1. TaskInv'
    BY <1>1, <1>2, <1>6 DEF TaskInv, A!Fetch, A!Collected, A!Sent, A!Send
  <2> QED
    BY <1>3, <2>1
<1> QED
  BY <1>4, <1>5, <1>6

-----------------------------------------------------------------------------
(* The worker *)

\* Every step, of SpawnServices or of the call.
LEMMA InductiveStep == ASSUME IInv, [Next]_vars PROVE IInv'
<1>1. SpawnInv /\ TaskInv /\ ResultInv /\ ServeInv
  BY DEF IInv
<1>2. CASE UNCHANGED vars
  BY <1>1, <1>2 DEF vars, spawnVars, callVars, IInv, SpawnInv, Spawning, TaskInv, Busy,
                    ResultInv, KeyFn, Keys, ServeInv, Serving
<1>3. CASE S!Next /\ UNCHANGED <<call, callVars>>
  <2>1. SpawnInv'
    BY <1>1, <1>3, SpawnStep
  <2>2. TaskInv' /\ ResultInv'
    BY <1>1, <1>3 DEF callVars, TaskInv, Busy, ResultInv, KeyFn, Keys
  <2>3. ServeInv'
    BY <1>1, <1>3, ServesForGood DEF callVars, ServeInv
  <2> QED
    BY <2>1, <2>2, <2>3 DEF IInv
<1>4. CASE /\ Serving /\ UNCHANGED <<spawnVars, call>>
           /\ \/ call = "DoParsing" /\ P!Next
              \/ call = "DoAggregating" /\ A!Next
  <2>1. SpawnInv'
    BY <1>1, <1>4 DEF spawnVars, SpawnInv, Spawning
  <2>2. ServeInv'
    BY <1>4 DEF spawnVars, ServeInv, Serving
  <2>3. TaskInv' /\ ResultInv'
    BY <1>1, <1>4, CallStep, DeliverStep, DoneStep, StartStep, MainStep DEF P!Next, A!Next
  <2> QED
    BY <2>1, <2>2, <2>3 DEF IInv
<1> QED
  BY <1>2, <1>3, <1>4 DEF Next

\* The three properties of a state that satisfies the invariant.
LEMMA Safe == IInv => CallsFindAll /\ NoSendOnClosed /\ NoResultLost
<1> SUFFICES ASSUME IInv PROVE CallsFindAll /\ NoSendOnClosed /\ NoResultLost
  OBVIOUS
<1>1. SpawnInv /\ TaskInv /\ ResultInv /\ ServeInv
  BY DEF IInv
<1>2. CallsFindAll
  BY <1>1 DEF CallsFindAll, Serving, S!ServesWithAll, SpawnInv, Spawning, ServeInv
<1>3. NoSendOnClosed
  BY <1>1 DEF NoSendOnClosed, P!NoSendOnClosed, TaskInv, Busy
<1>4. NoResultLost
  <2>1. /\ pc \in {"sending", "returned"} =>
             \A j \in answered : result[KeyFn[j]] \in answered
        /\ \A k \in DOMAIN result : result[k] # NoJob => KeyFn[result[k]] = k
    BY <1>1 DEF TaskInv, Busy, ResultInv
  <2> QED
    BY <2>1 DEF NoResultLost, P!NoResultLost, A!NoResultLost, KeyFn
<1> QED
  BY <1>2, <1>3, <1>4

(***************************************************************************)
(* No goroutine of a call runs before every sender is registered and the    *)
(* aggregator's pool is complete: it reads both without a lock              *)
(* (worker.go:30-43, 122-184, cmd/worker/main.go:76-79).                    *)
(***************************************************************************)
THEOREM CallsComeAfterSpawn == Spec => []CallsFindAll
BY InitIInv, InductiveStep, Safe, PTL DEF Spec

(***************************************************************************)
(* The channel of a call is closed only when no goroutine can send on it    *)
(* any more (parsing.go:119-127, aggregating.go:168-176).                   *)
(***************************************************************************)
THEOREM ChannelClosedLast == Spec => []NoSendOnClosed
BY InitIInv, InductiveStep, Safe, PTL DEF Spec

(***************************************************************************)
(* A call goes on with a result for exactly the keys for which some         *)
(* goroutine had an answer (parsing.go:129-132, aggregating.go:178-181).    *)
(***************************************************************************)
THEOREM AnswersAreKept == Spec => []NoResultLost
BY InitIInv, InductiveStep, Safe, PTL DEF Spec

=============================================================================
