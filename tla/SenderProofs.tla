--------------------------- MODULE SenderProofs ---------------------------
(***************************************************************************)
(* Proofs about the juggler and graphite senders: about JugglerSend for any *)
(* number of events, frontends and attempts and any size of a batch, about  *)
(* EventsStore for any goroutines, processes and length of the history,     *)
(* about JugglerChecks for any senders, processes, events and settings, and *)
(* about Graphite for any senders, endpoints, payloads and number of dials. *)
(* The four share no variable, so that each theorem is about steps of one   *)
(* of them and stuttering.                                                  *)
(***************************************************************************)
EXTENDS SenderServices, FiniteSetTheorems, SequenceTheorems, WellFoundedInduction, TLAPS

\* A step of the senders is one of each part, or leaves it as it is.
LEMMA PartsMove ==
  ASSUME [Next]_<<checksVars, sendVars, storeVars, graphiteVars>>
  PROVE  /\ [Checks!Next]_Checks!vars /\ [Send!Next]_Send!vars
         /\ [Store!Next]_Store!vars /\ [Pool!Next]_Pool!vars
BY DEF Next, ChecksMoves, SendMoves, StoreMoves, GraphiteMoves, checksVars, sendVars, storeVars,
       graphiteVars, Checks!vars, Send!vars, Store!vars, Pool!vars

-----------------------------------------------------------------------------
(***************************************************************************)
(* JugglerSend.  The counter of failed events is all that sendInternal      *)
(* looks at in the end, so the invariant ties it to the goroutines: as long *)
(* as it is 0, whoever has ended got a 200, and lost no event that it could *)
(* know of (CountInv).  That needs what a goroutine knows before it ends    *)
(* (AnswerInv), and that its batch is not empty: otherwise a failure adds   *)
(* nothing to the counter (SliceInv).                                       *)
(***************************************************************************)

JobPlaces == {"post", "sent", "failed", "done"}

Bodies == {Send!NoBody, Send!ErrorBody} \union {Send!Report(lost) : lost \in SUBSET (1 .. Events)}

SendTypeInv ==
  /\ batchEndpoint \in BOOLEAN
  /\ sliced \in 0 .. Events /\ front \in 0 .. JFrontend - 1
  /\ failed \in Nat /\ result \in {"none", "nil", "error"}
  /\ je \in Seq(SUBSET (1 .. Events))
  /\ job \in Seq(JobPlaces) /\ Len(job) = Len(je)
  /\ body \in Seq(Bodies) /\ Len(body) = Len(je)
  /\ taken \in Seq(SUBSET (1 .. Events)) /\ Len(taken) = Len(je)
  /\ answered \in Seq(BOOLEAN) /\ Len(answered) = Len(je)

\* What has been sliced so far: batches share no event; the event at hand has
\* gone to as many frontends as front says.
SliceInv ==
  /\ \A j \in Send!Jobs : Cardinality(je[j]) \in 1 .. BatchSize
  /\ batchEndpoint =>
       /\ \A j \in Send!Jobs : je[j] \subseteq 1 .. sliced
       /\ \A i, j \in Send!Jobs : i # j => je[i] \intersect je[j] = {}
       /\ \A e \in 1 .. sliced : \E j \in Send!Jobs : e \in je[j]
  /\ ~batchEndpoint =>
       /\ \A j \in Send!Jobs : je[j] \subseteq 1 .. sliced + 1
       /\ \A e \in 1 .. sliced : Cardinality(Send!Carriers(e)) = JFrontend
       /\ Cardinality(Send!Carriers(sliced + 1)) = front

\* What a goroutine knows when sendBatch has returned without an error.
AnswerInv ==
  \A j \in Send!Jobs :
    /\ taken[j] \subseteq je[j]
    /\ job[j] \in {"sent", "failed"} => batchEndpoint
    /\ job[j] = "sent" =>
         /\ answered[j]
         /\ body[j].kind = "report" => je[j] \ body[j].lost \subseteq taken[j]

\* What the counter says of the goroutines that have ended.
CountInv ==
  /\ failed = 0 =>
       \A j \in Send!Jobs : job[j] = "done" =>
         answered[j] /\ (taken[j] # je[j] => batchEndpoint /\ body[j] = Send!NoBody)
  /\ result = "nil" => failed = 0
  /\ result # "none" => sliced = Events /\ \A j \in Send!Jobs : job[j] = "done"

SendInv == SendTypeInv /\ SliceInv /\ AnswerInv /\ CountInv

-----------------------------------------------------------------------------

\* JugglerSend counts as FiniteSets does.
LEMMA SameCardinality == \A S : Send!Cardinality(S) = Cardinality(S)
BY Zenon DEF Send!Cardinality, Cardinality

\* The constants are numbers.
LEMMA Numbers ==
  ASSUME Send!JugglerSendAssumption
  PROVE  /\ Events \in Nat /\ JFrontend \in Nat \ {0} /\ BatchSize \in Nat \ {0}
         /\ Attempts \in Nat \ {0}
BY DEF Send!JugglerSendAssumption

\* The goroutines have places, answers and bodies of their own.
LEMMA JobFacts ==
  ASSUME Send!JugglerSendAssumption, SendTypeInv
  PROVE  /\ Send!Jobs = 1 .. Len(je) /\ Len(je) \in Nat /\ IsFiniteSet(Send!Jobs)
         /\ \A j \in Send!Jobs : /\ je[j] \in SUBSET (1 .. Events) /\ IsFiniteSet(je[j])
                                 /\ job[j] \in JobPlaces /\ body[j] \in Bodies
                                 /\ taken[j] \in SUBSET (1 .. Events) /\ answered[j] \in BOOLEAN
<1>0. je \in Seq(SUBSET (1 .. Events))
  BY DEF SendTypeInv
<1>1. Send!Jobs = 1 .. Len(je) /\ Len(je) \in Nat
  BY <1>0 DEF Send!Jobs
<1>2. IsFiniteSet(Send!Jobs)
  BY <1>1, FS_Interval
<1>3. ASSUME NEW j \in Send!Jobs
      PROVE  /\ je[j] \in SUBSET (1 .. Events)
             /\ job[j] \in JobPlaces /\ body[j] \in Bodies
             /\ taken[j] \in SUBSET (1 .. Events) /\ answered[j] \in BOOLEAN
  BY <1>1 DEF SendTypeInv
<1>4. IsFiniteSet(1 .. Events)
  BY Numbers, FS_Interval
<1> QED BY <1>1, <1>2, <1>3, <1>4, FS_Subset

\* Events in a batch are counted: none if and only if it is empty.
LEMMA BatchCounted ==
  ASSUME Send!JugglerSendAssumption, NEW es \in SUBSET (1 .. Events)
  PROVE  /\ IsFiniteSet(es) /\ Cardinality(es) \in Nat
         /\ Cardinality(es) = 0 <=> es = {}
<1>1. IsFiniteSet(1 .. Events)
  BY Numbers, FS_Interval
<1>2. IsFiniteSet(es)
  BY <1>1, FS_Subset
<1> QED BY <1>2, FS_CardinalityType, FS_EmptySet

LEMMA SendInit == ASSUME Send!JugglerSendAssumption, Send!Init PROVE SendInv
<1>1. Events \in Nat /\ JFrontend \in Nat \ {0}
  BY Numbers
<1>2. SendTypeInv
  BY <1>1 DEF Send!Init, SendTypeInv
<1>3. Send!Jobs = {}
  BY <1>2, JobFacts DEF Send!Init
<1>4. Send!Carriers(sliced + 1) = {}
  BY <1>3 DEF Send!Carriers
<1>5. SliceInv
  BY <1>1, <1>3, <1>4, FS_EmptySet DEF SliceInv, Send!Init
<1> QED BY <1>2, <1>3, <1>5 DEF SendInv, AnswerInv, CountInv, Send!Init

-----------------------------------------------------------------------------
(* The goroutines start *)

\* What Append leaves as it is.
LEMMA Appended ==
  ASSUME NEW S, NEW s \in Seq(S), NEW x \in S
  PROVE  /\ Append(s, x) \in Seq(S) /\ Len(Append(s, x)) = Len(s) + 1
         /\ \A i \in 1 .. Len(s) : Append(s, x)[i] = s[i]
OBVIOUS

\* The same for a Boolean.
LEMMA AppendedFalse ==
  ASSUME NEW s \in Seq(BOOLEAN)
  PROVE  /\ Append(s, FALSE) \in Seq(BOOLEAN) /\ Len(Append(s, FALSE)) = Len(s) + 1
         /\ \A i \in 1 .. Len(s) : Append(s, FALSE)[i] = s[i]
<1>1. FALSE \in BOOLEAN
  OBVIOUS
<1> QED BY <1>1, Appended, Zenon

\* A new goroutine: the others keep what they have.
LEMMA GoFacts ==
  ASSUME Send!JugglerSendAssumption, SendTypeInv, NEW es \in SUBSET (1 .. Events), Send!Go(es)
  PROVE  /\ Len(je') = Len(je) + 1 /\ Send!Jobs' = Send!Jobs \union {Len(je) + 1}
         /\ Len(je) + 1 \notin Send!Jobs
         /\ je' \in Seq(SUBSET (1 .. Events))
         /\ job' \in Seq(JobPlaces) /\ Len(job') = Len(je')
         /\ body' \in Seq(Bodies) /\ Len(body') = Len(je')
         /\ taken' \in Seq(SUBSET (1 .. Events)) /\ Len(taken') = Len(je')
         /\ answered' \in Seq(BOOLEAN) /\ Len(answered') = Len(je')
         /\ \A j \in Send!Jobs : /\ je'[j] = je[j] /\ job'[j] = job[j] /\ body'[j] = body[j]
                                 /\ taken'[j] = taken[j] /\ answered'[j] = answered[j]
         /\ LET n == Len(je) + 1
            IN  je'[n] = es /\ job'[n] = "post" /\ body'[n] = Send!NoBody /\ taken'[n] = {}
<1>1. Send!Jobs = 1 .. Len(je) /\ Len(je) \in Nat
  BY JobFacts
<1>2. /\ je \in Seq(SUBSET (1 .. Events))
      /\ job \in Seq(JobPlaces) /\ Len(job) = Len(je)
      /\ body \in Seq(Bodies) /\ Len(body) = Len(je)
      /\ taken \in Seq(SUBSET (1 .. Events)) /\ Len(taken) = Len(je)
      /\ answered \in Seq(BOOLEAN) /\ Len(answered) = Len(je)
  BY DEF SendTypeInv
<1>3. /\ je' \in Seq(SUBSET (1 .. Events)) /\ Len(je') = Len(je) + 1
      /\ \A j \in 1 .. Len(je) : je'[j] = je[j]
      /\ je'[Len(je) + 1] = es
  BY <1>1, <1>2 DEF Send!Go
<1>4. /\ job' \in Seq(JobPlaces) /\ Len(job') = Len(je) + 1
      /\ \A j \in 1 .. Len(je) : job'[j] = job[j]
      /\ job'[Len(je) + 1] = "post"
  <2>1. "post" \in JobPlaces
    BY DEF JobPlaces
  <2> QED BY <1>1, <1>2, <2>1 DEF Send!Go
<1>5. Send!NoBody \in Bodies
  BY DEF Bodies
<1>6. /\ body' \in Seq(Bodies) /\ Len(body') = Len(je) + 1
      /\ \A j \in 1 .. Len(je) : body'[j] = body[j]
      /\ body'[Len(je) + 1] = Send!NoBody
  BY <1>1, <1>2, <1>5 DEF Send!Go
<1>7. /\ taken' \in Seq(SUBSET (1 .. Events)) /\ Len(taken') = Len(je) + 1
      /\ \A j \in 1 .. Len(je) : taken'[j] = taken[j]
      /\ taken'[Len(je) + 1] = {}
  BY <1>1, <1>2 DEF Send!Go
<1>8. /\ answered' \in Seq(BOOLEAN) /\ Len(answered') = Len(je) + 1
      /\ \A j \in 1 .. Len(je) : answered'[j] = answered[j]
  <2>1. answered' = Append(answered, FALSE)
    BY Zenon DEF Send!Go
  <2>2. answered \in Seq(BOOLEAN) /\ Len(answered) = Len(je)
    BY <1>2
  <2> QED BY <2>1, <2>2, AppendedFalse, Zenon
<1>9. Send!Jobs' = 1 .. Len(je')
  BY <1>3 DEF Send!Jobs
<1>10. Send!Jobs' = Send!Jobs \union {Len(je) + 1} /\ Len(je) + 1 \notin Send!Jobs
  BY <1>1, <1>3, <1>9
<1> QED BY <1>1, <1>3, <1>4, <1>6, <1>7, <1>8, <1>10

\* A new goroutine has not ended, and nothing is known of its events.
LEMMA GoKeeps ==
  ASSUME Send!JugglerSendAssumption, SendInv, NEW es \in SUBSET (1 .. Events), Send!Go(es),
         sliced < Events, UNCHANGED <<batchEndpoint, failed, result>>
  PROVE  AnswerInv' /\ CountInv'
<1>1. SendTypeInv /\ AnswerInv /\ CountInv
  BY DEF SendInv
<1>2. /\ Send!Jobs' = Send!Jobs \union {Len(je) + 1}
      /\ \A j \in Send!Jobs : /\ je'[j] = je[j] /\ job'[j] = job[j] /\ body'[j] = body[j]
                              /\ taken'[j] = taken[j] /\ answered'[j] = answered[j]
      /\ job'[Len(je) + 1] = "post" /\ taken'[Len(je) + 1] = {}
  BY <1>1, GoFacts
<1>3. result = "none"
  BY <1>1, Numbers DEF CountInv, SendTypeInv
<1>4. AnswerInv'
  BY <1>1, <1>2 DEF AnswerInv
<1>5. CountInv'
  BY <1>1, <1>2, <1>3 DEF CountInv
<1> QED BY <1>4, <1>5

\* The events from lo to hi are hi - lo + 1, and none of them is before lo.
LEMMA SliceStep ==
  ASSUME Send!JugglerSendAssumption, SendInv, Send!Slice
  PROVE  SendInv'
<1> DEFINE es == sliced + 1 .. sliced'
           n == Len(je) + 1
<1>1. SendTypeInv /\ SliceInv /\ batchEndpoint /\ sliced < Events /\ Send!Go(es)
  BY DEF SendInv, Send!Slice
<1>2. /\ Events \in Nat /\ BatchSize \in Nat \ {0} /\ sliced \in Nat
      /\ UNCHANGED <<batchEndpoint, front, failed, result>>
      /\ sliced' = IF Events - sliced > BatchSize THEN sliced + BatchSize ELSE Events
  BY <1>1, Numbers DEF Send!Slice, SendTypeInv
<1>3. sliced' \in Nat /\ sliced' =< Events /\ sliced' > sliced /\ sliced' - sliced =< BatchSize
  BY <1>1, <1>2
<1>4. es \in SUBSET (1 .. Events)
  BY <1>2, <1>3
<1>5. Cardinality(es) = sliced' - sliced
  BY <1>2, <1>3, FS_Interval
<1>6. /\ Send!Jobs' = Send!Jobs \union {n} /\ n \notin Send!Jobs /\ je'[n] = es
      /\ \A j \in Send!Jobs : je'[j] = je[j]
  BY <1>1, <1>4, GoFacts
<1>7. SendTypeInv'
  BY <1>1, <1>2, <1>3, <1>4, GoFacts DEF SendTypeInv
<1>8. SliceInv'
  <2>1. \A j \in Send!Jobs' : Cardinality(je'[j]) \in 1 .. BatchSize
    BY <1>1, <1>2, <1>3, <1>5, <1>6 DEF SliceInv
  <2>2. \A j \in Send!Jobs' : je'[j] \subseteq 1 .. sliced'
    BY <1>1, <1>2, <1>3, <1>6 DEF SliceInv
  <2>3. \A j \in Send!Jobs : je[j] \intersect es = {}
    BY <1>1, <1>2, <1>3 DEF SliceInv
  <2>4. \A i, j \in Send!Jobs' : i # j => je'[i] \intersect je'[j] = {}
    BY <1>1, <1>6, <2>3 DEF SliceInv
  <2>5. \A e \in 1 .. sliced' : e \in 1 .. sliced \/ e \in es
    BY <1>2, <1>3
  <2>6. \A e \in 1 .. sliced' : \E j \in Send!Jobs' : e \in je'[j]
    BY <1>1, <1>6, <2>5 DEF SliceInv
  <2> QED BY <1>1, <1>2, <2>1, <2>2, <2>4, <2>6 DEF SliceInv
<1> QED BY <1>1, <1>2, <1>4, <1>7, <1>8, GoKeeps DEF SendInv

\* An event goes to its next frontend: one more carrier.
LEMMA SingleStep ==
  ASSUME Send!JugglerSendAssumption, SendInv, Send!Single
  PROVE  SendInv'
<1> DEFINE e1 == sliced + 1
           n == Len(je) + 1
           After(e) == {j \in Send!Jobs' : e \in je'[j]}
<1>1. SendTypeInv /\ SliceInv /\ ~batchEndpoint /\ sliced < Events /\ Send!Go({e1})
  BY DEF SendInv, Send!Single
<1>2. /\ Events \in Nat /\ BatchSize \in Nat \ {0} /\ JFrontend \in Nat \ {0}
      /\ sliced \in Nat /\ front \in Nat /\ front < JFrontend
      /\ UNCHANGED <<batchEndpoint, failed, result>>
      /\ IF front + 1 = JFrontend
         THEN front' = 0 /\ sliced' = sliced + 1
         ELSE front' = front + 1 /\ sliced' = sliced
  BY <1>1, Numbers DEF Send!Single, SendTypeInv
<1>3. {e1} \in SUBSET (1 .. Events)
  BY <1>1, <1>2
<1>4. /\ Send!Jobs' = Send!Jobs \union {n} /\ n \notin Send!Jobs /\ je'[n] = {e1}
      /\ \A j \in Send!Jobs : je'[j] = je[j]
  BY <1>1, <1>3, GoFacts
<1>5. SendTypeInv'
  BY <1>1, <1>2, <1>3, GoFacts DEF SendTypeInv
<1>6. Cardinality({e1}) = 1
  BY FS_Singleton
<1>7. SliceInv'
  <2>1. \A j \in Send!Jobs' : Cardinality(je'[j]) \in 1 .. BatchSize
    <3>1. \A j \in Send!Jobs : Cardinality(je[j]) \in 1 .. BatchSize
      BY <1>1 DEF SliceInv
    <3>2. 1 \in 1 .. BatchSize
      BY <1>2
    <3> QED BY <1>4, <1>6, <3>1, <3>2, Zenon
  <2>2. \A j \in Send!Jobs' : je'[j] \subseteq 1 .. e1
    BY <1>1, <1>2, <1>4 DEF SliceInv
  <2>3. \A e : e # e1 => After(e) = Send!Carriers(e)
    BY <1>4 DEF Send!Carriers
  <2>4. After(e1) = Send!Carriers(e1) \union {n} /\ n \notin Send!Carriers(e1)
    BY <1>4 DEF Send!Carriers
  <2>5. IsFiniteSet(Send!Carriers(e1))
    BY <1>1, JobFacts, FS_Subset DEF Send!Carriers
  <2>6. Cardinality(After(e1)) = front + 1
    <3>1. Cardinality(Send!Carriers(e1)) = front
      BY <1>1 DEF SliceInv
    <3> QED BY <2>4, <2>5, <3>1, FS_AddElement
  <2>7. Send!Carriers(e1 + 1) = {}
    BY <1>1, <1>2 DEF Send!Carriers, SliceInv
  <2>8. CASE front + 1 = JFrontend
    <3>1. sliced' = e1 /\ front' = 0 /\ e1 + 1 # e1
      BY <1>2, <2>8
    <3>2. Cardinality(After(sliced' + 1)) = front'
      BY <2>3, <2>7, <3>1, FS_EmptySet
    <3>3. \A e \in 1 .. sliced' : Cardinality(After(e)) = JFrontend
      <4>1. SUFFICES ASSUME NEW e \in 1 .. sliced' PROVE Cardinality(After(e)) = JFrontend
        OBVIOUS
      <4>2. e = e1 \/ (e # e1 /\ e \in 1 .. sliced)
        BY <1>2, <3>1
      <4> QED BY <1>1, <2>3, <2>6, <2>8, <4>2 DEF SliceInv
    <3>4. \A j \in Send!Jobs' : je'[j] \subseteq 1 .. sliced' + 1
      BY <1>2, <2>2, <3>1
    <3> QED BY <1>1, <1>2, <2>1, <3>2, <3>3, <3>4 DEF SliceInv, Send!Carriers
  <2>9. CASE front + 1 # JFrontend
    <3>1. sliced' = sliced /\ front' = front + 1
      BY <1>2, <2>9
    <3>2. Cardinality(After(sliced' + 1)) = front'
      BY <2>6, <3>1
    <3>3. \A e \in 1 .. sliced' : Cardinality(After(e)) = JFrontend
      <4>1. \A e \in 1 .. sliced : e # e1
        BY <1>2
      <4> QED BY <1>1, <2>3, <3>1, <4>1 DEF SliceInv
    <3> QED BY <1>1, <1>2, <2>1, <2>2, <3>1, <3>2, <3>3 DEF SliceInv, Send!Carriers
  <2> QED BY <2>8, <2>9
<1> QED BY <1>1, <1>2, <1>3, <1>5, <1>7, GoKeeps DEF SendInv

-----------------------------------------------------------------------------
(* The goroutines move *)

\* What EXCEPT does with a sequence.
LEMMA UpdatedSeq ==
  ASSUME NEW S, NEW s \in Seq(S), NEW i \in 1 .. Len(s), NEW x \in S
  PROVE  /\ [s EXCEPT ![i] = x] \in Seq(S) /\ Len([s EXCEPT ![i] = x]) = Len(s)
         /\ \A k \in 1 .. Len(s) : [s EXCEPT ![i] = x][k] = IF k = i THEN x ELSE s[k]
OBVIOUS

LEMMA SameSeq ==
  ASSUME NEW S, NEW s \in Seq(S), NEW i \in 1 .. Len(s)
  PROVE  s = [s EXCEPT ![i] = s[i]]
OBVIOUS

\* Goroutine j goes to place p, with body b, its events t taken and answer a.
\* What is left to show of it is what AnswerInv and CountInv say of j.
LEMMA JobMoves ==
  ASSUME Send!JugglerSendAssumption, SendInv, NEW j \in Send!Jobs, job[j] # "done",
         UNCHANGED <<batchEndpoint, sliced, front, je, result>>,
         NEW p \in JobPlaces, job' = [job EXCEPT ![j] = p],
         NEW b \in Bodies, body' = [body EXCEPT ![j] = b],
         NEW t \in SUBSET je[j], taken' = [taken EXCEPT ![j] = t],
         NEW a \in BOOLEAN, answered' = [answered EXCEPT ![j] = a],
         failed' \in Nat, failed' >= failed,
         p \in {"sent", "failed"} => batchEndpoint,
         p = "sent" => a /\ (b.kind = "report" => je[j] \ b.lost \subseteq t),
         failed' = 0 /\ p = "done" => a /\ (t # je[j] => batchEndpoint /\ b = Send!NoBody)
  PROVE  SendInv'
<1>1. SendTypeInv /\ SliceInv /\ AnswerInv /\ CountInv
  BY DEF SendInv
<1>2. Send!Jobs = 1 .. Len(je) /\ Send!Jobs' = Send!Jobs /\ je[j] \in SUBSET (1 .. Events)
  BY <1>1, JobFacts DEF Send!Jobs
<1>3. /\ job' \in Seq(JobPlaces) /\ Len(job') = Len(je)
      /\ \A k \in Send!Jobs : job'[k] = IF k = j THEN p ELSE job[k]
  BY <1>1, <1>2, UpdatedSeq DEF SendTypeInv
<1>4. /\ body' \in Seq(Bodies) /\ Len(body') = Len(je)
      /\ \A k \in Send!Jobs : body'[k] = IF k = j THEN b ELSE body[k]
  BY <1>1, <1>2, UpdatedSeq DEF SendTypeInv
<1>5. /\ taken' \in Seq(SUBSET (1 .. Events)) /\ Len(taken') = Len(je)
      /\ \A k \in Send!Jobs : taken'[k] = IF k = j THEN t ELSE taken[k]
  BY <1>1, <1>2, UpdatedSeq DEF SendTypeInv
<1>6. /\ answered' \in Seq(BOOLEAN) /\ Len(answered') = Len(je)
      /\ \A k \in Send!Jobs : answered'[k] = IF k = j THEN a ELSE answered[k]
  BY <1>1, <1>2, UpdatedSeq DEF SendTypeInv
<1>7. SendTypeInv'
  BY <1>1, <1>3, <1>4, <1>5, <1>6 DEF SendTypeInv
<1>8. SliceInv'
  BY <1>1, <1>2 DEF SliceInv, Send!Carriers
<1>9. AnswerInv'
  BY <1>1, <1>2, <1>3, <1>4, <1>5, <1>6 DEF AnswerInv
<1>10. result = "none"
  BY <1>1 DEF CountInv
<1>11. failed' = 0 => failed = 0
  BY <1>1 DEF SendTypeInv
<1>12. CountInv'
  BY <1>1, <1>2, <1>3, <1>4, <1>5, <1>6, <1>10, <1>11 DEF CountInv
<1> QED BY <1>7, <1>8, <1>9, <1>12 DEF SendInv

\* What a goroutine does not touch.
LEMMA JobKeeps ==
  ASSUME Send!JugglerSendAssumption, SendInv, NEW j \in Send!Jobs
  PROVE  /\ body[j] \in Bodies /\ body = [body EXCEPT ![j] = body[j]]
         /\ taken[j] \in SUBSET je[j] /\ taken = [taken EXCEPT ![j] = taken[j]]
         /\ answered[j] \in BOOLEAN /\ answered = [answered EXCEPT ![j] = answered[j]]
         /\ je[j] \in SUBSET (1 .. Events) /\ failed \in Nat /\ job[j] \in JobPlaces
         /\ Cardinality(je[j]) \in Nat \ {0}
<1>1. SendTypeInv /\ SliceInv /\ AnswerInv /\ Send!Jobs = 1 .. Len(je)
  BY JobFacts DEF SendInv
<1>2. body = [body EXCEPT ![j] = body[j]]
  BY <1>1, SameSeq DEF SendTypeInv
<1>3. taken = [taken EXCEPT ![j] = taken[j]]
  BY <1>1, SameSeq DEF SendTypeInv
<1>4. answered = [answered EXCEPT ![j] = answered[j]]
  BY <1>1, SameSeq DEF SendTypeInv
<1>5. taken[j] \in SUBSET je[j]
  BY <1>1 DEF AnswerInv
<1>6. Cardinality(je[j]) \in Nat \ {0}
  BY <1>1, Numbers DEF SliceInv
<1>7. failed \in Nat
  BY <1>1 DEF SendTypeInv
<1> QED BY <1>1, <1>2, <1>3, <1>4, <1>5, <1>6, <1>7, JobFacts

\* An attempt of sendBatch ends in one of three places.
LEMMA AttemptedFacts ==
  ASSUME NEW j, NEW ends \in {"sent", "failed", "again"}, Send!Attempted(j, ends)
  PROVE  \E p \in {"post", "sent", "failed"} :
           /\ job' = [job EXCEPT ![j] = p]
           /\ p = "sent" <=> ends = "sent"
BY DEF Send!Attempted

LEMMA PostOKStep ==
  ASSUME Send!JugglerSendAssumption, SendInv, NEW j \in Send!Jobs, Send!PostOK(j)
  PROVE  SendInv'
<1>1. /\ batchEndpoint /\ job[j] = "post" /\ job' = [job EXCEPT ![j] = "sent"]
      /\ answered' = [answered EXCEPT ![j] = TRUE]
      /\ UNCHANGED <<batchEndpoint, sliced, front, je, failed, result>>
  BY DEF Send!PostOK, Send!Attempted
<1>2. PICK es \in SUBSET je[j] :
        /\ Send!Takes(j, es)
        /\ \E b \in {Send!NoBody, Send!Report(je[j] \ es)}
                    \union (IF es = {} THEN {Send!ErrorBody} ELSE {}) :
             body' = [body EXCEPT ![j] = b]
  BY DEF Send!PostOK
<1>3. PICK b \in {Send!NoBody, Send!ErrorBody, Send!Report(je[j] \ es)} :
        body' = [body EXCEPT ![j] = b]
  BY <1>2
<1>4. taken[j] \in SUBSET je[j] /\ je[j] \in SUBSET (1 .. Events) /\ failed \in Nat
  BY JobKeeps
<1>5. b \in Bodies
  BY <1>4 DEF Bodies
<1>6. taken' = [taken EXCEPT ![j] = taken[j] \union es] /\ taken[j] \union es \in SUBSET je[j]
  BY <1>2, <1>4 DEF Send!Takes
<1>7. b.kind = "report" => je[j] \ b.lost \subseteq taken[j] \union es
  BY <1>3 DEF Send!NoBody, Send!ErrorBody, Send!Report
<1>8. "sent" \in JobPlaces /\ TRUE \in BOOLEAN
  BY DEF JobPlaces
<1>9. failed' \in Nat /\ failed' >= failed
  BY <1>1, <1>4
<1> QED BY <1>1, <1>3, <1>5, <1>6, <1>7, <1>8, <1>9, JobMoves

LEMMA PostRefusedStep ==
  ASSUME Send!JugglerSendAssumption, SendInv, NEW j \in Send!Jobs, Send!PostRefused(j)
  PROVE  SendInv'
<1>1. /\ batchEndpoint /\ job[j] = "post"
      /\ UNCHANGED <<batchEndpoint, sliced, front, je, failed, taken, answered, result>>
  BY DEF Send!PostRefused
<1>2. PICK p \in {"post", "failed"} : job' = [job EXCEPT ![j] = p]
  BY AttemptedFacts DEF Send!PostRefused
<1>3. PICK b \in {Send!NoBody, Send!ErrorBody, Send!Report(je[j])} : body' = [body EXCEPT ![j] = b]
  BY DEF Send!PostRefused
<1>4. /\ taken[j] \in SUBSET je[j] /\ taken' = [taken EXCEPT ![j] = taken[j]]
      /\ answered[j] \in BOOLEAN /\ answered' = [answered EXCEPT ![j] = answered[j]]
      /\ je[j] \in SUBSET (1 .. Events) /\ failed \in Nat
  BY <1>1, JobKeeps
<1>5. b \in Bodies
  BY <1>4 DEF Bodies
<1>6. p \in JobPlaces /\ p # "sent" /\ p # "done"
  BY DEF JobPlaces
<1>7. failed' \in Nat /\ failed' >= failed
  BY <1>1, <1>4
<1> QED BY <1>1, <1>2, <1>3, <1>4, <1>5, <1>6, <1>7, JobMoves

LEMMA PostUnansweredStep ==
  ASSUME Send!JugglerSendAssumption, SendInv, NEW j \in Send!Jobs, Send!PostUnanswered(j)
  PROVE  SendInv'
<1>1. /\ batchEndpoint /\ job[j] = "post"
      /\ UNCHANGED <<batchEndpoint, sliced, front, je, body, failed, answered, result>>
  BY DEF Send!PostUnanswered
<1>2. PICK p \in {"post", "failed"} : job' = [job EXCEPT ![j] = p]
  BY AttemptedFacts DEF Send!PostUnanswered
<1>3. PICK es \in SUBSET je[j] : Send!Takes(j, es)
  BY DEF Send!PostUnanswered
<1>4. /\ body[j] \in Bodies /\ body' = [body EXCEPT ![j] = body[j]]
      /\ answered[j] \in BOOLEAN /\ answered' = [answered EXCEPT ![j] = answered[j]]
      /\ taken[j] \in SUBSET je[j] /\ failed \in Nat
  BY <1>1, JobKeeps
<1>5. taken' = [taken EXCEPT ![j] = taken[j] \union es] /\ taken[j] \union es \in SUBSET je[j]
  BY <1>3, <1>4 DEF Send!Takes
<1>6. p \in JobPlaces /\ p # "sent" /\ p # "done"
  BY DEF JobPlaces
<1>7. failed' \in Nat /\ failed' >= failed
  BY <1>1, <1>4
<1> QED BY <1>1, <1>2, <1>4, <1>5, <1>6, <1>7, JobMoves

\* An error of sendBatch, an error in its answer or a lost event count.
LEMMA BatchEndsStep ==
  ASSUME Send!JugglerSendAssumption, SendInv, NEW j \in Send!Jobs, Send!BatchEnds(j)
  PROVE  SendInv'
<1> DEFINE size == Cardinality(je[j])
           missed == IF job[j] = "failed" THEN size ELSE 0
           refused == IF body[j].kind = "error" THEN size ELSE 0
           unsent == IF body[j].kind = "report" THEN Cardinality(body[j].lost) ELSE 0
<1>1. /\ batchEndpoint /\ job[j] \in {"sent", "failed"} /\ job' = [job EXCEPT ![j] = "done"]
      /\ failed' = failed + missed + refused + unsent
      /\ UNCHANGED <<batchEndpoint, sliced, front, je, body, taken, answered, result>>
  BY SameCardinality DEF Send!BatchEnds, Send!jobVars
<1>2. /\ body[j] \in Bodies /\ body' = [body EXCEPT ![j] = body[j]]
      /\ taken[j] \in SUBSET je[j] /\ taken' = [taken EXCEPT ![j] = taken[j]]
      /\ answered[j] \in BOOLEAN /\ answered' = [answered EXCEPT ![j] = answered[j]]
      /\ failed \in Nat /\ size \in Nat \ {0}
  BY <1>1, JobKeeps
<1>3. AnswerInv
  BY DEF SendInv
<1>4. CASE body[j] = Send!NoBody
  <2>0. body[j].kind = "unreadable"
    BY <1>4 DEF Send!NoBody
  <2>1. refused = 0 /\ unsent = 0
    BY <2>0
  <2>2. failed' \in Nat /\ failed' >= failed /\ (failed' = 0 => job[j] = "sent")
    BY <1>1, <1>2, <2>1
  <2>3. failed' = 0 => answered[j]
    BY <1>3, <2>2 DEF AnswerInv
  <2> QED BY <1>1, <1>2, <1>4, <2>2, <2>3, JobMoves DEF JobPlaces
<1>5. CASE body[j] = Send!ErrorBody
  <2>0. body[j].kind = "error"
    BY <1>5 DEF Send!ErrorBody
  <2>1. refused = size /\ unsent = 0
    BY <2>0
  <2>2. failed' \in Nat /\ failed' >= failed /\ failed' # 0
    BY <1>1, <1>2, <2>1
  <2> QED BY <1>1, <1>2, <2>2, JobMoves DEF JobPlaces
<1>6. ASSUME NEW lost \in SUBSET (1 .. Events), body[j] = Send!Report(lost)
      PROVE  SendInv'
  <2>0. body[j].kind = "report" /\ body[j].lost = lost
    BY <1>6 DEF Send!Report
  <2>1. refused = 0 /\ unsent = Cardinality(lost)
    BY <2>0
  <2>2. Cardinality(lost) \in Nat /\ (Cardinality(lost) = 0 => lost = {})
    BY BatchCounted
  <2>3. failed' \in Nat /\ failed' >= failed /\ (failed' = 0 => job[j] = "sent" /\ lost = {})
    BY <1>1, <1>2, <2>1, <2>2
  <2>4. failed' = 0 => answered[j] /\ taken[j] = je[j]
    BY <1>2, <1>3, <2>0, <2>3 DEF AnswerInv
  <2> QED BY <1>1, <1>2, <2>3, <2>4, JobMoves DEF JobPlaces
<1> QED BY <1>2, <1>4, <1>5, <1>6 DEF Bodies

LEMMA SendEventStep ==
  ASSUME Send!JugglerSendAssumption, SendInv, NEW j \in Send!Jobs, Send!SendEvent(j)
  PROVE  SendInv'
<1>1. /\ ~batchEndpoint /\ job[j] = "post" /\ job' = [job EXCEPT ![j] = "done"]
      /\ UNCHANGED <<batchEndpoint, sliced, front, je, body, result>>
  BY DEF Send!SendEvent
<1>2. /\ body[j] \in Bodies /\ body' = [body EXCEPT ![j] = body[j]]
      /\ taken[j] \in SUBSET je[j] /\ je[j] \in SUBSET je[j]
      /\ answered[j] \in BOOLEAN /\ answered = [answered EXCEPT ![j] = answered[j]]
      /\ failed \in Nat /\ "done" \in JobPlaces /\ TRUE \in BOOLEAN
  BY <1>1, JobKeeps DEF JobPlaces
<1>3. CASE /\ taken' = [taken EXCEPT ![j] = je[j]]
           /\ answered' = [answered EXCEPT ![j] = TRUE]
           /\ failed' = failed
  <2>1. failed' \in Nat /\ failed' >= failed
    BY <1>2, <1>3
  <2>2. /\ taken' = [taken EXCEPT ![j] = je[j]]
        /\ answered' = [answered EXCEPT ![j] = TRUE]
    BY <1>3
  <2>3. "done" \notin {"sent", "failed"} /\ "done" # "sent" /\ job[j] # "done"
    BY <1>1
  <2> QED BY <1>1, <1>2, <2>1, <2>2, <2>3, JobMoves, Zenon
<1>4. CASE /\ \E es \in SUBSET je[j] : Send!Takes(j, es)
           /\ failed' = failed + 1
           /\ UNCHANGED answered
  <2>1. PICK es \in SUBSET je[j] : Send!Takes(j, es)
    BY <1>4
  <2>2. taken' = [taken EXCEPT ![j] = taken[j] \union es] /\ taken[j] \union es \in SUBSET je[j]
    BY <1>2, <2>1 DEF Send!Takes
  <2>3. failed' \in Nat /\ failed' >= failed /\ failed' # 0
    BY <1>2, <1>4
  <2>4. answered' = [answered EXCEPT ![j] = answered[j]]
    BY <1>2, <1>4
  <2>5. "done" \notin {"sent", "failed"} /\ "done" # "sent" /\ job[j] # "done"
    BY <1>1
  <2> QED BY <1>1, <1>2, <2>2, <2>3, <2>4, <2>5, JobMoves, Zenon
<1> QED BY <1>3, <1>4 DEF Send!SendEvent

LEMMA ReturnStep ==
  ASSUME Send!JugglerSendAssumption, SendInv, Send!Return
  PROVE  SendInv'
<1>1. SendTypeInv /\ SliceInv /\ AnswerInv /\ CountInv
  BY DEF SendInv
<1>2. /\ sliced = Events /\ (\A j \in Send!Jobs : job[j] = "done")
      /\ result' = IF failed > 0 THEN "error" ELSE "nil"
      /\ UNCHANGED <<batchEndpoint, sliced, front, je, job, body, taken, answered, failed>>
  BY DEF Send!Return, Send!jobVars
<1>3. failed \in Nat
  BY <1>1 DEF SendTypeInv
<1>4. Send!Jobs' = Send!Jobs
  BY <1>2 DEF Send!Jobs
<1>5. SendTypeInv'
  BY <1>1, <1>2 DEF SendTypeInv
<1>6. SliceInv'
  BY <1>1, <1>2, <1>4 DEF SliceInv, Send!Carriers
<1>7. AnswerInv'
  BY <1>1, <1>2, <1>4 DEF AnswerInv
<1>8. CountInv'
  BY <1>1, <1>2, <1>3, <1>4 DEF CountInv
<1> QED BY <1>5, <1>6, <1>7, <1>8 DEF SendInv

LEMMA StutterStep ==
  ASSUME SendInv, UNCHANGED Send!vars
  PROVE  SendInv'
<1>1. UNCHANGED <<batchEndpoint, sliced, front, je, job, body, failed, taken, answered, result>>
  BY DEF Send!vars
<1>2. Send!Jobs' = Send!Jobs
  BY <1>1 DEF Send!Jobs
<1>3. SendTypeInv'
  BY <1>1 DEF SendInv, SendTypeInv
<1>4. SliceInv' /\ AnswerInv' /\ CountInv'
  BY <1>1, <1>2 DEF SendInv, SliceInv, Send!Carriers, AnswerInv, CountInv
<1> QED BY <1>3, <1>4 DEF SendInv

LEMMA SendNext ==
  ASSUME Send!JugglerSendAssumption, SendInv, [Send!Next]_Send!vars
  PROVE  SendInv'
<1>1. CASE Send!Slice BY <1>1, SliceStep
<1>2. CASE Send!Single BY <1>2, SingleStep
<1>3. CASE Send!Return BY <1>3, ReturnStep
<1>4. ASSUME NEW j \in Send!Jobs, Send!JobStep(j) PROVE SendInv'
  BY <1>4, PostOKStep, PostRefusedStep, PostUnansweredStep, BatchEndsStep, SendEventStep
     DEF Send!JobStep
<1>5. CASE UNCHANGED Send!vars BY <1>5, StutterStep
<1> QED BY <1>1, <1>2, <1>3, <1>4, <1>5 DEF Send!Next

\* With batches, an event has one carrier.
LEMMA AccountedInv ==
  ASSUME Send!JugglerSendAssumption, SendInv
  PROVE  Send!EventsAccounted
<1>1. SendTypeInv /\ SliceInv /\ CountInv
  BY DEF SendInv
<1>2. Send!NilMeansTaken
  BY <1>1 DEF CountInv, Send!NilMeansTaken
<1>3. ASSUME batchEndpoint, NEW e \in 1 .. sliced
      PROVE  Cardinality(Send!Carriers(e)) = 1
  <2>1. PICK j \in Send!Jobs : e \in je[j]
    BY <1>1, <1>3 DEF SliceInv
  <2>2. \A i \in Send!Jobs : e \in je[i] => i = j
    BY <1>1, <1>3, <2>1 DEF SliceInv
  <2>3. Send!Carriers(e) = {j}
    BY <2>1, <2>2 DEF Send!Carriers
  <2> QED BY <2>3, FS_Singleton
<1>4. ASSUME ~batchEndpoint, NEW e \in 1 .. sliced
      PROVE  Cardinality(Send!Carriers(e)) = JFrontend
  BY <1>1, <1>4 DEF SliceInv
<1>5. Send!EveryEventSent
  <2>1. \A j \in Send!Jobs : Cardinality(je[j]) \in 1 .. BatchSize
    BY <1>1 DEF SliceInv
  <2>2. result # "none" => sliced = Events
    BY <1>1 DEF CountInv
  <2>3. CASE batchEndpoint
    BY <1>3, <2>1, <2>2, <2>3, SameCardinality DEF Send!EveryEventSent
  <2>4. CASE ~batchEndpoint
    BY <1>4, <2>1, <2>2, <2>4, SameCardinality DEF Send!EveryEventSent
  <2> QED BY <2>3, <2>4
<1> QED BY <1>2, <1>5 DEF Send!EventsAccounted

(***************************************************************************)
(* sendInternal leaves no event out and reports no success when it lost one *)
(* that it could know of, however its goroutines interleave and whatever    *)
(* the endpoint does (juggler.go:87-163, 166-205).                          *)
(***************************************************************************)
THEOREM EveryEventAccounted == Spec => []EventsAccounted
<1>1. Init => SendInv
  BY SendersAssumption, SendInit DEF Init
<1>2. SendInv /\ [Next]_<<checksVars, sendVars, storeVars, graphiteVars>> => SendInv'
  BY SendersAssumption, PartsMove, SendNext
<1>3. SendInv => EventsAccounted
  BY SendersAssumption, AccountedInv DEF EventsAccounted
<1> QED BY <1>1, <1>2, <1>3, PTL DEF Spec

-----------------------------------------------------------------------------
(***************************************************************************)
(* EventsStore.  Two things are hidden in the order of the writes.  An      *)
(* event is written once: it is in the hands of the Push that sends it or   *)
(* of the worker that received it, never of both (FreshInv).  And what a    *)
(* worker is about to write begins with its event and goes on with events   *)
(* that were written when it read them, in their order, although others may *)
(* have written in the meantime (WorkInv).  With one worker nobody else     *)
(* writes, so that it is at work on what is stored (AloneInv).              *)
(***************************************************************************)

Steps == {"idle", "send", "sent", "wait", "ok", "deadline"}
Phases == {"idle", "find", "insert", "upsert", "reply"}

\* The worker has an event that is not written yet, or may not be.
Holds(w) == worker[w] \in {"find", "insert", "upsert"}

StoreTypeInv ==
  /\ workerOf \in [Pushers -> Workers]
  /\ stored \in Seq(Nat) /\ written \in Seq(Nat) /\ pushed \in Nat
  /\ push \in [Pushers -> Steps] /\ event \in [Pushers -> Nat]
  /\ worker \in [Workers -> Phases] /\ mQuery \in [Workers -> Seq(Nat)]
  /\ DOMAIN request = Workers /\ \A w \in Workers : request[w].event \in Nat

\* Event e is new: it is not written.
Unwritten(e) == \A i \in 1 .. Len(written) : written[i] # e

FreshInv ==
  /\ \A i \in 1 .. Len(written) : written[i] =< pushed
  /\ \A w \in Workers : request[w].event =< pushed
  /\ \A p \in Pushers : event[p] =< pushed
  /\ \A i, k \in 1 .. Len(written) : written[i] = written[k] => i = k
  /\ \A w \in Workers : Holds(w) => Unwritten(request[w].event)
  /\ \A v, w \in Workers :
       Holds(v) /\ Holds(w) /\ request[v].event = request[w].event => v = w
  /\ \A p \in Pushers : push[p] = "send" =>
       /\ Unwritten(event[p])
       /\ \A w \in Workers : Holds(w) => request[w].event # event[p]
       /\ \A q \in Pushers : push[q] = "send" /\ event[p] = event[q] => p = q

\* From the i-th on the events of s were written, each before the one in front.
GoesBackFrom(s, i) ==
  /\ \A k \in i .. Len(s) : ~Unwritten(s[k])
  /\ \A k \in i .. Len(s) - 1 : \A m, n \in 1 .. Len(written) :
       written[m] = s[k] /\ written[n] = s[k + 1] => m > n

WorkInv ==
  /\ Len(written) > 0 => Len(stored) > 0 /\ stored[1] = written[Len(written)]
  /\ GoesBackFrom(stored, 1)
  /\ \A w \in Workers : worker[w] \in {"insert", "upsert"} =>
       /\ Len(mQuery[w]) > 0 /\ mQuery[w][1] = request[w].event
       /\ GoesBackFrom(mQuery[w], 2)

\* The stored events are the last of those written, newest first.
LatestInv ==
  /\ Len(stored) = IF Len(written) < History THEN Len(written) ELSE History
  /\ \A i \in 1 .. Len(stored) : stored[i] = written[Len(written) - i + 1]

AloneInv ==
  /\ \A w \in Workers : worker[w] # "idle" => \E p \in Pushers : workerOf[p] = w
  /\ Store!OneWorker =>
       /\ LatestInv
       /\ \A w \in Workers : worker[w] = "insert" => mQuery[w] = <<request[w].event>>
       /\ \A w \in Workers : worker[w] = "upsert" =>
            mQuery[w] = Store!Shifted(stored, request[w].event) /\ Len(stored) > 0

StoreInv == StoreTypeInv /\ FreshInv /\ WorkInv /\ AloneInv

-----------------------------------------------------------------------------

\* A function on the numbers up to n is a sequence.
LEMMA FunctionIsSeq ==
  ASSUME NEW S, NEW n \in Nat, NEW f \in [1 .. n -> S]
  PROVE  f \in Seq(S) /\ Len(f) = n
BY SeqDef

LEMMA SingleEvent ==
  ASSUME NEW e \in Nat, NEW h, h = <<e>>
  PROVE  h \in Seq(Nat) /\ Len(h) = 1 /\ h[1] = e
OBVIOUS

\* Shifted puts the event in front of the others and cuts them.
LEMMA ShiftedFacts ==
  ASSUME Store!EventsStoreAssumption, NEW es \in Seq(Nat), NEW e \in Nat,
         NEW h, h = Store!Shifted(es, e)
  PROVE  /\ h \in Seq(Nat) /\ h[1] = e
         /\ Len(h) = IF Len(es) < History THEN Len(es) + 1 ELSE History
         /\ \A i \in 2 .. Len(h) : h[i] = es[i - 1]
<1> DEFINE room == IF Len(es) < History THEN Append(es, 0) ELSE es
           size == IF Len(es) < History THEN Len(room) ELSE History
           s == [i \in 1 .. size |-> IF i = 1 THEN e ELSE room[i - 1]]
<1>1. History \in Nat \ {0} /\ Len(es) \in Nat
  BY DEF Store!EventsStoreAssumption
<1>2. room \in Seq(Nat) /\ Len(room) >= size - 1 /\ size \in Nat \ {0}
  BY <1>1
<1>3. \A i \in 2 .. size : room[i - 1] = es[i - 1] /\ room[i - 1] \in Nat
  BY <1>1
<1>4. s \in [1 .. size -> Nat]
  BY <1>2, <1>3
<1>5. s \in Seq(Nat) /\ Len(s) = size
  <2>1. size \in Nat
    BY <1>2
  <2> HIDE DEF s, size
  <2> QED BY <1>4, <2>1, FunctionIsSeq
<1>7. size = IF Len(es) < History THEN Len(es) + 1 ELSE History
  BY <1>1
<1>8. s[1] = e /\ \A i \in 2 .. size : s[i] = es[i - 1]
  BY <1>2, <1>3
<1>9. h = s
  BY DEF Store!Shifted
<1> QED BY <1>5, <1>7, <1>8, <1>9

LEMMA StoreInit == ASSUME Store!EventsStoreAssumption, Store!Init PROVE StoreInv
<1>1. StoreTypeInv
  BY DEF Store!Init, StoreTypeInv, Steps, Phases, Store!NoEvents
<1>2. stored = <<>> /\ written = <<>> /\ Len(stored) = 0 /\ Len(written) = 0 /\ History > 0
  BY DEF Store!Init, Store!NoEvents, Store!EventsStoreAssumption
<1>3. FreshInv
  BY <1>2 DEF Store!Init, FreshInv, Holds
<1>4. WorkInv
  BY <1>2 DEF Store!Init, WorkInv, GoesBackFrom
<1>5. AloneInv
  BY <1>2 DEF Store!Init, AloneInv, LatestInv
<1> QED BY <1>1, <1>3, <1>4, <1>5 DEF StoreInv

\* Nothing is written: what workers are about to write is as good as before.
LEMMA WorkKept ==
  ASSUME WorkInv, UNCHANGED <<stored, written>>,
         \A w \in Workers : worker'[w] \in {"insert", "upsert"} =>
           worker'[w] = worker[w] /\ request'[w] = request[w] /\ mQuery'[w] = mQuery[w]
  PROVE  WorkInv'
<1>1. \A h, i : GoesBackFrom(h, i) => GoesBackFrom(h, i)'
  BY DEF GoesBackFrom, Unwritten
<1>2. GoesBackFrom(stored, 1)'
  BY <1>1 DEF WorkInv, GoesBackFrom, Unwritten
<1>3. ASSUME NEW w \in Workers, worker'[w] \in {"insert", "upsert"}
      PROVE  /\ Len(mQuery'[w]) > 0 /\ mQuery'[w][1] = request'[w].event
             /\ GoesBackFrom(mQuery[w], 2)'
  <2>1. Len(mQuery[w]) > 0 /\ mQuery[w][1] = request[w].event /\ GoesBackFrom(mQuery[w], 2)
    BY <1>3 DEF WorkInv
  <2>2. mQuery'[w] = mQuery[w] /\ request'[w] = request[w]
    BY <1>3
  <2> QED BY <2>1, <2>2 DEF GoesBackFrom, Unwritten
<1> QED BY <1>2, <1>3 DEF WorkInv

\* Nothing is written, and at most a Push stops sending and a worker is done.
LEMMA StoreQuiet ==
  ASSUME StoreInv, UNCHANGED <<workerOf, stored, pushed, event, request, mQuery, written>>,
         push' \in [Pushers -> Steps],
         \A p \in Pushers : push'[p] = "send" => push[p] = "send",
         worker' \in [Workers -> Phases],
         \A w \in Workers : \/ worker'[w] = worker[w]
                            \/ worker[w] # "idle" /\ worker'[w] \in {"reply", "idle"}
  PROVE  StoreInv'
<1>1. StoreTypeInv /\ FreshInv /\ WorkInv /\ AloneInv
  BY DEF StoreInv
<1>2. StoreTypeInv'
  BY <1>1 DEF StoreTypeInv
<1>3. \A w \in Workers : Holds(w)' => Holds(w)
  BY DEF Holds
<1>4. FreshInv'
  BY <1>1, <1>3 DEF FreshInv, Unwritten
<1>5. WorkInv'
  <2>1. \A w \in Workers : worker'[w] \in {"insert", "upsert"} => worker[w] = worker'[w]
    OBVIOUS
  <2> QED BY <1>1, <2>1, WorkKept
<1>6. \A es, e : Store!Shifted(es, e)' = Store!Shifted(es, e)
  BY DEF Store!Shifted
<1>7. AloneInv'
  BY <1>1, <1>6 DEF AloneInv, LatestInv, Store!OneWorker
<1> QED BY <1>2, <1>4, <1>5, <1>7 DEF StoreInv

LEMMA CallStep ==
  ASSUME StoreInv, NEW p \in Pushers, Store!Call(p)
  PROVE  StoreInv'
<1>1. StoreTypeInv /\ FreshInv /\ WorkInv /\ AloneInv
  BY DEF StoreInv
<1>2. /\ pushed' = pushed + 1 /\ event' = [event EXCEPT ![p] = pushed + 1]
      /\ push' = [push EXCEPT ![p] = "send"]
      /\ UNCHANGED <<workerOf, stored, worker, request, mQuery, written>>
  BY DEF Store!Call
<1>3. /\ pushed \in Nat /\ pushed' \in Nat /\ "send" \in Steps
      /\ \A q \in Pushers : /\ event'[q] = IF q = p THEN pushed + 1 ELSE event[q]
                            /\ push'[q] = IF q = p THEN "send" ELSE push[q]
      /\ event' \in [Pushers -> Nat] /\ push' \in [Pushers -> Steps]
  BY <1>1, <1>2 DEF StoreTypeInv, Steps
<1>4. StoreTypeInv'
  BY <1>1, <1>2, <1>3 DEF StoreTypeInv
<1>5. \A w \in Workers : Holds(w)' = Holds(w)
  BY <1>2 DEF Holds
<1>6. /\ \A i \in 1 .. Len(written) : written[i] \in Nat /\ written[i] =< pushed
      /\ \A w \in Workers : request[w].event \in Nat /\ request[w].event =< pushed
      /\ \A q \in Pushers : event[q] \in Nat /\ event[q] =< pushed
  BY <1>1 DEF StoreTypeInv, FreshInv
<1>7. /\ \A i \in 1 .. Len(written) : written[i] =< pushed' /\ written[i] # pushed + 1
      /\ \A w \in Workers : request[w].event =< pushed' /\ request[w].event # pushed + 1
      /\ \A q \in Pushers : event'[q] =< pushed' /\ event[q] # pushed + 1
  BY <1>2, <1>3, <1>6
<1>8. FreshInv'
  BY <1>1, <1>2, <1>3, <1>5, <1>7 DEF FreshInv, Unwritten
<1>9. WorkInv'
  <2>1. \A w \in Workers : worker'[w] \in {"insert", "upsert"} => worker[w] = worker'[w]
    BY <1>2
  <2> QED BY <1>1, <1>2, <2>1, WorkKept
<1>10. AloneInv'
  BY <1>1, <1>2 DEF AloneInv, LatestInv, Store!OneWorker, Store!Shifted
<1> QED BY <1>4, <1>8, <1>9, <1>10 DEF StoreInv

\* The event goes from the Push to the worker.
LEMMA QueryStep ==
  ASSUME Store!EventsStoreAssumption, StoreInv, NEW p \in Pushers, Store!Query(p)
  PROVE  StoreInv'
<1> DEFINE w == workerOf[p]
<1>1. StoreTypeInv /\ FreshInv /\ WorkInv /\ AloneInv
  BY DEF StoreInv
<1>2. /\ push[p] = "send" /\ worker[w] = "idle"
      /\ push' = [push EXCEPT ![p] = "sent"]
      /\ worker' = [worker EXCEPT ![w] = "find"]
      /\ request' = [request EXCEPT ![w] = [from |-> p, event |-> event[p]]]
      /\ UNCHANGED <<workerOf, stored, pushed, event, mQuery, written>>
  BY DEF Store!Query
<1>3. w \in Workers
  BY <1>1 DEF StoreTypeInv
<1>4. /\ push' \in [Pushers -> Steps] /\ worker' \in [Workers -> Phases]
      /\ \A q \in Pushers : push'[q] = IF q = p THEN "sent" ELSE push[q]
      /\ \A v \in Workers : worker'[v] = IF v = w THEN "find" ELSE worker[v]
  BY <1>1, <1>2, <1>3 DEF StoreTypeInv, Steps, Phases
<1>5. /\ DOMAIN request' = Workers
      /\ \A v \in Workers : v # w => request'[v] = request[v]
      /\ request'[w].event = event[p]
  BY <1>1, <1>2, <1>3 DEF StoreTypeInv
<1>6. StoreTypeInv'
  BY <1>1, <1>2, <1>4, <1>5 DEF StoreTypeInv
<1>7. \A v \in Workers : v # w => (Holds(v)' <=> Holds(v))
  BY <1>4 DEF Holds
<1>8. FreshInv'
  <2>1. \A v \in Workers : request'[v].event =< pushed'
    BY <1>1, <1>2, <1>5 DEF FreshInv
  <2>2. \A v \in Workers : Holds(v)' => Unwritten(request[v].event)'
    BY <1>1, <1>2, <1>3, <1>5, <1>7 DEF FreshInv, Unwritten
  <2>3. \A v \in Workers : v # w /\ Holds(v)' => request'[v].event # event[p]
    BY <1>1, <1>2, <1>5, <1>7 DEF FreshInv
  <2>4. \A u, v \in Workers :
          Holds(u)' /\ Holds(v)' /\ request'[u].event = request'[v].event => u = v
    BY <1>1, <1>5, <1>7, <2>3 DEF FreshInv
  <2>5. \A q \in Pushers : push'[q] = "send" => q # p /\ event[q] # event[p]
    BY <1>1, <1>2, <1>4 DEF FreshInv
  <2>6. \A q \in Pushers : push'[q] = "send" =>
          \A v \in Workers : Holds(v)' => request'[v].event # event'[q]
    BY <1>1, <1>2, <1>4, <1>5, <1>7, <2>5 DEF FreshInv
  <2> QED BY <1>1, <1>2, <1>4, <2>1, <2>2, <2>4, <2>6 DEF FreshInv, Unwritten
<1>9. WorkInv'
  <2>1. \A v \in Workers : worker'[v] \in {"insert", "upsert"} =>
          v # w /\ worker[v] = worker'[v] /\ request'[v] = request[v]
    BY <1>4, <1>5
  <2> QED BY <1>1, <1>2, <2>1, WorkKept
<1>10. AloneInv'
  <2>1. \A v \in Workers : worker'[v] # "idle" => \E q \in Pushers : workerOf[q] = v
    BY <1>1, <1>4 DEF AloneInv
  <2>2. \A v \in Workers : worker'[v] \in {"insert", "upsert"} =>
          v # w /\ worker[v] = worker'[v] /\ request'[v] = request[v]
    BY <1>4, <1>5
  <2> QED BY <1>1, <1>2, <2>1, <2>2 DEF AloneInv, LatestInv, Store!OneWorker, Store!Shifted
<1> QED BY <1>6, <1>8, <1>9, <1>10 DEF StoreInv

\* With one worker, whoever is at work is that one.
LEMMA OnlyOneWorks ==
  ASSUME AloneInv, Store!OneWorker, NEW v \in Workers, NEW w \in Workers,
         worker[v] # "idle", worker[w] # "idle"
  PROVE  v = w
BY DEF AloneInv, Store!OneWorker

\* What follows the new event is what was stored: it goes back in their order.
LEMMA FindStep ==
  ASSUME Store!EventsStoreAssumption, StoreInv, NEW w \in Workers, Store!Find(w)
  PROVE  StoreInv'
<1> DEFINE e == request[w].event
<1>1. StoreTypeInv /\ FreshInv /\ WorkInv /\ AloneInv
  BY DEF StoreInv
<1>2. worker[w] = "find" /\ UNCHANGED <<workerOf, stored, pushed, push, event, request, written>>
  BY DEF Store!Find, Store!pushVars
<1>3. PICK x \in {"insert", "upsert"} :
        /\ worker' = [worker EXCEPT ![w] = x]
        /\ \/ /\ x = "upsert" /\ stored # <<>>
              /\ mQuery' = [mQuery EXCEPT ![w] = Store!Shifted(stored, e)]
           \/ /\ x = "insert"
              /\ mQuery' = [mQuery EXCEPT ![w] = <<e>>]
  BY DEF Store!Find, Store!NoEvents
<1>4. PICK s : /\ mQuery' = [mQuery EXCEPT ![w] = s]
               /\ \/ x = "upsert" /\ stored # <<>> /\ s = Store!Shifted(stored, e)
                  \/ x = "insert" /\ s = <<e>>
  BY <1>3
<1>5. stored \in Seq(Nat) /\ e \in Nat /\ History \in Nat \ {0}
  BY <1>1 DEF StoreTypeInv, Store!EventsStoreAssumption
<1>6. /\ s \in Seq(Nat) /\ Len(s) > 0 /\ s[1] = e /\ Len(s) =< Len(stored) + 1
      /\ \A i \in 2 .. Len(s) : s[i] = stored[i - 1]
  <2>1. CASE x = "insert"
    <3>1. s \in Seq(Nat) /\ Len(s) = 1 /\ s[1] = e
      BY <1>4, <1>5, <2>1, SingleEvent
    <3> QED BY <1>5, <3>1
  <2>2. CASE x = "upsert"
    <3>1. s = Store!Shifted(stored, e)
      BY <1>4, <2>2
    <3>2. /\ s \in Seq(Nat) /\ s[1] = e
          /\ Len(s) = IF Len(stored) < History THEN Len(stored) + 1 ELSE History
          /\ \A i \in 2 .. Len(s) : s[i] = stored[i - 1]
      <4>1. stored \in Seq(Nat) /\ e \in Nat
        BY <1>5
      <4> HIDE DEF e
      <4> QED BY <3>1, <4>1, ShiftedFacts
    <3> QED BY <1>5, <3>2
  <2> QED BY <2>1, <2>2
<1>7. /\ worker' \in [Workers -> Phases] /\ mQuery' \in [Workers -> Seq(Nat)]
      /\ \A v \in Workers : worker'[v] = IF v = w THEN x ELSE worker[v]
      /\ \A v \in Workers : mQuery'[v] = IF v = w THEN s ELSE mQuery[v]
  BY <1>1, <1>3, <1>4, <1>6 DEF StoreTypeInv, Phases
<1>8. StoreTypeInv'
  BY <1>1, <1>2, <1>7 DEF StoreTypeInv
<1>9. \A v \in Workers : Holds(v)' => Holds(v)
  BY <1>2, <1>7 DEF Holds
<1>10. FreshInv'
  BY <1>1, <1>2, <1>9 DEF FreshInv, Unwritten
<1>11. GoesBackFrom(s, 2)
  <2>1. GoesBackFrom(stored, 1)
    BY <1>1 DEF WorkInv
  <2>2. \A k \in 2 .. Len(s) : s[k] = stored[k - 1] /\ k - 1 \in 1 .. Len(stored)
    BY <1>5, <1>6
  <2>3. \A k \in 2 .. Len(s) - 1 :
          /\ s[k] = stored[k - 1] /\ s[k + 1] = stored[(k - 1) + 1]
          /\ k - 1 \in 1 .. Len(stored) - 1
    BY <1>5, <1>6
  <2>4. \A k \in 2 .. Len(s) : ~Unwritten(s[k])
    BY <2>1, <2>2 DEF GoesBackFrom
  <2>5. ASSUME NEW k \in 2 .. Len(s) - 1, NEW m \in 1 .. Len(written),
               NEW n \in 1 .. Len(written), written[m] = s[k], written[n] = s[k + 1]
        PROVE  m > n
    <3>1. /\ written[m] = stored[k - 1] /\ written[n] = stored[(k - 1) + 1]
          /\ k - 1 \in 1 .. Len(stored) - 1
      BY <2>3, <2>5
    <3> QED BY <2>1, <3>1 DEF GoesBackFrom
  <2> QED BY <2>4, <2>5 DEF GoesBackFrom
<1>12. WorkInv'
  <2>1. ASSUME NEW v \in Workers, worker'[v] \in {"insert", "upsert"}
        PROVE  /\ Len(mQuery'[v]) > 0 /\ mQuery'[v][1] = request[v].event
               /\ GoesBackFrom(mQuery'[v], 2)
    <3>1. CASE v = w
      BY <1>6, <1>7, <1>11, <3>1
    <3>2. CASE v # w
      BY <1>1, <1>7, <2>1, <3>2 DEF WorkInv
    <3> QED BY <3>1, <3>2
  <2> QED BY <1>1, <1>2, <2>1 DEF WorkInv, GoesBackFrom, Unwritten
<1>13. AloneInv'
  <2>1. \A v \in Workers : worker'[v] # "idle" => worker[v] # "idle"
    BY <1>2, <1>7
  <2>2. ASSUME Store!OneWorker
        PROVE  /\ LatestInv'
               /\ \A v \in Workers : worker'[v] = "insert" => mQuery'[v] = <<request'[v].event>>
               /\ \A v \in Workers : worker'[v] = "upsert" =>
                    /\ mQuery'[v] = Store!Shifted(stored', request'[v].event)
                    /\ Len(stored') > 0
    <3>1. LatestInv'
      BY <1>1, <1>2, <2>2 DEF AloneInv, LatestInv
    <3>2. \A v \in Workers : worker'[v] # "idle" => v = w
      BY <1>1, <1>2, <2>1, <2>2, OnlyOneWorks
    <3>3. x = "upsert" => Len(stored) > 0 /\ s = Store!Shifted(stored, e)
      BY <1>4, <1>5
    <3>4. x = "insert" => s = <<e>>
      BY <1>4
    <3> QED BY <1>2, <1>7, <3>1, <3>2, <3>3, <3>4
  <2> QED BY <1>1, <1>2, <2>1, <2>2 DEF AloneInv, Store!OneWorker, Store!Shifted
<1> QED BY <1>8, <1>10, <1>12, <1>13 DEF StoreInv

\* A history is written: its first event is now the last of those written.
LEMMA WriteStep ==
  ASSUME Store!EventsStoreAssumption, StoreInv, NEW w \in Workers,
         worker[w] \in {"insert", "upsert"}, worker[w] = "insert" => stored = <<>>,
         stored' = mQuery[w], written' = Append(written, request[w].event),
         worker' = [worker EXCEPT ![w] = "reply"],
         UNCHANGED <<workerOf, pushed, push, event, request, mQuery>>
  PROVE  StoreInv'
<1> DEFINE e == request[w].event
           L == Len(written)
<1>1. StoreTypeInv /\ FreshInv /\ WorkInv /\ AloneInv
  BY DEF StoreInv
<1>2. /\ written \in Seq(Nat) /\ stored \in Seq(Nat) /\ mQuery[w] \in Seq(Nat) /\ e \in Nat
      /\ L \in Nat /\ History \in Nat \ {0} /\ pushed \in Nat
  BY <1>1 DEF StoreTypeInv, Store!EventsStoreAssumption
<1>3. /\ written' \in Seq(Nat) /\ Len(written') = L + 1 /\ written'[L + 1] = e
      /\ \A i \in 1 .. L : written'[i] = written[i]
  BY <1>2
<1>3a. /\ L + 1 \in 1 .. L + 1 /\ \A m \in 1 .. L : m \in 1 .. L + 1
       /\ \A m \in 1 .. L + 1 : m = L + 1 \/ m \in 1 .. L
  BY <1>2
<1>4. /\ worker' \in [Workers -> Phases]
      /\ \A v \in Workers : worker'[v] = IF v = w THEN "reply" ELSE worker[v]
  BY <1>1 DEF StoreTypeInv, Phases
<1>5. StoreTypeInv'
  BY <1>1, <1>2, <1>3, <1>4 DEF StoreTypeInv
<1>6. Holds(w) /\ Unwritten(e) /\ e =< pushed
  BY <1>1 DEF FreshInv, Holds
<1>7. \A v \in Workers : Holds(v)' => Holds(v) /\ v # w
  BY <1>4 DEF Holds
<1>8. \A y : y # e /\ Unwritten(y) => Unwritten(y)'
  BY <1>2, <1>3 DEF Unwritten
<1>9. FreshInv'
  <2>1. \A i \in 1 .. L + 1 : written'[i] =< pushed
    BY <1>1, <1>2, <1>3, <1>6 DEF FreshInv
  <2>2. \A i, k \in 1 .. L + 1 : written'[i] = written'[k] => i = k
    BY <1>1, <1>2, <1>3, <1>6 DEF FreshInv, Unwritten
  <2>3. \A v \in Workers : Holds(v)' => request[v].event # e /\ Unwritten(request[v].event)
    BY <1>1, <1>6, <1>7 DEF FreshInv
  <2>4. \A p \in Pushers : push[p] = "send" => event[p] # e /\ Unwritten(event[p])
    BY <1>1, <1>6 DEF FreshInv
  <2>5. \A v \in Workers : Holds(v)' => \A i \in 1 .. L + 1 : written'[i] # request[v].event
    BY <1>2, <1>3, <2>3 DEF Unwritten
  <2>6. \A p \in Pushers : push[p] = "send" => \A i \in 1 .. L + 1 : written'[i] # event[p]
    BY <1>2, <1>3, <2>4 DEF Unwritten
  <2> QED BY <1>1, <1>3, <1>7, <2>1, <2>2, <2>5, <2>6 DEF FreshInv, Unwritten
\* What went back in the order of the writes still does.
<1>10. ASSUME NEW s, NEW i \in {1, 2}, s \in Seq(Nat), GoesBackFrom(s, i)
       PROVE  GoesBackFrom(s, i)'
  <2>1. \A k \in i .. Len(s) : s[k] # e /\ \E m \in 1 .. L : written[m] = s[k]
    BY <1>6, <1>10 DEF GoesBackFrom, Unwritten
  <2>2. \A k \in i .. Len(s) : \E m \in 1 .. L + 1 : written'[m] = s[k]
    BY <1>2, <1>3, <2>1
  <2>3. \A k \in i .. Len(s) : \A m \in 1 .. L + 1 :
          written'[m] = s[k] => m \in 1 .. L /\ written[m] = s[k]
    <3> HIDE DEF L, e
    <3> QED BY <1>3, <1>3a, <2>1
  <2>4. \A k \in i .. Len(s) - 1 : k \in i .. Len(s) /\ k + 1 \in i .. Len(s)
    BY <1>10
  <2>5. \A k \in i .. Len(s) - 1 : \A m, n \in 1 .. L + 1 :
          written'[m] = s[k] /\ written'[n] = s[k + 1] => m > n
    BY <1>10, <2>3, <2>4 DEF GoesBackFrom
  <2> QED BY <1>3, <2>2, <2>5 DEF GoesBackFrom, Unwritten
<1>11. Len(mQuery[w]) > 0 /\ mQuery[w][1] = e /\ GoesBackFrom(mQuery[w], 2)
  BY <1>1 DEF WorkInv
<1>12. WorkInv'
  <2> DEFINE s == mQuery[w]
  <2>1. Len(stored') > 0 /\ stored'[1] = written'[Len(written')]
    BY <1>3, <1>11
  <2>2. \A k \in 2 .. Len(s) : \E m \in 1 .. L : written[m] = s[k]
    BY <1>11 DEF GoesBackFrom, Unwritten
  <2>3. \A k \in 2 .. Len(s) : \A m \in 1 .. L + 1 :
          written'[m] = s[k] => m \in 1 .. L /\ written[m] = s[k]
    BY <1>2, <1>3, <1>6, <2>2 DEF Unwritten
  <2>4. \A m \in 1 .. L + 1 : written'[m] = e => m = L + 1
    BY <1>2, <1>3, <1>6 DEF Unwritten
  <2>5. \A k \in 1 .. Len(s) : k = 1 \/ k \in 2 .. Len(s)
    BY <1>2
  <2>6. \A k \in 1 .. Len(s) : \E m \in 1 .. L + 1 : written'[m] = s[k]
    <3> HIDE DEF L, e
    <3> QED BY <1>3, <1>3a, <1>11, <2>2, <2>5
  <2>7. ASSUME NEW k \in 1 .. Len(s) - 1, NEW m \in 1 .. L + 1, NEW n \in 1 .. L + 1,
               written'[m] = s[k], written'[n] = s[k + 1]
        PROVE  m > n
    <3>1. k + 1 \in 2 .. Len(s) /\ n \in 1 .. L /\ written[n] = s[k + 1]
      <4>1. k + 1 \in 2 .. Len(s)
        BY <1>2
      <4> QED BY <2>3, <2>7, <4>1
    <3>2. CASE k = 1
      BY <1>2, <1>11, <2>4, <2>7, <3>1, <3>2
    <3>3. CASE k # 1
      <4>1. k \in 2 .. Len(s) - 1 /\ k \in 2 .. Len(s)
        BY <1>2, <3>3
      <4>2. m \in 1 .. L /\ written[m] = s[k]
        BY <2>3, <2>7, <4>1
      <4> QED BY <1>11, <3>1, <4>1, <4>2 DEF GoesBackFrom
    <3> QED BY <3>2, <3>3
  <2>8. GoesBackFrom(stored, 1)'
    BY <1>3, <2>6, <2>7 DEF GoesBackFrom, Unwritten
  <2>9. ASSUME NEW v \in Workers, worker'[v] \in {"insert", "upsert"}
        PROVE  /\ Len(mQuery[v]) > 0 /\ mQuery[v][1] = request[v].event
               /\ GoesBackFrom(mQuery[v], 2)
    BY <1>1, <1>4, <2>9 DEF WorkInv
  <2>10. ASSUME NEW v \in Workers, worker'[v] \in {"insert", "upsert"}
         PROVE  GoesBackFrom(mQuery[v], 2)'
    <3>1. mQuery[v] \in Seq(Nat)
      BY <1>1 DEF StoreTypeInv
    <3>2. PICK q : q = mQuery[v]
      OBVIOUS
    <3>3. GoesBackFrom(q, 2)'
      BY <1>10, <2>9, <2>10, <3>1, <3>2
    <3> QED BY <3>2, <3>3 DEF GoesBackFrom, Unwritten
  <2> QED BY <2>1, <2>8, <2>9, <2>10 DEF WorkInv
<1>13. AloneInv'
  <2>1. \A v \in Workers : worker'[v] # "idle" => worker[v] # "idle"
    BY <1>4
  <2>2. ASSUME Store!OneWorker
        PROVE  /\ LatestInv'
               /\ \A v \in Workers : worker'[v] \notin {"insert", "upsert"}
    <3>1. /\ LatestInv
          /\ worker[w] = "insert" => mQuery[w] = <<e>>
          /\ worker[w] = "upsert" => mQuery[w] = Store!Shifted(stored, e) /\ Len(stored) > 0
      BY <1>1, <2>2 DEF AloneInv
    <3>2. \A v \in Workers : worker'[v] \notin {"insert", "upsert"}
      BY <1>1, <1>4, <2>1, <2>2, OnlyOneWorks
    <3>3. CASE worker[w] = "insert"
      <4>1. L = 0
        BY <1>2, <3>1, <3>3 DEF LatestInv
      <4>2. Len(stored') = 1 /\ stored'[1] = e
        BY <1>2, <3>1, <3>3, SingleEvent
      <4>3. Len(written') = 1 /\ written'[1] = e
        BY <1>3, <4>1
      <4>4. Len(stored') = IF Len(written') < History THEN Len(written') ELSE History
        BY <1>2, <4>2, <4>3
      <4>5. \A i \in 1 .. Len(stored') : i = 1 /\ Len(written') - i + 1 = 1
        BY <4>2, <4>3
      <4> QED BY <3>2, <4>2, <4>3, <4>4, <4>5 DEF LatestInv
    <3>4. CASE worker[w] = "upsert"
      <4>1. /\ Len(stored') = IF Len(stored) < History THEN Len(stored) + 1 ELSE History
            /\ stored'[1] = e
            /\ \A i \in 2 .. Len(stored') : stored'[i] = stored[i - 1]
        <5>1. stored' = Store!Shifted(stored, e)
          BY <3>1, <3>4
        <5>2. stored \in Seq(Nat) /\ e \in Nat
          BY <1>2
        <5>3. PICK h : h = stored'
          OBVIOUS
        <5>4. /\ Len(h) = IF Len(stored) < History THEN Len(stored) + 1 ELSE History
              /\ h[1] = e /\ \A i \in 2 .. Len(h) : h[i] = stored[i - 1]
          BY <5>1, <5>2, <5>3, ShiftedFacts
        <5> QED BY <5>3, <5>4
      <4>2. Len(stored) = IF L < History THEN L ELSE History
        BY <3>1 DEF LatestInv
      <4>3. Len(stored') = IF L + 1 < History THEN L + 1 ELSE History
        BY <1>2, <4>1, <4>2
      <4>4. ASSUME NEW i \in 2 .. Len(stored')
            PROVE  stored'[i] = written'[(L + 1) - i + 1]
        <5>1. /\ i - 1 \in 1 .. Len(stored) /\ L - (i - 1) + 1 \in 1 .. L
              /\ (L + 1) - i + 1 = L - (i - 1) + 1
          BY <1>2, <4>1, <4>2, <4>3
        <5>2. stored'[i] = stored[i - 1] /\ stored[i - 1] = written[L - (i - 1) + 1]
          BY <3>1, <4>1, <5>1 DEF LatestInv
        <5> QED BY <1>3, <5>1, <5>2
      <4>5. stored'[1] = written'[(L + 1) - 1 + 1]
        BY <1>2, <1>3, <4>1
      <4>6. Len(stored') \in Nat /\ \A i \in 1 .. Len(stored') : i = 1 \/ i \in 2 .. Len(stored')
        BY <1>2
      <4> QED BY <1>3, <3>2, <4>3, <4>4, <4>5, <4>6 DEF LatestInv
    <3> QED BY <3>3, <3>4
  <2> QED BY <1>1, <2>1, <2>2 DEF AloneInv, Store!OneWorker
<1> QED BY <1>5, <1>9, <1>12, <1>13 DEF StoreInv

LEMMA PushSteps ==
  ASSUME StoreInv, NEW p \in Pushers, Store!PushStep(p)
  PROVE  StoreInv'
<1>1. PICK x \in {"wait", "deadline"} : push' = [push EXCEPT ![p] = x]
  BY DEF Store!PushStep, Store!Receive, Store!Deadline
<1>2. UNCHANGED <<workerOf, stored, pushed, event, worker, request, mQuery, written>>
  BY DEF Store!PushStep, Store!Receive, Store!Deadline
<1>3. push \in [Pushers -> Steps] /\ worker \in [Workers -> Phases]
  BY DEF StoreInv, StoreTypeInv
<1>4. push' \in [Pushers -> Steps] /\ \A q \in Pushers : push'[q] = "send" => push[q] = "send"
  BY <1>1, <1>3 DEF Steps
<1> QED BY <1>2, <1>3, <1>4, StoreQuiet

\* The worker has answered, or could not write.
LEMMA WorkerDone ==
  ASSUME StoreInv, NEW w \in Workers, worker[w] # "idle",
         NEW x \in {"reply", "idle"}, worker' = [worker EXCEPT ![w] = x],
         push' \in [Pushers -> Steps],
         \A p \in Pushers : push'[p] = "send" => push[p] = "send",
         UNCHANGED <<workerOf, stored, pushed, event, request, mQuery, written>>
  PROVE  StoreInv'
<1>1. worker \in [Workers -> Phases]
  BY DEF StoreInv, StoreTypeInv
<1>2. /\ worker' \in [Workers -> Phases]
      /\ \A v \in Workers : \/ worker'[v] = worker[v]
                            \/ worker[v] # "idle" /\ worker'[v] \in {"reply", "idle"}
  BY <1>1 DEF Phases
<1> QED BY <1>2, StoreQuiet

LEMMA WriteSteps ==
  ASSUME Store!EventsStoreAssumption, StoreInv, NEW w \in Workers,
         Store!Insert(w) \/ Store!Upsert(w)
  PROVE  StoreInv'
<1>1. /\ worker[w] \in {"insert", "upsert"} /\ worker' = [worker EXCEPT ![w] = "reply"]
      /\ UNCHANGED <<workerOf, pushed, push, event, request, mQuery>>
  BY DEF Store!Insert, Store!Upsert, Store!pushVars
<1>2. \/ UNCHANGED <<stored, written>>
      \/ /\ worker[w] = "insert" => stored = <<>>
         /\ stored' = mQuery[w] /\ written' = Append(written, request[w].event)
  BY DEF Store!Insert, Store!Upsert, Store!NoEvents
<1>3. push \in [Pushers -> Steps]
  BY DEF StoreInv, StoreTypeInv
<1> QED BY <1>1, <1>2, <1>3, WorkerDone, WriteStep

LEMMA ReplyStep ==
  ASSUME StoreInv, NEW w \in Workers, Store!Reply(w)
  PROVE  StoreInv'
<1> DEFINE p == request[w].from
<1>1. /\ worker[w] = "reply" /\ worker' = [worker EXCEPT ![w] = "idle"]
      /\ push' = [push EXCEPT ![p] =
                    IF @ = "wait" /\ event[p] = request[w].event THEN "ok" ELSE @]
      /\ UNCHANGED <<workerOf, stored, pushed, event, request, mQuery, written>>
  BY DEF Store!Reply
<1>2. push \in [Pushers -> Steps]
  BY DEF StoreInv, StoreTypeInv
<1>3. push' \in [Pushers -> Steps] /\ \A q \in Pushers : push'[q] = "send" => push[q] = "send"
  BY <1>1, <1>2 DEF Steps
<1> QED BY <1>1, <1>3, WorkerDone

LEMMA StoreNext ==
  ASSUME Store!EventsStoreAssumption, StoreInv, [Store!Next]_Store!vars
  PROVE  StoreInv'
<1>1. ASSUME NEW p \in Pushers, Store!Call(p) \/ Store!Query(p) \/ Store!PushStep(p)
      PROVE  StoreInv'
  BY <1>1, CallStep, QueryStep, PushSteps
<1>2. ASSUME NEW w \in Workers, Store!WorkerStep(w)
      PROVE  StoreInv'
  BY <1>2, FindStep, WriteSteps, ReplyStep DEF Store!WorkerStep
<1>3. CASE UNCHANGED Store!vars
  <2>1. UNCHANGED <<workerOf, stored, pushed, push, event, worker, request, mQuery, written>>
    BY <1>3 DEF Store!vars
  <2>2. push \in [Pushers -> Steps] /\ worker \in [Workers -> Phases]
    BY DEF StoreInv, StoreTypeInv
  <2> QED BY <2>1, <2>2, StoreQuiet
<1> QED BY <1>1, <1>2, <1>3 DEF Store!Next

LEMMA KeptInv ==
  ASSUME Store!EventsStoreAssumption, StoreInv
  PROVE  Store!HistoryKept
<1>1. StoreTypeInv /\ FreshInv /\ WorkInv /\ AloneInv
  BY DEF StoreInv
<1>2. /\ stored \in Seq(Nat) /\ written \in Seq(Nat) /\ History \in Nat \ {0}
      /\ Len(written) \in Nat /\ Len(stored) \in Nat
  BY <1>1 DEF StoreTypeInv, Store!EventsStoreAssumption
<1>3. written # <<>> => stored # <<>> /\ Head(stored) = Store!Last(written)
  <2>1. written # <<>> => Len(written) > 0
    BY <1>2
  <2>2. written # <<>> => Len(stored) > 0 /\ stored[1] = written[Len(written)]
    BY <1>1, <2>1 DEF WorkInv
  <2> QED BY <1>2, <2>2 DEF Store!Last
<1>4. ASSUME NEW i \in 1 .. Len(stored) - 1
      PROVE  Store!Written(stored[i]) > Store!Written(stored[i + 1])
  <2>1. i \in 1 .. Len(stored) /\ i + 1 \in 1 .. Len(stored) /\ DOMAIN written = 1 .. Len(written)
    BY <1>2
  <2>2. GoesBackFrom(stored, 1)
    BY <1>1 DEF WorkInv
  <2>3. /\ \E m \in DOMAIN written : written[m] = stored[i]
        /\ \E m \in DOMAIN written : written[m] = stored[i + 1]
    BY <2>1, <2>2 DEF GoesBackFrom, Unwritten
  <2>4. PICK m \in DOMAIN written : m = Store!Written(stored[i]) /\ written[m] = stored[i]
    BY <2>3 DEF Store!Written
  <2>5. PICK n \in DOMAIN written :
          n = Store!Written(stored[i + 1]) /\ written[n] = stored[i + 1]
    BY <2>3 DEF Store!Written
  <2>6. m > n
    BY <2>1, <2>2, <2>4, <2>5 DEF GoesBackFrom
  <2> QED BY <2>4, <2>5, <2>6
<1>5. Store!HistoryGoesBack
  BY <1>3, <1>4 DEF Store!HistoryGoesBack, Store!NoEvents
<1>6. ASSUME Store!OneWorker
      PROVE  Store!HistoryIsLatest
  <2> DEFINE n == IF Len(written) < History THEN Len(written) ELSE History
             last == SubSeq(written, Len(written) - n + 1, Len(written))
  <2>1. Len(stored) = n /\ \A i \in 1 .. n : stored[i] = written[Len(written) - i + 1]
    BY <1>1, <1>6 DEF AloneInv, LatestInv
  <2>2. n \in Nat /\ n =< Len(written)
    BY <1>2
  <2> HIDE DEF n
  <2>3. /\ Len(last) = n
        /\ \A i \in 1 .. n : last[i] = written[(Len(written) - n + 1) + i - 1]
    BY <1>2, <2>2
  <2>4. \A i \in 1 .. n : /\ (n - i) + 1 \in 1 .. n
                          /\ (Len(written) - n + 1) + ((n - i) + 1) - 1 = Len(written) - i + 1
    BY <1>2, <2>2
  <2> HIDE DEF last
  <2>5. \A i \in 1 .. n : stored[i] = last[(n - i) + 1]
    BY <2>1, <2>3, <2>4
  <2>6. stored = [i \in 1 .. n |-> stored[i]]
    BY <1>2, <2>1
  <2>7. stored = [i \in 1 .. n |-> last[(n - i) + 1]]
    BY <2>5, <2>6
  <2>8. stored = Store!Reverse(last)
    BY <2>3, <2>7 DEF Store!Reverse
  <2> QED BY <2>8 DEF Store!HistoryIsLatest, Store!Latest, n, last
<1> QED BY <1>5, <1>6 DEF Store!HistoryKept

(***************************************************************************)
(* The history of a key begins with the last event written and goes back in *)
(* the order of the writes, however many processes write it; if it is one,  *)
(* it is the latest events without a gap, whatever times out or fails       *)
(* (plugins_store.go:105-143, 146-175).                                     *)
(***************************************************************************)
THEOREM HistoryIsKept == Spec => []HistoryKept
<1>1. Init => StoreInv
  BY SendersAssumption, StoreInit DEF Init
<1>2. StoreInv /\ [Next]_<<checksVars, sendVars, storeVars, graphiteVars>> => StoreInv'
  BY SendersAssumption, PartsMove, StoreNext
<1>3. StoreInv => HistoryKept
  BY SendersAssumption, KeptInv DEF HistoryKept
<1> QED BY <1>1, <1>2, <1>3, PTL DEF Spec

-----------------------------------------------------------------------------
(***************************************************************************)
(* JugglerChecks.  A Send posts only what differs from the copy it read, so *)
(* that a check it does not post must be at the API already.  It is: every  *)
(* copy, in a cache, on its way there or in the hands of a Send, has only   *)
(* checks that the API has (Backed), because nobody ever takes one away.    *)
(***************************************************************************)

Services == Checks!Services
NoCheck == Checks!NoCheck

IsCopy(checks) == \A c \in Services : Checks!IsCheck(checks[c])

\* Of these services the API has every check that the copy has.
Backed(checks, services) == \A c \in services : checks[c] # NoCheck => server[c] # NoCheck

Reread(p) == refresh[p] \notin {<<>>, <<Checks!NoCopy>>}

CachesInv ==
  \A p \in Processes :
    /\ cache[p] # Checks!NoCopy => IsCopy(cache[p]) /\ Backed(cache[p], Services)
    /\ Reread(p) => IsCopy(refresh[p][1]) /\ Backed(refresh[p][1], Services)

\* What Send has read; what it has made of it; what it has written.
SenderInv(s) ==
  /\ check[s] = "ensure" => IsCopy(copy[s]) /\ Backed(copy[s], Services)
  /\ check[s] \in {"update", "error"} =>
       /\ IsCopy(copy[s]) /\ todo[s] \subseteq Services /\ Backed(copy[s], Services \ todo[s])
       /\ \A c \in todo[s] : copy[s][c] # NoCheck
       /\ \A t \in Checks!TriggersOf(s) : copy[s][t.service] # NoCheck
  /\ check[s] = "sent" => \A t \in Checks!TriggersOf(s) : server[t.service] # NoCheck

\* f is a function on S.
On(f, S) == f = [x \in S |-> f[x]]

ChecksInv ==
  /\ DOMAIN server = Services /\ IsCopy(server)
  /\ On(cache, Processes) /\ On(refresh, Processes)
  /\ On(check, Senders) /\ On(copy, Senders) /\ On(todo, Senders)
  /\ CachesInv
  /\ \A s \in Senders : SenderInv(s)

\* Every Send has a process, always the same.
ProcessInv == processOf \in [Senders -> Processes]

\* No check is taken away from the API.
Grows == \A c \in Services : server[c] # NoCheck => server'[c] # NoCheck

-----------------------------------------------------------------------------

\* The events of a Send are about services.
LEMMA EventService ==
  ASSUME NEW s \in Senders, NEW t \in Checks!TriggersOf(s)
  PROVE  t.service \in Services
BY DEF Services, Checks!Services

\* A set of numbers has a least one.
LEMMA Least == ASSUME NEW T \in SUBSET Nat, T # {} PROVE \E x \in T : \A y \in T : x =< y
<1>1. \E x \in T : \A y \in T : ~(<<y, x>> \in OpToRel(<, Nat))
  BY NatLessThanWellFounded, WFMin, Zenon
<1>2. ASSUME NEW x \in Nat, NEW y \in Nat, y < x PROVE <<y, x>> \in OpToRel(<, Nat)
  BY <1>2 DEF OpToRel
<1>3. \E x \in T : \A y \in T : ~(y < x)
  BY <1>1, <1>2, Zenon
<1> QED BY <1>3

\* Each service of the events is ensured for its first event.
LEMMA ServiceEnsured ==
  ASSUME Checks!JugglerChecksAssumption, NEW s \in Senders, NEW t \in Checks!TriggersOf(s)
  PROVE  \E u \in Checks!Ensuring(s) : u.service = t.service
<1> DEFINE ts == Triggers[s]
           T == {i \in DOMAIN ts : ts[i].service = t.service}
<1>1. ts \in Seq(Checks!TriggersOf(s))
  BY DEF Checks!JugglerChecksAssumption
<1>2. DOMAIN ts = 1 .. Len(ts) /\ Len(ts) \in Nat
  BY <1>1
<1>3. T # {}
  BY DEF Checks!TriggersOf, Checks!ToSet
<1>4. T \in SUBSET Nat
  BY <1>2
<1>5. PICK i \in T : \A j \in T : i =< j
  BY <1>3, <1>4, Least
<1>6. \A j \in 1 .. i - 1 : ts[j].service # ts[i].service
  BY <1>2, <1>4, <1>5
<1>7. ts[i] \in Checks!Ensuring(s) /\ ts[i].service = t.service
  BY <1>5, <1>6 DEF Checks!Ensuring
<1> QED BY <1>7

\* A check that is ensured is one.
LEMMA EnsuredIsCheck ==
  ASSUME NEW c, NEW t, Checks!IsCheck(c)
  PROVE  Checks!IsCheck(Checks!Ensured(c, t)) /\ Checks!Ensured(c, t) # NoCheck
<1> DEFINE d == IF c = Checks!NoCheck THEN Checks!NewCheck ELSE c
<1>1. DOMAIN d = DOMAIN Checks!NewCheck
  BY DEF Checks!IsCheck
<1>2. \A x : DOMAIN Checks!Settings(x) = DOMAIN x
  BY Zenon DEF Checks!Settings, Checks!ensureTTL, Checks!ensureAggregator,
     Checks!ensureNotifications, Checks!ensureFlap, Checks!ensureTags,
     Checks!ensureDescription, Checks!ensureNamespace
<1>3. DOMAIN Checks!Ensured(c, t) = DOMAIN d
  BY <1>2 DEF Checks!Ensured
<1>4. "ttl" \in DOMAIN Checks!NewCheck
  BY Zenon DEF Checks!NewCheck
<1>5. "ttl" \notin DOMAIN NoCheck
  BY DEF NoCheck, Checks!NoCheck
<1> QED BY <1>1, <1>3, <1>4, <1>5 DEF Checks!IsCheck

LEMMA ChecksInit == ASSUME Checks!JugglerChecksAssumption, Checks!Init PROVE ChecksInv
<1>1. DOMAIN server = Services /\ IsCopy(server)
  BY DEF Checks!JugglerChecksAssumption, Checks!Init, IsCopy, Services
<1>2. CachesInv
  BY DEF Checks!Init, CachesInv, Reread
<1>3. \A s \in Senders : SenderInv(s)
  BY DEF Checks!Init, SenderInv
<1>4. /\ On(cache, Processes) /\ On(refresh, Processes)
      /\ On(check, Senders) /\ On(copy, Senders) /\ On(todo, Senders)
  BY DEF Checks!Init, On
<1> QED BY <1>1, <1>2, <1>3, <1>4 DEF ChecksInv

\* A Send that does not move, and caches that do not change, stay backed.
LEMMA SenderKept ==
  ASSUME NEW s \in Senders, SenderInv(s), Grows,
         check'[s] = check[s], copy'[s] = copy[s], todo'[s] = todo[s]
  PROVE  SenderInv(s)'
BY EventService DEF SenderInv, Grows, Backed, IsCopy

LEMMA CachesKept ==
  ASSUME CachesInv, Grows, UNCHANGED <<cache, refresh>>
  PROVE  CachesInv'
BY DEF CachesInv, Grows, Backed, IsCopy, Reread

\* Sender s moves: what is left to show is what is said of s and the caches.
LEMMA SenderMoves ==
  ASSUME ChecksInv, NEW s \in Senders, Grows, DOMAIN server' = Services, IsCopy(server)',
         On(cache, Processes)', On(refresh, Processes)',
         NEW x, check' = [check EXCEPT ![s] = x],
         NEW y, copy' = [copy EXCEPT ![s] = y],
         NEW z, todo' = [todo EXCEPT ![s] = z],
         CachesInv', SenderInv(s)'
  PROVE  ChecksInv'
<1>0. On(check, Senders) /\ On(copy, Senders) /\ On(todo, Senders)
  BY DEF ChecksInv
<1>1. On(check, Senders)' /\ On(copy, Senders)' /\ On(todo, Senders)'
  BY <1>0 DEF On
<1>2. \A q \in Senders : q # s => check'[q] = check[q] /\ copy'[q] = copy[q] /\ todo'[q] = todo[q]
  BY <1>0 DEF On
<1>3. \A q \in Senders : q # s => SenderInv(q)'
  BY <1>2, SenderKept DEF ChecksInv
<1> QED BY <1>1, <1>3 DEF ChecksInv

\* What a step that leaves the API alone keeps.
LEMMA ServerKept ==
  ASSUME ChecksInv, UNCHANGED server
  PROVE  Grows /\ DOMAIN server' = Services /\ IsCopy(server)'
BY DEF ChecksInv, Grows, IsCopy

LEMMA Kept ==
  ASSUME ChecksInv, NEW s \in Senders
  PROVE  /\ check = [check EXCEPT ![s] = check[s]] /\ copy = [copy EXCEPT ![s] = copy[s]]
         /\ todo = [todo EXCEPT ![s] = todo[s]]
         /\ \A x : [check EXCEPT ![s] = x][s] = x /\ [copy EXCEPT ![s] = x][s] = x
                   /\ [todo EXCEPT ![s] = x][s] = x
<1>1. On(check, Senders) /\ On(copy, Senders) /\ On(todo, Senders)
  BY DEF ChecksInv
<1> QED BY <1>1 DEF On

\* The cache of process p gets checks x, and its refresh becomes y.
LEMMA CacheMoves ==
  ASSUME ChecksInv, NEW p \in Processes, UNCHANGED server,
         NEW x, cache' = [cache EXCEPT ![p] = x],
         NEW y, refresh' = [refresh EXCEPT ![p] = y],
         x # Checks!NoCopy => IsCopy(x) /\ Backed(x, Services),
         y \notin {<<>>, <<Checks!NoCopy>>} => IsCopy(y[1]) /\ Backed(y[1], Services)
  PROVE  CachesInv' /\ On(cache, Processes)' /\ On(refresh, Processes)'
<1>1. CachesInv /\ On(cache, Processes) /\ On(refresh, Processes)
  BY DEF ChecksInv
<1>2. /\ \A q \in Processes : cache'[q] = IF q = p THEN x ELSE cache[q]
      /\ \A q \in Processes : refresh'[q] = IF q = p THEN y ELSE refresh[q]
      /\ On(cache, Processes)' /\ On(refresh, Processes)'
  BY <1>1 DEF On
<1>3. CachesInv'
  BY <1>1, <1>2 DEF CachesInv, Reread, Backed, IsCopy
<1> QED BY <1>2, <1>3

LEMMA CacheSame ==
  ASSUME ChecksInv, NEW p \in Processes
  PROVE  /\ cache = [cache EXCEPT ![p] = cache[p]] /\ refresh = [refresh EXCEPT ![p] = refresh[p]]
         /\ cache[p] # Checks!NoCopy => IsCopy(cache[p]) /\ Backed(cache[p], Services)
         /\ refresh[p] \notin {<<>>, <<Checks!NoCopy>>} =>
              IsCopy(refresh[p][1]) /\ Backed(refresh[p][1], Services)
<1>1. CachesInv /\ On(cache, Processes) /\ On(refresh, Processes)
  BY DEF ChecksInv
<1>2. cache = [cache EXCEPT ![p] = cache[p]] /\ refresh = [refresh EXCEPT ![p] = refresh[p]]
  BY <1>1 DEF On
<1> QED BY <1>1, <1>2 DEF CachesInv, Reread

\* A Send begins, or gets no checks: nothing is said of it.
LEMMA IdleSteps ==
  ASSUME ChecksInv, NEW s \in Senders, Checks!Start(s) \/ Checks!FetchFails(s)
  PROVE  ChecksInv'
<1>1. PICK x \in {"get", "failed"} : check' = [check EXCEPT ![s] = x]
  BY DEF Checks!Start, Checks!FetchFails
<1>2. UNCHANGED <<server, cache, refresh, copy, todo>>
  BY DEF Checks!Start, Checks!FetchFails, Checks!apiVars, Checks!cacheVars, Checks!sendVars
<1>3. Grows /\ DOMAIN server' = Services /\ IsCopy(server)'
  BY <1>2, ServerKept
<1>4. CachesInv' /\ On(cache, Processes)' /\ On(refresh, Processes)'
  BY <1>2, <1>3, CachesKept DEF ChecksInv, On
<1>5. check'[s] = x
  BY <1>1, Kept
<1>6. SenderInv(s)'
  BY <1>5 DEF SenderInv
<1>7. copy' = [copy EXCEPT ![s] = copy[s]] /\ todo' = [todo EXCEPT ![s] = todo[s]]
  BY <1>2, Kept
<1> QED BY <1>1, <1>3, <1>4, <1>6, <1>7, SenderMoves

LEMMA UseCachedStep ==
  ASSUME ProcessInv, ChecksInv, NEW s \in Senders, Checks!UseCached(s)
  PROVE  ChecksInv'
<1> DEFINE p == processOf[s]
           y == IF expired[p] /\ refresh[p] = <<>> THEN <<Checks!NoCopy>> ELSE refresh[p]
<1>1. /\ cache[p] # Checks!NoCopy /\ copy' = [copy EXCEPT ![s] = cache[p]]
      /\ refresh' = [refresh EXCEPT ![p] = y] /\ check' = [check EXCEPT ![s] = "ensure"]
      /\ UNCHANGED <<server, cache, todo>>
  BY DEF Checks!UseCached, Checks!apiVars
<1>2. p \in Processes
  BY DEF ProcessInv
<1>3. Grows /\ DOMAIN server' = Services /\ IsCopy(server)'
  BY <1>1, ServerKept
<1>4. /\ cache' = [cache EXCEPT ![p] = cache[p]]
      /\ IsCopy(cache[p]) /\ Backed(cache[p], Services)
      /\ y \notin {<<>>, <<Checks!NoCopy>>} => IsCopy(y[1]) /\ Backed(y[1], Services)
  BY <1>1, <1>2, CacheSame
<1> HIDE DEF y
<1>5. CachesInv' /\ On(cache, Processes)' /\ On(refresh, Processes)'
  BY <1>1, <1>2, <1>4, CacheMoves
<1>6. check'[s] = "ensure" /\ copy'[s] = cache[p]
  BY <1>1, Kept
<1>7. SenderInv(s)'
  BY <1>1, <1>4, <1>6 DEF SenderInv, Backed, IsCopy
<1>8. todo' = [todo EXCEPT ![s] = todo[s]]
  BY <1>1, Kept
<1> QED BY <1>1, <1>3, <1>5, <1>7, <1>8, SenderMoves

LEMMA FetchStep ==
  ASSUME ProcessInv, ChecksInv, NEW s \in Senders, Checks!Fetch(s)
  PROVE  ChecksInv'
<1> DEFINE p == processOf[s]
<1>1. /\ copy' = [copy EXCEPT ![s] = cache'[p]] /\ check' = [check EXCEPT ![s] = "ensure"]
      /\ UNCHANGED <<server, refresh, todo>>
  BY DEF Checks!Fetch
<1>2. PICK x \in {server, [c \in Services |-> NoCheck]} : cache' = [cache EXCEPT ![p] = x]
  BY DEF Checks!Fetch, Services, NoCheck
<1>3. p \in Processes
  BY DEF ProcessInv
<1>4. Grows /\ DOMAIN server' = Services /\ IsCopy(server)'
  BY <1>1, ServerKept
<1>5. IsCopy(x) /\ Backed(x, Services)
  BY DEF ChecksInv, IsCopy, Backed, Checks!IsCheck, NoCheck
<1>6. /\ refresh' = [refresh EXCEPT ![p] = refresh[p]]
      /\ refresh[p] \notin {<<>>, <<Checks!NoCopy>>} =>
           IsCopy(refresh[p][1]) /\ Backed(refresh[p][1], Services)
  BY <1>1, <1>3, CacheSame
<1>7. CachesInv' /\ On(cache, Processes)' /\ On(refresh, Processes)'
  BY <1>1, <1>2, <1>3, <1>5, <1>6, CacheMoves
<1>8. cache'[p] = x
  BY <1>2, <1>3 DEF ChecksInv, On
<1>9. check'[s] = "ensure" /\ copy'[s] = x
  BY <1>1, <1>8, Kept
<1>10. SenderInv(s)'
  BY <1>1, <1>5, <1>9 DEF SenderInv, Backed, IsCopy
<1>11. todo' = [todo EXCEPT ![s] = todo[s]]
  BY <1>1, Kept
<1> QED BY <1>1, <1>4, <1>7, <1>10, <1>11, SenderMoves

\* What is not to be posted is as it was read, and that the API has.
LEMMA ensureCheckStep ==
  ASSUME Checks!JugglerChecksAssumption, ChecksInv, NEW s \in Senders, Checks!ensureCheck(s)
  PROVE  ChecksInv'
<1> DEFINE first(c) == CHOOSE t \in Checks!Ensuring(s) : t.service = c
           ensured == [c \in Services |->
                         IF \E t \in Checks!Ensuring(s) : t.service = c
                         THEN Checks!Ensured(copy[s][c], first(c)) ELSE copy[s][c]]
           changed == {c \in Services : ensured[c] # copy[s][c]}
<1>1. /\ check[s] = "ensure" /\ copy' = [copy EXCEPT ![s] = ensured]
      /\ todo' = [todo EXCEPT ![s] = changed] /\ check' = [check EXCEPT ![s] = "update"]
      /\ UNCHANGED <<server, cache, refresh>>
  BY DEF Checks!ensureCheck, Services, Checks!apiVars, Checks!cacheVars
<1>2. IsCopy(copy[s]) /\ Backed(copy[s], Services)
  BY <1>1 DEF ChecksInv, SenderInv
<1>3. \A c \in Services :
        (\E t \in Checks!Ensuring(s) : t.service = c) =>
           Checks!IsCheck(ensured[c]) /\ ensured[c] # NoCheck
  BY <1>2, EnsuredIsCheck DEF IsCopy
<1>4. \A c \in Services :
        (~\E t \in Checks!Ensuring(s) : t.service = c) => ensured[c] = copy[s][c]
  OBVIOUS
<1> HIDE DEF ensured
<1>5. IsCopy(ensured)
  BY <1>2, <1>3, <1>4 DEF IsCopy
<1>6. Backed(ensured, Services \ changed)
  BY <1>2 DEF Backed
<1>7. \A c \in changed : ensured[c] # NoCheck
  BY <1>3, <1>4
<1>8. \A t \in Checks!TriggersOf(s) : ensured[t.service] # NoCheck
  BY <1>3, ServiceEnsured, EventService
<1>9. changed \subseteq Services
  OBVIOUS
<1> HIDE DEF changed
<1>10. check'[s] = "update" /\ copy'[s] = ensured /\ todo'[s] = changed
  BY <1>1, Kept
<1>11. SenderInv(s)'
  BY <1>1, <1>5, <1>6, <1>7, <1>8, <1>9, <1>10 DEF SenderInv, Backed, IsCopy
<1>12. Grows /\ DOMAIN server' = Services /\ IsCopy(server)'
  BY <1>1, ServerKept
<1>13. CachesInv' /\ On(cache, Processes)' /\ On(refresh, Processes)'
  BY <1>1, <1>12, CachesKept DEF ChecksInv, On
<1> QED BY <1>1, <1>11, <1>12, <1>13, SenderMoves

\* A check reaches the API before it is taken off the list.
LEMMA updateCheckStep ==
  ASSUME Checks!JugglerChecksAssumption, ChecksInv, NEW s \in Senders, Checks!updateCheck(s)
  PROVE  ChecksInv'
<1>1. check[s] = "update" /\ UNCHANGED <<cache, refresh, copy>>
  BY DEF Checks!updateCheck, Checks!cacheVars
<1>2. PICK c \in todo[s] :
        \/ /\ Checks!Posted(s, c) /\ todo' = [todo EXCEPT ![s] = @ \ {c}] /\ UNCHANGED check
        \/ /\ Checks!Posted(s, c) \/ UNCHANGED server
           /\ \/ UNCHANGED <<check, todo>>
              \/ check' = [check EXCEPT ![s] = "error"] /\ UNCHANGED todo
  BY DEF Checks!updateCheck
<1>3. /\ IsCopy(copy[s]) /\ todo[s] \subseteq Services /\ Backed(copy[s], Services \ todo[s])
      /\ \A d \in todo[s] : copy[s][d] # NoCheck
      /\ \A t \in Checks!TriggersOf(s) : copy[s][t.service] # NoCheck
      /\ DOMAIN server = Services /\ IsCopy(server)
  BY <1>1 DEF ChecksInv, SenderInv
<1>4. /\ Checks!Posted(s, c) =>
           /\ DOMAIN server' = Services
           /\ \A d \in Services : server'[d] = IF d = c THEN copy[s][c] ELSE server[d]
      /\ c \in Services /\ copy[s][c] # NoCheck
  BY <1>3 DEF Checks!Posted
<1>5. Checks!Posted(s, c) \/ UNCHANGED server
  BY <1>2
<1>6. Grows /\ DOMAIN server' = Services /\ IsCopy(server)'
  BY <1>3, <1>4, <1>5, ServerKept DEF Grows, IsCopy
<1>7. PICK x, z : /\ check' = [check EXCEPT ![s] = x] /\ x \in {"update", "error"}
                  /\ todo' = [todo EXCEPT ![s] = z]
                  /\ z = todo[s] \/ (z = todo[s] \ {c} /\ Checks!Posted(s, c))
  BY <1>1, <1>2, Kept
<1>8. check'[s] = x /\ todo'[s] = z /\ copy'[s] = copy[s] /\ copy' = [copy EXCEPT ![s] = copy[s]]
  BY <1>1, <1>7, Kept
<1>9. \A d \in Services \ z : copy[s][d] # NoCheck => server'[d] # NoCheck
  <2>1. ASSUME NEW d \in Services \ todo[s], copy[s][d] # NoCheck PROVE server'[d] # NoCheck
    BY <1>3, <1>6, <2>1 DEF Backed, Grows
  <2>2. CASE z = todo[s]
    BY <2>1, <2>2
  <2>3. CASE z = todo[s] \ {c} /\ Checks!Posted(s, c)
    BY <1>4, <2>1, <2>3
  <2> QED BY <1>7, <2>2, <2>3
<1>10. z \subseteq todo[s]
  BY <1>7
<1>11. SenderInv(s)'
  BY <1>3, <1>7, <1>8, <1>9, <1>10 DEF SenderInv, Backed, IsCopy
<1>12. CachesInv' /\ On(cache, Processes)' /\ On(refresh, Processes)'
  BY <1>1, <1>6, CachesKept DEF ChecksInv, On
<1> QED BY <1>6, <1>7, <1>8, <1>11, <1>12, SenderMoves

\* Nothing is left to post: the API has a check for every event.
LEMMA CleanCacheStep ==
  ASSUME ProcessInv, ChecksInv, NEW s \in Senders, Checks!CleanCache(s)
  PROVE  ChecksInv'
<1> DEFINE p == processOf[s]
           x == IF dirty[s] THEN Checks!NoCopy ELSE cache[p]
           place == IF check[s] = "error" THEN "failed" ELSE "sent"
<1>1. /\ check[s] = "error" \/ (check[s] = "update" /\ todo[s] = {})
      /\ cache' = [cache EXCEPT ![p] = x] /\ check' = [check EXCEPT ![s] = place]
      /\ copy' = [copy EXCEPT ![s] = Checks!NoCopy] /\ todo' = [todo EXCEPT ![s] = {}]
      /\ UNCHANGED <<server, refresh>>
  BY DEF Checks!CleanCache, Checks!apiVars
<1>2. p \in Processes
  BY DEF ProcessInv
<1>3. Grows /\ DOMAIN server' = Services /\ IsCopy(server)'
  BY <1>1, ServerKept
<1>4. /\ x # Checks!NoCopy => IsCopy(x) /\ Backed(x, Services)
      /\ refresh' = [refresh EXCEPT ![p] = refresh[p]]
      /\ refresh[p] \notin {<<>>, <<Checks!NoCopy>>} =>
           IsCopy(refresh[p][1]) /\ Backed(refresh[p][1], Services)
  BY <1>1, <1>2, CacheSame
<1> HIDE DEF x
<1>5. CachesInv' /\ On(cache, Processes)' /\ On(refresh, Processes)'
  BY <1>1, <1>2, <1>4, CacheMoves
<1>6. place \in {"failed", "sent"} /\ check'[s] = place
  BY <1>1, Kept
<1>7. place = "sent" => \A t \in Checks!TriggersOf(s) : server[t.service] # NoCheck
  <2>1. SUFFICES ASSUME place = "sent", NEW t \in Checks!TriggersOf(s)
                 PROVE  server[t.service] # NoCheck
    OBVIOUS
  <2>2. check[s] = "update" /\ todo[s] = {}
    BY <1>1, <2>1
  <2>3. copy[s][t.service] # NoCheck /\ Backed(copy[s], Services \ {})
    BY <2>2 DEF ChecksInv, SenderInv
  <2> QED BY <2>3, EventService DEF Backed
<1>8. SenderInv(s)'
  BY <1>1, <1>6, <1>7 DEF SenderInv
<1> QED BY <1>1, <1>3, <1>5, <1>8, SenderMoves

\* What a refresh reads is what the API has.
LEMMA ProcessStep ==
  ASSUME ChecksInv, NEW p \in Processes,
         \/ Checks!Expire(p) \/ Checks!RefreshReads(p)
         \/ Checks!RefreshFails(p) \/ Checks!RefreshStores(p)
  PROVE  ChecksInv'
<1>1. UNCHANGED <<server, check, copy, todo>>
  BY DEF Checks!Expire, Checks!RefreshReads, Checks!RefreshFails, Checks!RefreshStores,
         Checks!apiVars, Checks!sendVars
<1>2. Grows /\ DOMAIN server' = Services /\ IsCopy(server)'
  BY <1>1, ServerKept
<1>3. IsCopy(server) /\ Backed(server, Services)
  BY DEF ChecksInv, Backed
<1>4. /\ cache = [cache EXCEPT ![p] = cache[p]] /\ refresh = [refresh EXCEPT ![p] = refresh[p]]
      /\ cache[p] # Checks!NoCopy => IsCopy(cache[p]) /\ Backed(cache[p], Services)
      /\ Reread(p) => IsCopy(refresh[p][1]) /\ Backed(refresh[p][1], Services)
  BY CacheSame DEF Reread
<1>5. CachesInv' /\ On(cache, Processes)' /\ On(refresh, Processes)'
  <2>1. CASE Checks!Expire(p)
    BY <1>2, <2>1, CachesKept DEF Checks!Expire, ChecksInv, On
  <2>2. CASE Checks!RefreshReads(p)
    <3>1. refresh' = [refresh EXCEPT ![p] = <<server>>] /\ cache' = [cache EXCEPT ![p] = cache[p]]
      BY <1>4, <2>2 DEF Checks!RefreshReads
    <3>2. PICK y : y = <<server>>
      OBVIOUS
    <3>3. y[1] = server
      BY <3>2
    <3> QED BY <1>1, <1>3, <1>4, <3>1, <3>2, <3>3, CacheMoves
  <2>3. CASE Checks!RefreshFails(p)
    <3>1. refresh' = [refresh EXCEPT ![p] = <<>>] /\ cache' = [cache EXCEPT ![p] = cache[p]]
      BY <1>4, <2>3 DEF Checks!RefreshFails
    <3> QED BY <1>1, <1>4, <3>1, CacheMoves
  <2>4. CASE Checks!RefreshStores(p)
    <3>1. /\ refresh' = [refresh EXCEPT ![p] = <<>>]
          /\ cache' = [cache EXCEPT ![p] = refresh[p][1]] /\ Reread(p)
      BY <2>4 DEF Checks!RefreshStores, Reread
    <3> QED BY <1>1, <1>4, <3>1, CacheMoves
  <2> QED BY <2>1, <2>2, <2>3, <2>4
<1>6. \A s \in Senders : SenderInv(s)'
  BY <1>1, <1>2, SenderKept DEF ChecksInv
<1> QED BY <1>1, <1>2, <1>5, <1>6 DEF ChecksInv, On

LEMMA ChecksNext ==
  ASSUME Checks!JugglerChecksAssumption, ProcessInv, ChecksInv, [Checks!Next]_Checks!vars
  PROVE  ChecksInv'
<1>1. ASSUME NEW s \in Senders, Checks!Start(s) \/ Checks!SendStep(s) PROVE ChecksInv'
  BY <1>1, IdleSteps, UseCachedStep, FetchStep, ensureCheckStep, updateCheckStep, CleanCacheStep
     DEF Checks!SendStep
<1>2. ASSUME NEW p \in Processes,
             \/ Checks!Expire(p) \/ Checks!RefreshReads(p)
             \/ Checks!RefreshFails(p) \/ Checks!RefreshStores(p)
      PROVE  ChecksInv'
  BY <1>2, ProcessStep
<1>3. CASE UNCHANGED Checks!vars
  <2>1. UNCHANGED <<server, cache, refresh, check, copy, todo>>
    BY <1>3 DEF Checks!vars
  <2>2. Grows /\ DOMAIN server' = Services /\ IsCopy(server)'
    BY <2>1, ServerKept
  <2>3. CachesInv' /\ \A s \in Senders : SenderInv(s)'
    BY <2>1, <2>2, CachesKept, SenderKept DEF ChecksInv
  <2> QED BY <2>1, <2>2, <2>3 DEF ChecksInv, On
<1> QED BY <1>1, <1>2, <1>3 DEF Checks!Next

LEMMA SameProcesses == ASSUME [Checks!Next]_Checks!vars PROVE UNCHANGED processOf
BY DEF Checks!Next, Checks!vars, Checks!Start, Checks!SendStep, Checks!UseCached, Checks!Fetch,
       Checks!FetchFails, Checks!ensureCheck, Checks!updateCheck, Checks!CleanCache,
       Checks!Expire, Checks!RefreshReads, Checks!RefreshFails, Checks!RefreshStores

(***************************************************************************)
(* When Send goes on to its events the API has a check for each of them,    *)
(* although it posts only what differs from a copy that may be stale        *)
(* (api.go:111-280, juggler.go:72-79).                                      *)
(***************************************************************************)
THEOREM ChecksBeforeEvents == Spec => []EventsHaveChecks
<1>1. Init => ProcessInv /\ ChecksInv
  BY SendersAssumption, ChecksInit DEF Init, Checks!Init, ProcessInv
<1>2. ProcessInv /\ ChecksInv /\ [Next]_<<checksVars, sendVars, storeVars, graphiteVars>> =>
        ProcessInv' /\ ChecksInv'
  BY SendersAssumption, PartsMove, SameProcesses, ChecksNext DEF ProcessInv
<1>3. ChecksInv => EventsHaveChecks
  BY DEF ChecksInv, SenderInv, EventsHaveChecks, Checks!EventsHaveChecks, NoCheck
<1> QED BY <1>1, <1>2, <1>3, PTL DEF Spec

-----------------------------------------------------------------------------
(***************************************************************************)
(* Graphite.  NoConnectionLeaks alone is not inductive.  A dial that        *)
(* succeeds opens a connection whose entry somebody might have taken out of *)
(* the pool: the invariant says that the entry belongs to the one sender    *)
(* that dials until it is ready (DialInv), and that only ready entries are  *)
(* evicted (UseInv).                                                        *)
(***************************************************************************)

DialPhases == {"none", "dial", "set", "failed", "ready"}
SendPlaces == {"idle", "wait", "dial", "item", "leaf", "evict", "sent", "error"}

PoolTypeInv ==
  /\ made \in 0 .. MaxEntries
  /\ pool \in [Endpoints -> 0 .. made]
  /\ phase \in [Pool!Entries -> DialPhases]
  /\ err \in [Pool!Entries -> BOOLEAN]
  /\ open \subseteq 1 .. made
  /\ send \in [Senders -> SendPlaces]
  /\ endpoint \in [Senders -> Endpoints]
  /\ held \in [Senders -> 0 .. made]

\* An entry is in the pool for one endpoint.
PoolInv == \A e, f \in Endpoints : pool[e] = pool[f] /\ pool[e] # Pool!None => e = f

\* What an entry's error and its connection say of its dial.
EntryInv ==
  /\ \A i \in Pool!Entries : i > made => phase[i] = "none"
  /\ \A i \in Pool!Entries : phase[i] \in {"none", "dial", "set"} => ~err[i]
  /\ \A i \in open : ~err[i] /\ phase[i] \in {"set", "ready"}

\* The sender that dials has its entry in the pool, and nobody else dials it.
DialInv ==
  /\ \A s \in Senders : send[s] = "dial" =>
       /\ held[s] # Pool!None
       /\ pool[endpoint[s]] = held[s]
       /\ phase[held[s]] \in {"dial", "set", "failed"}
  /\ \A r, s \in Senders : send[r] = "dial" /\ send[s] = "dial" /\ held[r] = held[s] => r = s

\* A sender writes to, or evicts, a connection whose dial is over.
UseInv ==
  \A s \in Senders :
    /\ send[s] = "wait" => held[s] # Pool!None
    /\ send[s] \in {"item", "leaf", "evict"} => held[s] # Pool!None /\ phase[held[s]] = "ready"

PoolIInv == PoolTypeInv /\ PoolInv /\ EntryInv /\ DialInv /\ UseInv /\ Pool!NoConnectionLeaks

-----------------------------------------------------------------------------

LEMMA PoolInit == ASSUME Pool!GraphiteAssumption, Pool!Init PROVE PoolIInv
BY DEF Pool!GraphiteAssumption, Pool!Init, PoolIInv, PoolTypeInv, DialPhases,
   SendPlaces, Pool!Entries, Pool!None, PoolInv,
       EntryInv, DialInv, UseInv, Pool!NoConnectionLeaks

\* Entries are numbers, and those that exist are entries.
LEMMA EntryFacts ==
  ASSUME Pool!GraphiteAssumption, PoolTypeInv
  PROVE  /\ made \in Nat /\ MaxEntries \in Nat /\ made =< MaxEntries
         /\ 1 .. made \subseteq Pool!Entries
         /\ \A s \in Senders : held[s] # Pool!None =>
              held[s] \in 1 .. made /\ held[s] \in Pool!Entries
         /\ \A e \in Endpoints : pool[e] # Pool!None =>
              pool[e] \in 1 .. made /\ pool[e] \in Pool!Entries
BY DEF Pool!GraphiteAssumption, PoolTypeInv, Pool!Entries, Pool!None

\* Get finds an entry.
LEMMA GetHitStep ==
  ASSUME Pool!GraphiteAssumption, PoolIInv, NEW s \in Senders, Pool!Get(s),
         pool[endpoint[s]] # Pool!None
  PROVE  PoolIInv'
<1>1. PoolTypeInv /\ PoolInv /\ EntryInv /\ DialInv /\ UseInv /\ Pool!NoConnectionLeaks
  BY DEF PoolIInv
<1>2. /\ held' = [held EXCEPT ![s] = pool[endpoint[s]]] /\ send' = [send EXCEPT ![s] = "wait"]
      /\ UNCHANGED <<pool, made, phase, tries, err, open, panicked, endpoint>>
  BY DEF Pool!Get, Pool!Goes, Pool!poolVars
<1>3. endpoint[s] \in Endpoints /\ pool[endpoint[s]] \in 0 .. made
  BY <1>1 DEF PoolTypeInv
<1>4. PoolTypeInv'
  BY <1>1, <1>2, <1>3 DEF PoolTypeInv, SendPlaces
<1>5. \A r \in Senders : /\ send'[r] = IF r = s THEN "wait" ELSE send[r]
                         /\ r # s => held'[r] = held[r]
                         /\ held'[s] # Pool!None
  BY <1>1, <1>2 DEF PoolTypeInv
<1>6. DialInv' /\ UseInv'
  BY <1>1, <1>2, <1>5 DEF DialInv, UseInv
<1> QED
  BY <1>1, <1>2, <1>4, <1>6 DEF PoolIInv, PoolInv, EntryInv, Pool!NoConnectionLeaks

\* Get makes an entry, whose number is new.
LEMMA GetMissStep ==
  ASSUME Pool!GraphiteAssumption, PoolIInv, NEW s \in Senders, Pool!Get(s),
         pool[endpoint[s]] = Pool!None
  PROVE  PoolIInv'
<1>1. PoolTypeInv /\ PoolInv /\ EntryInv /\ DialInv /\ UseInv /\ Pool!NoConnectionLeaks
  BY DEF PoolIInv
<1> DEFINE new == made + 1
<1>2. /\ made < MaxEntries /\ made' = new
      /\ phase' = [phase EXCEPT ![new] = "dial"]
      /\ pool' = [pool EXCEPT ![endpoint[s]] = new]
      /\ held' = [held EXCEPT ![s] = new] /\ send' = [send EXCEPT ![s] = "dial"]
      /\ send[s] \in {"idle", "sent", "error"}
      /\ UNCHANGED <<err, open, endpoint>>
  BY DEF Pool!Get, Pool!Goes
<1>3. new \in Pool!Entries /\ new \in 0 .. made' /\ made' \in 0 .. MaxEntries /\ new # Pool!None
      /\ 0 .. made \subseteq 0 .. made' /\ 1 .. made \subseteq 1 .. made' /\ new \notin 0 .. made
  BY <1>1, <1>2, EntryFacts DEF Pool!Entries, Pool!None
<1> HIDE DEF new
<1>4. endpoint[s] \in Endpoints
  BY <1>1 DEF PoolTypeInv
<1>5. \A i \in Pool!Entries : phase'[i] = IF i = new THEN "dial" ELSE phase[i]
  BY <1>1, <1>2 DEF PoolTypeInv
<1>6. \A e \in Endpoints : pool[e] # new /\ pool'[e] = IF e = endpoint[s] THEN new ELSE pool[e]
  BY <1>1, <1>2, <1>3 DEF PoolTypeInv
<1>7. \A r \in Senders : /\ held[r] # new
                         /\ held'[r] = IF r = s THEN new ELSE held[r]
                         /\ send'[r] = IF r = s THEN "dial" ELSE send[r]
  BY <1>1, <1>2, <1>3 DEF PoolTypeInv
<1>8. PoolTypeInv'
  BY <1>1, <1>2, <1>3, <1>4 DEF PoolTypeInv, DialPhases, SendPlaces
<1>9. PoolInv'
  BY <1>1, <1>6 DEF PoolInv
<1>10. EntryInv'
  <2>1. \A i \in open : i # new /\ i \in Pool!Entries
    BY <1>1, <1>3, EntryFacts DEF PoolTypeInv
  <2>2. ~err[new]
    <3>1. new > made
      BY <1>1, EntryFacts DEF new
    <3> QED
      BY <1>1, <1>3, <3>1 DEF EntryInv
  <2>3. \A i \in Pool!Entries : i > made' => i # new /\ i > made
    BY <1>1, <1>2, EntryFacts DEF new, Pool!Entries
  <2> QED
    BY <1>1, <1>2, <1>5, <2>1, <2>2, <2>3 DEF EntryInv
<1>11. DialInv' /\ UseInv'
  <2>1. \A r \in Senders : r # s /\ held'[r] # Pool!None =>
          held'[r] \in Pool!Entries /\ phase'[held'[r]] = phase[held[r]]
    BY <1>1, <1>5, <1>7, EntryFacts
  <2>2. \A r \in Senders : r # s /\ send[r] = "dial" => endpoint[r] # endpoint[s]
    BY <1>1 DEF DialInv
  <2> QED
    BY <1>1, <1>2, <1>3, <1>4, <1>5, <1>6, <1>7, <2>1, <2>2 DEF DialInv, UseInv, PoolTypeInv
<1>12. Pool!NoConnectionLeaks'
  BY <1>1, <1>2, <1>6 DEF Pool!NoConnectionLeaks, PoolTypeInv, Pool!None
<1> QED
  BY <1>8, <1>9, <1>10, <1>11, <1>12 DEF PoolIInv

\* One attempt to dial.
LEMMA NewConnStep ==
  ASSUME Pool!GraphiteAssumption, PoolIInv, NEW s \in Senders, Pool!NewConn(s) PROVE PoolIInv'
<1>1. PoolTypeInv /\ PoolInv /\ EntryInv /\ DialInv /\ UseInv /\ Pool!NoConnectionLeaks
  BY DEF PoolIInv
<1> DEFINE i == held[s]
<1>2. /\ send[s] = "dial" /\ phase[i] = "dial"
      /\ UNCHANGED <<pool, made, send, endpoint, held>>
  BY DEF Pool!NewConn, Pool!sendVars
<1>3. i # Pool!None /\ i \in Pool!Entries /\ i \in 1 .. made
      /\ pool[endpoint[s]] = i /\ endpoint[s] \in Endpoints
  BY <1>1, <1>2, EntryFacts DEF DialInv, PoolTypeInv
<1>4. PICK p \in {"set", "dial", "failed"} :
        /\ phase' = [phase EXCEPT ![i] = p]
        /\ \/ p = "set" /\ open' = open \union {i} /\ err' = err
           \/ p # "set" /\ open' = open /\ err' = [err EXCEPT ![i] = p = "failed"]
  <2>1. CASE /\ phase' = [phase EXCEPT ![i] = "set"]
             /\ open' = open \union {i} /\ UNCHANGED err
    BY <2>1
  <2>2. CASE /\ phase' = [phase EXCEPT ![i] = IF tries'[i] < Retry THEN "dial" ELSE "failed"]
             /\ err' = [err EXCEPT ![i] = phase'[i] = "failed"] /\ UNCHANGED open
    <3>1. phase'[i] = IF tries'[i] < Retry THEN "dial" ELSE "failed"
      BY <1>1, <1>3, <2>2 DEF PoolTypeInv
    <3> QED
      BY <2>2, <3>1
  <2> QED
    BY <2>1, <2>2 DEF Pool!NewConn
<1>5. \A j \in Pool!Entries : phase'[j] = IF j = i THEN p ELSE phase[j]
  BY <1>1, <1>4 DEF PoolTypeInv
<1>6. \A j \in Pool!Entries : j # i => err'[j] = err[j]
  BY <1>1, <1>4 DEF PoolTypeInv
<1>7. i \notin open /\ ~err[i] /\ (err'[i] <=> p = "failed")
  BY <1>1, <1>2, <1>3, <1>4 DEF EntryInv, PoolTypeInv
<1> HIDE DEF i
<1>8. PoolTypeInv'
  BY <1>1, <1>2, <1>3, <1>4 DEF PoolTypeInv, DialPhases
<1>9. EntryInv'
  <2>1. \A j \in open : j \in Pool!Entries /\ j # i
    BY <1>1, <1>7, EntryFacts DEF PoolTypeInv
  <2>2. \A j \in Pool!Entries : j > made => j # i
    BY <1>1, <1>3, EntryFacts
  <2>3. \A j \in Pool!Entries : j > made' => phase'[j] = "none"
    BY <1>1, <1>2, <1>5, <2>2 DEF EntryInv
  <2>4. \A j \in Pool!Entries : phase'[j] \in {"none", "dial", "set"} => ~err'[j]
    BY <1>1, <1>5, <1>6, <1>7 DEF EntryInv
  <2>5. \A j \in open' : ~err'[j] /\ phase'[j] \in {"set", "ready"}
    <3>1. \A j \in open : ~err'[j] /\ phase'[j] \in {"set", "ready"}
      BY <1>1, <1>5, <1>6, <2>1 DEF EntryInv
    <3>2. p = "set" => ~err'[i] /\ phase'[i] = "set"
      BY <1>3, <1>5, <1>7
    <3>3. \A j \in open' : j \in open \/ (j = i /\ p = "set")
      BY <1>4
    <3> QED
      BY <3>1, <3>2, <3>3
  <2> QED
    BY <2>3, <2>4, <2>5 DEF EntryInv
<1>10. DialInv' /\ UseInv'
  <2>1. \A r \in Senders : held[r] # Pool!None => held[r] \in Pool!Entries
    BY <1>1, EntryFacts
  <2>2. i = held[s]
    BY DEF i
  <2> QED
    BY <1>1, <1>2, <1>3, <1>5, <2>1, <2>2 DEF DialInv, UseInv
<1>11. Pool!NoConnectionLeaks'
  BY <1>1, <1>2, <1>3, <1>4 DEF Pool!NoConnectionLeaks
<1> QED
  BY <1>1, <1>2, <1>8, <1>9, <1>10, <1>11 DEF PoolIInv, PoolInv

\* The dial is over: the entry is ready, and out of the pool after an error.
LEMMA GotStep ==
  ASSUME Pool!GraphiteAssumption, PoolIInv, NEW s \in Senders, Pool!Got(s) PROVE PoolIInv'
<1>1. PoolTypeInv /\ PoolInv /\ EntryInv /\ DialInv /\ UseInv /\ Pool!NoConnectionLeaks
  BY DEF PoolIInv
<1> DEFINE i == held[s]
           e == endpoint[s]
           place == IF err[i] THEN "error" ELSE "item"
<1>2. /\ send[s] = "dial" /\ phase[i] \in {"set", "failed"}
      /\ pool' = [pool EXCEPT ![e] = IF err[i] THEN Pool!None ELSE @]
      /\ phase' = [phase EXCEPT ![i] = "ready"]
      /\ send' = [send EXCEPT ![s] = place]
      /\ UNCHANGED <<made, err, open, endpoint, held>>
  BY DEF Pool!Got, Pool!Goes, Pool!sendVars
<1>3. i # Pool!None /\ i \in Pool!Entries /\ i \in 1 .. made /\ pool[e] = i /\ e \in Endpoints
  BY <1>1, <1>2, EntryFacts DEF DialInv, PoolTypeInv
<1>4. \A j \in Pool!Entries : phase'[j] = IF j = i THEN "ready" ELSE phase[j]
  BY <1>1, <1>2 DEF PoolTypeInv
<1>5. \A f \in Endpoints : pool'[f] = IF f = e /\ err[i] THEN Pool!None ELSE pool[f]
  BY <1>1, <1>2 DEF PoolTypeInv
<1>6. \A r \in Senders : send'[r] = IF r = s THEN place ELSE send[r]
  BY <1>1, <1>2 DEF PoolTypeInv
<1>7. place \in {"error", "item"}
  OBVIOUS
<1>8. \A r \in Senders : r # s /\ send[r] = "dial" => held[r] # i /\ endpoint[r] # e
  BY <1>1, <1>2, <1>3 DEF DialInv
<1>9. \A r \in Senders : held[r] # Pool!None => held[r] \in Pool!Entries
  BY <1>1, EntryFacts
<1>10. i = held[s]
  OBVIOUS
<1> HIDE DEF i, e, place
<1>11. PoolTypeInv'
  BY <1>1, <1>2, <1>3, <1>7, EntryFacts DEF PoolTypeInv, DialPhases, SendPlaces, Pool!None
<1>12. PoolInv'
  BY <1>1, <1>5 DEF PoolInv
<1>13. EntryInv'
  <2>1. \A j \in open : j \in Pool!Entries
    BY <1>1, EntryFacts DEF PoolTypeInv
  <2>2. \A j \in Pool!Entries : j > made => j # i
    BY <1>1, <1>3, EntryFacts
  <2> QED
    BY <1>1, <1>2, <1>4, <2>1, <2>2 DEF EntryInv
<1>14. DialInv' /\ UseInv'
  <2>1. \A r \in Senders : endpoint[r] \in Endpoints
    BY <1>1 DEF PoolTypeInv
  <2> QED
    BY <1>1, <1>2, <1>3, <1>4, <1>5, <1>6, <1>7, <1>8, <1>9, <1>10, <2>1 DEF DialInv, UseInv
<1>15. Pool!NoConnectionLeaks'
  <2>1. err[i] => i \notin open
    BY <1>1 DEF EntryInv
  <2> QED
    BY <1>1, <1>2, <1>3, <1>5, <2>1 DEF Pool!NoConnectionLeaks
<1> QED
  BY <1>11, <1>12, <1>13, <1>14, <1>15 DEF PoolIInv

\* A broken connection leaves the pool and is closed, unless somebody else
\* was first.
LEMMA EvictStep ==
  ASSUME Pool!GraphiteAssumption, PoolIInv, NEW s \in Senders, Pool!Evict(s) PROVE PoolIInv'
<1>1. PoolTypeInv /\ PoolInv /\ EntryInv /\ DialInv /\ UseInv /\ Pool!NoConnectionLeaks
  BY DEF PoolIInv
<1> DEFINE mine == {e \in Endpoints : pool[e] = held[s]}
<1>2. send[s] = "evict" /\ UNCHANGED <<made, phase, err, endpoint, held>>
  BY DEF Pool!Evict, Pool!sendVars
<1>3. held[s] # Pool!None /\ phase[held[s]] = "ready" /\ held[s] \in Pool!Entries
  BY <1>1, <1>2, EntryFacts DEF UseInv
<1>4. CASE UNCHANGED <<pool, open, send>>
  BY <1>1, <1>2, <1>4
  DEF PoolIInv, PoolTypeInv, PoolInv, EntryInv, DialInv, UseInv, Pool!NoConnectionLeaks
<1>5. CASE /\ pool' = [e \in Endpoints |-> IF e \in mine THEN Pool!None ELSE pool[e]]
           /\ open' = IF mine = {} THEN open ELSE open \ {held[s]}
           /\ send' = [send EXCEPT ![s] = "error"]
  <2>1. \A e \in Endpoints : pool'[e] = IF pool[e] = held[s] THEN Pool!None ELSE pool[e]
    BY <1>5
  <2>2. \A r \in Senders : send'[r] = IF r = s THEN "error" ELSE send[r]
    BY <1>1, <1>5 DEF PoolTypeInv
  <2>3. open' \subseteq open
    BY <1>5
  <2>4. PoolTypeInv'
    <3>1. \A e \in Endpoints : pool'[e] \in 0 .. made
      BY <1>1, <2>1, EntryFacts DEF PoolTypeInv, Pool!None
    <3>2. pool' \in [Endpoints -> 0 .. made]
      BY <1>5, <3>1
    <3> QED
      BY <1>1, <1>2, <1>5, <2>3, <3>2 DEF PoolTypeInv, SendPlaces
  <2>5. PoolInv' /\ EntryInv'
    BY <1>1, <1>2, <2>1, <2>3 DEF PoolInv, EntryInv
  <2>6. DialInv' /\ UseInv'
    <3>1. \A r \in Senders : send[r] = "dial" =>
            endpoint[r] \in Endpoints /\ pool[endpoint[r]] # held[s]
      BY <1>1, <1>3 DEF DialInv, PoolTypeInv
    <3> QED
      BY <1>1, <1>2, <2>1, <2>2, <3>1 DEF DialInv, UseInv
  <2>7. Pool!NoConnectionLeaks'
    BY <1>1, <1>5, <2>1 DEF Pool!NoConnectionLeaks
  <2> QED
    BY <2>4, <2>5, <2>6, <2>7 DEF PoolIInv
<1> QED
  BY <1>4, <1>5 DEF Pool!Evict, Pool!Goes

\* Waiting and writing leave the pool alone.
LEMMA SendingStep ==
  ASSUME Pool!GraphiteAssumption, PoolIInv, NEW s \in Senders,
         Pool!Waited(s) \/ Pool!Item(s) \/ Pool!Leaf(s) \/ Pool!ItemSent(s)
  PROVE  PoolIInv'
<1>1. PoolTypeInv /\ PoolInv /\ EntryInv /\ DialInv /\ UseInv /\ Pool!NoConnectionLeaks
  BY DEF PoolIInv
<1>2. /\ UNCHANGED <<pool, made, phase, err, open, endpoint, held>>
      /\ send[s] \in {"wait", "item", "leaf"}
      /\ send[s] = "wait" => phase[held[s]] = "ready"
      /\ \/ send' = send
         \/ \E place \in {"error", "item", "sent", "leaf", "evict"} :
              send' = [send EXCEPT ![s] = place]
  BY DEF Pool!Waited, Pool!Item, Pool!Leaf, Pool!ItemSent, Pool!Goes, Pool!poolVars, Pool!sendVars
<1>3. held[s] # Pool!None /\ phase[held[s]] = "ready"
  BY <1>1, <1>2 DEF UseInv
<1>4. PoolTypeInv'
  BY <1>1, <1>2 DEF PoolTypeInv, SendPlaces
<1>5. DialInv' /\ UseInv'
  BY <1>1, <1>2, <1>3 DEF DialInv, UseInv, PoolTypeInv
<1> QED
  BY <1>1, <1>2, <1>4, <1>5 DEF PoolIInv, PoolInv, EntryInv, Pool!NoConnectionLeaks

\* Every step, one case per action.
LEMMA PoolNext == ASSUME Pool!GraphiteAssumption, PoolIInv, [Pool!Next]_Pool!vars PROVE PoolIInv'
<1>1. CASE UNCHANGED Pool!vars
  BY <1>1 DEF Pool!vars, PoolIInv, PoolTypeInv, PoolInv, EntryInv, DialInv, UseInv,
     Pool!NoConnectionLeaks
<1> QED
  BY <1>1, GetHitStep, GetMissStep, NewConnStep, GotStep, EvictStep, SendingStep
  DEF Pool!Next, Pool!SendStep

(***************************************************************************)
(* Every open connection is the one in the pool for its endpoint, whoever   *)
(* dials, waits, finds it broken or evicts it at the same time, so that it  *)
(* can be found and closed (connectionpool.go:77-109).                      *)
(***************************************************************************)
THEOREM PoolHoldsConnections == Spec => []NoConnectionLeaks
<1>1. Init => PoolIInv
  BY SendersAssumption, PoolInit DEF Init
<1>2. PoolIInv /\ [Next]_<<checksVars, sendVars, storeVars, graphiteVars>> => PoolIInv'
  BY SendersAssumption, PartsMove, PoolNext
<1>3. PoolIInv => NoConnectionLeaks
  BY DEF PoolIInv, NoConnectionLeaks
<1> QED BY <1>1, <1>2, <1>3, PTL DEF Spec

-----------------------------------------------------------------------------
(***************************************************************************)
(* Graphite's names.  The stack of name parts is what PointsNamed says only *)
(* while a payload is looked at, so the invariant follows it through the    *)
(* Send: between two payloads it holds the aggregates of the payloads that  *)
(* were passed over, below a leaf the payload's own on top of them          *)
(* (StackInv).                                                              *)
(***************************************************************************)

\* The name of a leaf of the n-th payload.
Name(n, leaf) ==
  <<Data[n].subgroup>> \o Pool!Skipped(n) \o <<Data[n].aggregate>> \o leaf.path

\* The lines that PointsNamed allows.
NamedLines ==
  UNION {{[of |-> n, name |-> Name(n, leaf)] : leaf \in Pool!ToSet(Data[n].leaves)} :
           n \in 1 .. Len(Data)}

StackInv(s) ==
  /\ send[s] \in {"dial", "wait"} => at[s] = <<1, 0>> /\ metric[s] = <<>>
  /\ send[s] = "item" =>
       at[s][1] \in 1 .. Len(Data) + 1 /\ metric[s] = Pool!Skipped(at[s][1])
  /\ send[s] = "leaf" =>
       /\ at[s][1] \in 1 .. Len(Data) /\ at[s][2] > 0
       /\ Data[at[s][1]].subgroup # NoSubgroup
       /\ metric[s] = Append(Pool!Skipped(at[s][1]), Data[at[s][1]].aggregate)
  /\ lines[s] \in Seq(NamedLines)

NamesInv ==
  /\ send \in [Senders -> SendPlaces] /\ at \in [Senders -> Nat \X Nat]
  /\ On(metric, Senders) /\ On(lines, Senders)
  /\ \A s \in Senders : StackInv(s)

-----------------------------------------------------------------------------
(* The aggregates that stay on the stack *)

\* The instance counts as this module does.
LEMMA PoolCounts == \A T : Pool!Cardinality(T) = Cardinality(T)
BY DEF Pool!Cardinality, Cardinality

\* The payloads and their leaves are sequences.
LEMMA DataFacts ==
  ASSUME Pool!GraphiteAssumption
  PROVE  /\ Len(Data) \in Nat /\ DOMAIN Data = 1 .. Len(Data)
         /\ \A n \in 1 .. Len(Data) :
              /\ Len(Data[n].leaves) \in Nat
              /\ \A i \in 1 .. Len(Data[n].leaves) :
                   Data[n].leaves[i] \in Pool!ToSet(Data[n].leaves)
<1>1. Len(Data) \in Nat /\ DOMAIN Data = 1 .. Len(Data)
  BY LenProperties DEF Pool!GraphiteAssumption
<1> SUFFICES ASSUME NEW n \in 1 .. Len(Data)
             PROVE  /\ Len(Data[n].leaves) \in Nat
                    /\ \A i \in 1 .. Len(Data[n].leaves) :
                         Data[n].leaves[i] \in Pool!ToSet(Data[n].leaves)
  BY <1>1
<1>2. Data[n].leaves \in Seq(Pool!ToSet(Data[n].leaves))
  BY <1>1 DEF Pool!GraphiteAssumption
<1> QED
  BY <1>2, LenProperties

\* There are finitely many payloads without a subgroup.
LEMMA UnnamedFacts ==
  ASSUME NEW n \in Nat \ {0}
  PROVE  /\ Pool!Unnamed(n) \subseteq 1 .. n - 1
         /\ IsFiniteSet(Pool!Unnamed(n)) /\ Cardinality(Pool!Unnamed(n)) \in Nat
         /\ \A T \in SUBSET Pool!Unnamed(n) :
              Cardinality(T) \in Nat /\ Cardinality(T) =< Cardinality(Pool!Unnamed(n))
<1>1. Pool!Unnamed(n) \subseteq 1 .. n - 1
  BY DEF Pool!Unnamed
<1>2. IsFiniteSet(1 .. n - 1)
  BY FS_Interval
<1> QED
  BY <1>1, <1>2, FS_Subset, FS_CardinalityType

\* The skipped aggregates are a sequence.
LEMMA SkippedSeq ==
  ASSUME NEW n \in Nat \ {0}
  PROVE  /\ \E S : Pool!Skipped(n) \in Seq(S)
         /\ Len(Pool!Skipped(n)) = Cardinality(Pool!Unnamed(n))
         /\ \A i \in 1 .. Cardinality(Pool!Unnamed(n)) :
              Pool!Skipped(n)[i] = Data[Pool!Only(Pool!Nth(n, i))].aggregate
<1> DEFINE k == Cardinality(Pool!Unnamed(n))
           f == Pool!Skipped(n)
           S == {f[i] : i \in 1 .. k}
<1>1. k \in Nat
  BY UnnamedFacts
<1>2. f = [i \in 1 .. k |-> Data[Pool!Only(Pool!Nth(n, i))].aggregate]
  BY PoolCounts DEF Pool!Skipped
<1>3. \A i \in 1 .. k : f[i] = Data[Pool!Only(Pool!Nth(n, i))].aggregate
  BY <1>2
<1>4. f \in [1 .. k -> S]
  BY <1>2
<1>5. f \in Seq(S) /\ Len(f) = k
  <2> HIDE DEF k, f, S
  <2> QED
    BY <1>1, <1>4, FunctionIsSeq
<1> QED
  BY <1>3, <1>5

\* Nothing comes before the first payload.
LEMMA SkippedNone == Pool!Skipped(1) = <<>>
<1>1. Pool!Unnamed(1) = {}
  BY DEF Pool!Unnamed
<1>2. PICK n \in Nat \ {0} : n = 1
  OBVIOUS
<1>3. PICK S : Pool!Skipped(n) \in Seq(S)
  BY SkippedSeq
<1>4. Len(Pool!Skipped(n)) = 0
  BY <1>1, <1>2, SkippedSeq, FS_EmptySet
<1> QED
  BY <1>2, <1>3, <1>4

\* A payload with a subgroup adds nothing.
LEMMA SkippedSame ==
  ASSUME NEW n \in Nat \ {0}, Data[n].subgroup # NoSubgroup
  PROVE  Pool!Skipped(n + 1) = Pool!Skipped(n)
<1>1. Pool!Unnamed(n + 1) = Pool!Unnamed(n)
  BY DEF Pool!Unnamed
<1>2. \A i : Pool!Nth(n + 1, i) = Pool!Nth(n, i)
  BY <1>1 DEF Pool!Nth
<1> QED
  BY <1>1, <1>2 DEF Pool!Skipped

\* A payload without one adds its aggregate at the end.
LEMMA SkippedMore ==
  ASSUME NEW n \in Nat \ {0}, Data[n].subgroup = NoSubgroup
  PROVE  Pool!Skipped(n + 1) = Append(Pool!Skipped(n), Data[n].aggregate)
<1> DEFINE before == Pool!Unnamed(n)
           after == Pool!Unnamed(n + 1)
           k == Cardinality(before)
<1>1. /\ before \subseteq 1 .. n - 1 /\ IsFiniteSet(before) /\ k \in Nat
      /\ \A T \in SUBSET before : Cardinality(T) \in Nat /\ Cardinality(T) =< k
  BY UnnamedFacts
<1>2. after = before \union {n} /\ n \notin before
  BY DEF Pool!Unnamed
<1>3. Cardinality(after) = k + 1
  BY <1>1, <1>2, FS_AddElement
<1>4. \A m \in before : {j \in after : j =< m} = {j \in before : j =< m}
  BY <1>1, <1>2
<1>5. {j \in after : j =< n} = after
  BY <1>1, <1>2
<1>6. /\ \A m \in before : Cardinality({j \in after : j =< m}) =< k
      /\ Cardinality({j \in after : j =< n}) = k + 1
  <2>1. \A m \in before : Cardinality({j \in before : j =< m}) =< k
    BY <1>1
  <2> HIDE DEF before, after, k
  <2> QED
    BY <1>3, <1>4, <1>5, <2>1
<1>7. \A i \in 1 .. k : Pool!Nth(n + 1, i) = Pool!Nth(n, i)
  <2> SUFFICES ASSUME NEW i \in 1 .. k, NEW m
               PROVE  m \in Pool!Nth(n + 1, i) <=> m \in Pool!Nth(n, i)
    OBVIOUS
  <2>1. /\ m \in Pool!Nth(n, i) <=> m \in before /\ Cardinality({j \in before : j =< m}) = i
        /\ m \in Pool!Nth(n + 1, i) <=>
             m \in after /\ Cardinality({j \in after : j =< m}) = i
    BY PoolCounts DEF Pool!Nth
  <2>2. k + 1 # i
    BY <1>1
  <2> HIDE DEF before, after, k
  <2>3. CASE m = n
    BY <1>2, <1>6, <2>1, <2>2, <2>3
  <2>4. CASE m \in before
    <3>1. Cardinality({j \in after : j =< m}) = Cardinality({j \in before : j =< m})
      BY <1>4, <2>4
    <3> QED
      BY <1>2, <2>1, <2>4, <3>1
  <2> QED
    BY <1>2, <2>1, <2>3, <2>4
<1>8. Pool!Nth(n + 1, k + 1) = {n}
  <2> SUFFICES ASSUME NEW m PROVE m \in Pool!Nth(n + 1, k + 1) <=> m = n
    OBVIOUS
  <2>1. m \in Pool!Nth(n + 1, k + 1) <=>
          m \in after /\ Cardinality({j \in after : j =< m}) = k + 1
    BY PoolCounts DEF Pool!Nth
  <2>2. \A x \in Int : x =< k => x # k + 1
    BY <1>1
  <2>3. m \in before => Cardinality({j \in after : j =< m}) # k + 1
    <3> HIDE DEF before, after
    <3>1. m \in before => Cardinality({j \in after : j =< m}) \in Nat
      BY <1>1, <1>4
    <3> HIDE DEF k
    <3> QED
      BY <1>6, <2>2, <3>1
  <2> HIDE DEF before, after, k
  <2> QED
    BY <1>2, <1>6, <2>1, <2>3
<1>9. Pool!Only({n}) = n
  BY DEF Pool!Only
<1>10. n + 1 \in Nat \ {0}
  OBVIOUS
<1>11. /\ Len(Pool!Skipped(n + 1)) = k + 1
       /\ \A i \in 1 .. k + 1 :
            Pool!Skipped(n + 1)[i] = Data[Pool!Only(Pool!Nth(n + 1, i))].aggregate
  BY <1>3, <1>10, SkippedSeq
<1>12. /\ Len(Pool!Skipped(n)) = k
       /\ \A i \in 1 .. k : Pool!Skipped(n)[i] = Data[Pool!Only(Pool!Nth(n, i))].aggregate
  BY SkippedSeq
<1>13. PICK S : Pool!Skipped(n) \in Seq(S)
  BY SkippedSeq
<1>14. PICK R : Pool!Skipped(n + 1) \in Seq(R)
  BY <1>10, SkippedSeq
<1> DEFINE U == S \union R \union {Data[n].aggregate}
<1> HIDE DEF before, after, k
<1>15. Pool!Skipped(n) \in Seq(U) /\ Pool!Skipped(n + 1) \in Seq(U) /\ Data[n].aggregate \in U
  BY <1>13, <1>14, SeqMonotonic
<1> HIDE DEF U
<1>16. /\ Append(Pool!Skipped(n), Data[n].aggregate) \in Seq(U)
       /\ Len(Append(Pool!Skipped(n), Data[n].aggregate)) = k + 1
       /\ \A i \in 1 .. k :
            Append(Pool!Skipped(n), Data[n].aggregate)[i] = Pool!Skipped(n)[i]
       /\ Append(Pool!Skipped(n), Data[n].aggregate)[k + 1] = Data[n].aggregate
  BY <1>12, <1>15, AppendProperties
<1>17. \A i \in 1 .. k + 1 :
         Pool!Skipped(n + 1)[i] = Append(Pool!Skipped(n), Data[n].aggregate)[i]
  <2> SUFFICES ASSUME NEW i \in 1 .. k + 1
               PROVE  Pool!Skipped(n + 1)[i] = Append(Pool!Skipped(n), Data[n].aggregate)[i]
    OBVIOUS
  <2>1. CASE i \in 1 .. k
    BY <1>7, <1>11, <1>12, <1>16, <2>1
  <2>2. CASE i = k + 1
    BY <1>8, <1>9, <1>11, <1>16, <2>2
  <2>3. i \in 1 .. k \/ i = k + 1
    <3>1. k \in Nat
      BY <1>1
    <3> QED
      BY <3>1
  <2> QED
    BY <2>1, <2>2, <2>3
<1> QED
  BY <1>11, <1>15, <1>16, <1>17, SeqEqual

\* Push and pop.
LEMMA FrontAppended ==
  ASSUME NEW S, NEW s \in Seq(S), NEW e
  PROVE  Pool!Front(Append(s, e)) = s
<1> DEFINE U == S \union {e}
<1>1. s \in Seq(U) /\ e \in U
  BY SeqMonotonic
<1> HIDE DEF U
<1>2. /\ Append(s, e) \in Seq(U) /\ Len(Append(s, e)) = Len(s) + 1 /\ Len(s) \in Nat
      /\ \A i \in 1 .. Len(s) : Append(s, e)[i] = s[i] /\ s[i] \in U
  BY <1>1, AppendProperties, LenProperties
<1>3. Pool!Front(Append(s, e)) = SubSeq(Append(s, e), 1, Len(s))
  BY <1>2 DEF Pool!Front
<1>4. /\ SubSeq(Append(s, e), 1, Len(s)) \in Seq(U)
      /\ Len(SubSeq(Append(s, e), 1, Len(s))) = Len(s)
      /\ \A i \in 1 .. Len(s) : SubSeq(Append(s, e), 1, Len(s))[i] = Append(s, e)[i]
  BY <1>2, SubSeqProperties
<1> QED
  BY <1>1, <1>2, <1>3, <1>4, SeqEqual

\* The aggregate on top of the stack comes right before the path.
LEMMA NameAppended ==
  ASSUME NEW S, NEW s \in Seq(S), NEW first, NEW e
  PROVE  <<first>> \o Append(s, e) = (<<first>> \o s) \o <<e>>
<1> DEFINE U == S \union {first, e}
<1>1. s \in Seq(U) /\ first \in U /\ e \in U
  BY SeqMonotonic
<1> HIDE DEF U
<1>2. <<first>> \in Seq(U) /\ <<e>> \in Seq(U)
  BY <1>1
<1>3. Append(s, e) = s \o <<e>>
  BY <1>1, AppendIsConcat
<1> QED
  BY <1>1, <1>2, <1>3, ConcatAssociative

\* A step of one sender leaves the others where they are.
LEMMA StackKept ==
  ASSUME NamesInv, NEW s \in Senders,
         send' \in [Senders -> SendPlaces], at' \in [Senders -> Nat \X Nat],
         On(metric, Senders)', On(lines, Senders)',
         \A r \in Senders \ {s} : /\ send'[r] = send[r] /\ at'[r] = at[r]
                                  /\ metric'[r] = metric[r] /\ lines'[r] = lines[r],
         StackInv(s)'
  PROVE  NamesInv'
<1>1. \A r \in Senders \ {s} : StackInv(r)'
  BY DEF NamesInv, StackInv
<1> QED
  BY <1>1 DEF NamesInv

\* The types of an update.
LEMMA UpdatedIn ==
  ASSUME NEW S, NEW T, NEW f \in [S -> T], NEW x \in S, NEW y \in T, NEW g,
         g = [f EXCEPT ![x] = y]
  PROVE  g \in [S -> T] /\ g[x] = y /\ \A z \in S \ {x} : g[z] = f[z]
OBVIOUS

-----------------------------------------------------------------------------
(* One lemma for each step of a Send that moves it or its stack *)

LEMMA NamesInit == ASSUME Pool!Init PROVE NamesInv
<1>1. <<>> \in Seq(NamedLines)
  OBVIOUS
<1> QED
  BY <1>1 DEF Pool!Init, NamesInv, StackInv, On, SendPlaces

\* A new Send begins with an empty stack.
LEMMA GetNames == ASSUME NamesInv, NEW s \in Senders, Pool!Get(s) PROVE NamesInv'
<1>1. PICK place \in {"wait", "dial"} : send' = [send EXCEPT ![s] = place]
  BY DEF Pool!Get, Pool!Goes
<1>2. /\ at' = [at EXCEPT ![s] = <<1, 0>>]
      /\ metric' = [metric EXCEPT ![s] = <<>>]
      /\ lines' = [lines EXCEPT ![s] = <<>>]
  BY DEF Pool!Get
<1>3. /\ send' \in [Senders -> SendPlaces] /\ send'[s] = place
      /\ \A r \in Senders \ {s} : send'[r] = send[r]
  BY <1>1, UpdatedIn DEF NamesInv, SendPlaces
<1>4. /\ at' \in [Senders -> Nat \X Nat] /\ at'[s] = <<1, 0>>
      /\ \A r \in Senders \ {s} : at'[r] = at[r]
  <2>1. <<1, 0>> \in Nat \X Nat
    OBVIOUS
  <2> QED
    BY <1>2, <2>1, UpdatedIn DEF NamesInv
<1>5. /\ On(metric', Senders) /\ metric'[s] = <<>>
      /\ \A r \in Senders \ {s} : metric'[r] = metric[r]
  BY <1>2 DEF NamesInv, On
<1>6. /\ On(lines', Senders) /\ lines'[s] = <<>>
      /\ \A r \in Senders \ {s} : lines'[r] = lines[r]
  BY <1>2 DEF NamesInv, On
<1>7. StackInv(s)'
  <2>1. <<>> \in Seq(NamedLines)
    OBVIOUS
  <2> QED
    BY <1>1, <1>3, <1>4, <1>5, <1>6, <2>1 DEF StackInv
<1>8. On(metric, Senders)' /\ On(lines, Senders)'
  BY <1>5, <1>6 DEF On
<1> QED
  BY <1>3, <1>4, <1>5, <1>6, <1>7, <1>8, StackKept

\* The pool's steps leave the stack as it is; a Send that gets its connection
\* is at the first payload.
LEMMA PoolNames ==
  ASSUME Pool!GraphiteAssumption, NamesInv, NEW s \in Senders,
         Pool!NewConn(s) \/ Pool!Got(s) \/ Pool!Waited(s) \/ Pool!Evict(s)
  PROVE  NamesInv'
<1>1. UNCHANGED <<at, metric, lines>>
  BY DEF Pool!NewConn, Pool!Got, Pool!Waited, Pool!Evict, Pool!sendVars
<1>2. CASE send' = send
  BY <1>1, <1>2 DEF NamesInv, StackInv, On
<1>3. CASE \E place \in {"error", "item"} : send' = [send EXCEPT ![s] = place]
  <2>1. PICK place \in {"error", "item"} : send' = [send EXCEPT ![s] = place]
    BY <1>3
  <2>2. /\ send' \in [Senders -> SendPlaces] /\ send'[s] = place
        /\ \A r \in Senders \ {s} : send'[r] = send[r]
    BY <2>1, UpdatedIn DEF NamesInv, SendPlaces
  <2>3. send[s] \in {"dial", "wait"} \/ place = "error"
    <3>1. Pool!Evict(s) /\ send' # send => place = "error"
      BY <2>1, <2>2 DEF Pool!Evict, Pool!Goes, NamesInv
    <3>2. ~Pool!Evict(s) /\ send' # send => send[s] \in {"dial", "wait"}
      BY DEF Pool!NewConn, Pool!Got, Pool!Waited
    <3>3. send' = send => send[s] = place
      BY <2>2
    <3> QED
      BY <3>1, <3>2, <3>3, <2>2 DEF Pool!NewConn, Pool!Got, Pool!Waited, Pool!Evict
  <2>4. StackInv(s)
    BY DEF NamesInv
  <2>5. place = "item" => at[s] = <<1, 0>> /\ metric[s] = Pool!Skipped(1)
    BY <2>3, <2>4, SkippedNone DEF StackInv
  <2>6. at[s] = <<1, 0>> => at[s][1] = 1
    OBVIOUS
  <2>7. 1 \in 1 .. Len(Data) + 1
    BY DataFacts
  <2>8. StackInv(s)'
    BY <1>1, <2>1, <2>2, <2>4, <2>5, <2>6, <2>7 DEF StackInv
  <2>9. /\ On(metric, Senders)' /\ On(lines, Senders)' /\ at' \in [Senders -> Nat \X Nat]
    BY <1>1 DEF On, NamesInv
  <2> QED
    BY <1>1, <2>2, <2>8, <2>9, StackKept
<1> QED
  BY <1>2, <1>3 DEF Pool!NewConn, Pool!Got, Pool!Waited, Pool!Evict, Pool!Goes

\* The payload's aggregate is pushed; without a subgroup it stays there.
LEMMA ItemNames ==
  ASSUME Pool!GraphiteAssumption, NamesInv, NEW s \in Senders, Pool!Item(s)
  PROVE  NamesInv'
<1>1. /\ send \in [Senders -> SendPlaces] /\ at \in [Senders -> Nat \X Nat]
      /\ On(metric, Senders) /\ On(lines, Senders) /\ StackInv(s)
  BY DEF NamesInv
<1>2. send[s] = "item" /\ lines' = lines
  BY DEF Pool!Item
<1>3. PICK n \in Nat : n = at[s][1]
  BY <1>1
<1>4. n \in 1 .. Len(Data) + 1 /\ metric[s] = Pool!Skipped(n) /\ lines[s] \in Seq(NamedLines)
  BY <1>1, <1>2, <1>3 DEF StackInv
<1>5. Len(Data) \in Nat /\ n \in Nat \ {0}
  BY <1>4, DataFacts
<1>6. CASE n > Len(Data)
  <2>1. send' = [send EXCEPT ![s] = "sent"] /\ UNCHANGED <<at, metric>>
    BY <1>3, <1>6 DEF Pool!Item, Pool!Goes
  <2>2. /\ send' \in [Senders -> SendPlaces] /\ send'[s] = "sent"
        /\ \A r \in Senders \ {s} : send'[r] = send[r]
    BY <1>1, <2>1, UpdatedIn DEF SendPlaces
  <2>3. StackInv(s)'
    BY <1>2, <1>4, <2>2 DEF StackInv
  <2>4. On(metric, Senders)' /\ On(lines, Senders)' /\ at' \in [Senders -> Nat \X Nat]
    BY <1>1, <1>2, <2>1 DEF On
  <2> QED
    BY <1>2, <2>1, <2>2, <2>3, <2>4, StackKept
<1>7. CASE ~(n > Len(Data))
  <2>1. metric' = [metric EXCEPT ![s] = Append(metric[s], Data[n].aggregate)]
    BY <1>3, <1>7 DEF Pool!Item
  <2>2. /\ metric'[s] = Append(Pool!Skipped(n), Data[n].aggregate)
        /\ \A r \in Senders \ {s} : metric'[r] = metric[r]
        /\ On(metric, Senders)' /\ On(lines, Senders)'
    BY <1>1, <1>2, <1>4, <2>1 DEF On
  <2>3. CASE Data[n].subgroup = NoSubgroup
    <3>1. at' = [at EXCEPT ![s] = <<n + 1, 0>>] /\ send' = send
      BY <1>3, <1>7, <2>3 DEF Pool!Item
    <3>2. <<n + 1, 0>> \in Nat \X Nat
      OBVIOUS
    <3>3. /\ at' \in [Senders -> Nat \X Nat] /\ at'[s] = <<n + 1, 0>>
          /\ \A r \in Senders \ {s} : at'[r] = at[r]
      BY <1>1, <3>1, <3>2, UpdatedIn
    <3>4. at'[s][1] = n + 1 /\ n + 1 \in 1 .. Len(Data) + 1
      BY <1>4, <1>5, <1>7, <3>3
    <3>5. metric'[s] = Pool!Skipped(n + 1)
      BY <1>5, <2>2, <2>3, SkippedMore
    <3>6. StackInv(s)'
      BY <1>2, <1>4, <3>1, <3>4, <3>5 DEF StackInv
    <3> QED
      BY <1>1, <1>2, <2>2, <3>1, <3>3, <3>6, StackKept
  <2>4. CASE Data[n].subgroup # NoSubgroup
    <3>1. at' = [at EXCEPT ![s] = <<n, 1>>] /\ send' = [send EXCEPT ![s] = "leaf"]
      BY <1>3, <1>7, <2>4 DEF Pool!Item, Pool!Goes
    <3>2. <<n, 1>> \in Nat \X Nat
      OBVIOUS
    <3>3. /\ at' \in [Senders -> Nat \X Nat] /\ at'[s] = <<n, 1>>
          /\ \A r \in Senders \ {s} : at'[r] = at[r]
      BY <1>1, <3>1, <3>2, UpdatedIn
    <3>4. /\ send' \in [Senders -> SendPlaces] /\ send'[s] = "leaf"
          /\ \A r \in Senders \ {s} : send'[r] = send[r]
      BY <1>1, <3>1, UpdatedIn DEF SendPlaces
    <3>5. at'[s][1] = n /\ at'[s][2] = 1 /\ n \in 1 .. Len(Data)
      BY <1>4, <1>5, <1>7, <3>3
    <3>6. StackInv(s)'
      BY <1>2, <1>4, <2>2, <2>4, <3>4, <3>5 DEF StackInv
    <3> QED
      BY <1>2, <2>2, <3>3, <3>4, <3>6, StackKept
  <2> QED
    BY <2>3, <2>4
<1> QED
  BY <1>6, <1>7

\* A leaf is written under the stack, or nothing is written.
LEMMA LeafNames ==
  ASSUME Pool!GraphiteAssumption, NamesInv, NEW s \in Senders, Pool!Leaf(s)
  PROVE  NamesInv'
<1>1. /\ send \in [Senders -> SendPlaces] /\ at \in [Senders -> Nat \X Nat]
      /\ On(metric, Senders) /\ On(lines, Senders) /\ StackInv(s)
  BY DEF NamesInv
<1>2. send[s] = "leaf" /\ metric' = metric
  BY DEF Pool!Leaf
<1>3. PICK n \in Nat, k \in Nat : n = at[s][1] /\ k = at[s][2]
  BY <1>1
<1>4. /\ n \in 1 .. Len(Data) /\ k > 0
      /\ metric[s] = Append(Pool!Skipped(n), Data[n].aggregate)
      /\ lines[s] \in Seq(NamedLines) /\ Data[n].subgroup # NoSubgroup
  BY <1>1, <1>2, <1>3 DEF StackInv
<1>5. /\ Len(Data) \in Nat /\ n \in Nat \ {0} /\ k =< Len(Data[n].leaves)
      /\ Len(Data[n].leaves) \in Nat
  <2>1. at[s][2] =< Len(Data[at[s][1]].leaves)
    BY Zenon DEF Pool!Leaf
  <2> QED
    BY <1>3, <1>4, <2>1, DataFacts
<1> DEFINE leaf == Data[n].leaves[k]
           line == [of |-> n, name |-> <<Data[n].subgroup>> \o metric[s] \o leaf.path]
<1>6. leaf \in Pool!ToSet(Data[n].leaves)
  BY <1>4, <1>5, DataFacts
<1>7. line = [of |-> n, name |-> Name(n, leaf)]
  <2>1. PICK S : Pool!Skipped(n) \in Seq(S)
    BY <1>5, SkippedSeq
  <2>2. PICK skipped, first, e :
          /\ skipped \in Seq(S) /\ skipped = Pool!Skipped(n)
          /\ first = Data[n].subgroup /\ e = Data[n].aggregate
    BY Zenon, <2>1
  <2>3. <<first>> \o Append(skipped, e) = (<<first>> \o skipped) \o <<e>>
    BY Zenon, <2>2, NameAppended
  <2>4. metric[s] = Append(skipped, e)
    BY Zenon, <1>4, <2>2
  <2>5. <<Data[n].subgroup>> \o metric[s] =
          (<<Data[n].subgroup>> \o Pool!Skipped(n)) \o <<Data[n].aggregate>>
    BY Zenon, <2>2, <2>3, <2>4
  <2> QED
    BY <2>5 DEF Name
<1>8. line \in NamedLines
  BY <1>4, <1>6, <1>7 DEF NamedLines
<1>9. /\ Append(lines[s], line) \in Seq(NamedLines)
  <2> HIDE DEF line
  <2> QED
    BY <1>4, <1>8, AppendProperties
<1>10. CASE /\ lines' = [lines EXCEPT ![s] = Append(lines[s], line)]
            /\ at' = [at EXCEPT ![s] = <<n, k + 1>>] /\ send' = send
  <2>1. <<n, k + 1>> \in Nat \X Nat
    OBVIOUS
  <2>2. /\ at' \in [Senders -> Nat \X Nat] /\ at'[s] = <<n, k + 1>>
        /\ \A r \in Senders \ {s} : at'[r] = at[r]
    BY <1>1, <1>10, <2>1, UpdatedIn
  <2>3. at'[s][1] = n /\ at'[s][2] = k + 1
    BY <2>2
  <2> HIDE DEF line
  <2>4. /\ lines'[s] = Append(lines[s], line)
        /\ \A r \in Senders \ {s} : lines'[r] = lines[r]
        /\ On(metric, Senders)' /\ On(lines, Senders)'
    BY <1>1, <1>2, <1>10 DEF On
  <2>5. StackInv(s)'
    BY <1>2, <1>4, <1>9, <1>10, <2>3, <2>4 DEF StackInv
  <2> QED
    BY <1>1, <1>2, <1>10, <2>2, <2>4, <2>5, StackKept
<1>11. CASE /\ \E place \in {"evict", "error"} : send' = [send EXCEPT ![s] = place]
            /\ UNCHANGED <<lines, at>>
  <2>1. PICK place \in {"evict", "error"} : send' = [send EXCEPT ![s] = place]
    BY <1>11
  <2>2. /\ send' \in [Senders -> SendPlaces] /\ send'[s] = place
        /\ \A r \in Senders \ {s} : send'[r] = send[r]
    BY <1>1, <2>1, UpdatedIn DEF SendPlaces
  <2>3. StackInv(s)'
    BY <1>4, <1>11, <2>1, <2>2 DEF StackInv
  <2>4. On(metric, Senders)' /\ On(lines, Senders)' /\ at' \in [Senders -> Nat \X Nat]
    BY <1>1, <1>2, <1>11 DEF On
  <2> QED
    BY <1>2, <1>11, <2>2, <2>3, <2>4, StackKept
<1>12. \/ /\ lines' = [lines EXCEPT ![s] = Append(lines[s], line)]
          /\ at' = [at EXCEPT ![s] = <<at[s][1], at[s][2] + 1>>] /\ send' = send
       \/ /\ \E place \in {"evict", "error"} : send' = [send EXCEPT ![s] = place]
          /\ UNCHANGED <<lines, at>>
  BY <1>3, Zenon DEF Pool!Leaf, Pool!Goes
<1> HIDE DEF line
<1> QED
  BY <1>3, <1>10, <1>11, <1>12

\* The payload's aggregate is popped: what is left was skipped before it.
LEMMA ItemSentNames ==
  ASSUME Pool!GraphiteAssumption, NamesInv, NEW s \in Senders, Pool!ItemSent(s)
  PROVE  NamesInv'
<1>1. /\ send \in [Senders -> SendPlaces] /\ at \in [Senders -> Nat \X Nat]
      /\ On(metric, Senders) /\ On(lines, Senders) /\ StackInv(s)
  BY DEF NamesInv
<1>2. PICK n \in Nat : n = at[s][1]
  BY <1>1
<1>3. /\ send[s] = "leaf" /\ lines' = lines
      /\ metric' = [metric EXCEPT ![s] = Pool!Front(metric[s])]
      /\ at' = [at EXCEPT ![s] = <<n + 1, 0>>]
      /\ send' = [send EXCEPT ![s] = "item"]
  BY <1>2 DEF Pool!ItemSent, Pool!Goes
<1>4. /\ n \in 1 .. Len(Data) /\ metric[s] = Append(Pool!Skipped(n), Data[n].aggregate)
      /\ lines[s] \in Seq(NamedLines) /\ Data[n].subgroup # NoSubgroup
  BY <1>1, <1>2, <1>3 DEF StackInv
<1>5. n \in Nat \ {0} /\ n + 1 \in 1 .. Len(Data) + 1
  BY <1>4, DataFacts
<1>6. Pool!Front(metric[s]) = Pool!Skipped(n + 1)
  <2>1. PICK S : Pool!Skipped(n) \in Seq(S)
    BY <1>5, SkippedSeq
  <2> QED
    BY <1>4, <1>5, <2>1, FrontAppended, SkippedSame
<1>7. /\ metric'[s] = Pool!Skipped(n + 1)
      /\ \A r \in Senders \ {s} : metric'[r] = metric[r]
      /\ On(metric, Senders)' /\ On(lines, Senders)'
  BY <1>1, <1>3, <1>6 DEF On
<1>8. <<n + 1, 0>> \in Nat \X Nat
  OBVIOUS
<1>9. /\ at' \in [Senders -> Nat \X Nat] /\ at'[s] = <<n + 1, 0>>
      /\ \A r \in Senders \ {s} : at'[r] = at[r]
  BY <1>1, <1>3, <1>8, UpdatedIn
<1>10. /\ send' \in [Senders -> SendPlaces] /\ send'[s] = "item"
       /\ \A r \in Senders \ {s} : send'[r] = send[r]
  BY <1>1, <1>3, UpdatedIn DEF SendPlaces
<1>11. at'[s][1] = n + 1
  BY <1>9
<1>12. StackInv(s)'
  BY <1>3, <1>4, <1>5, <1>7, <1>10, <1>11 DEF StackInv
<1> QED
  BY <1>3, <1>7, <1>9, <1>10, <1>12, StackKept

LEMMA NamesNext ==
  ASSUME Pool!GraphiteAssumption, NamesInv, [Pool!Next]_Pool!vars PROVE NamesInv'
<1>1. CASE UNCHANGED Pool!vars
  BY <1>1 DEF Pool!vars, NamesInv, StackInv, On
<1> QED
  BY <1>1, GetNames, PoolNames, ItemNames, LeafNames, ItemSentNames
  DEF Pool!Next, Pool!SendStep

(***************************************************************************)
(* Whatever payloads a Send gets and however often it fails, a point that   *)
(* is written is named after its subgroup, the aggregates of the earlier    *)
(* payloads without a subgroup, its own aggregate and its path: no other    *)
(* payload, and no other Send, leaves anything in the name                  *)
(* (graphite.go:116-151).                                                   *)
(***************************************************************************)
THEOREM PointsAlwaysNamed == Spec => []PointsNamed
<1>1. Init => NamesInv
  BY NamesInit DEF Init
<1>2. NamesInv /\ [Next]_<<checksVars, sendVars, storeVars, graphiteVars>> => NamesInv'
  BY SendersAssumption, PartsMove, NamesNext
<1>3. NamesInv => PointsNamed
  <2> SUFFICES ASSUME NamesInv, NEW s \in Senders, NEW i \in DOMAIN lines[s]
               PROVE  \E leaf \in Pool!ToSet(Data[lines[s][i].of].leaves) :
                        lines[s][i].name = Name(lines[s][i].of, leaf)
    BY DEF PointsNamed, Pool!PointsNamed, Name
  <2>1. lines[s] \in Seq(NamedLines)
    BY DEF NamesInv, StackInv
  <2>2. lines[s][i] \in NamedLines
    BY <2>1, LenProperties
  <2>3. PICK n \in 1 .. Len(Data) :
          \E leaf \in Pool!ToSet(Data[n].leaves) : lines[s][i] = [of |-> n, name |-> Name(n, leaf)]
    BY <2>2 DEF NamedLines
  <2>4. PICK leaf \in Pool!ToSet(Data[n].leaves) : lines[s][i] = [of |-> n, name |-> Name(n, leaf)]
    BY <2>3
  <2>5. lines[s][i].of = n /\ lines[s][i].name = Name(n, leaf)
    BY <2>4
  <2> QED
    BY <2>5
<1> QED
  BY <1>1, <1>2, <1>3, PTL DEF Spec

=============================================================================
