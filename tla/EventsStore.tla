---------------------------- MODULE EventsStore ----------------------------
(***************************************************************************)
(* The history of events that juggler plugins keep in a database against    *)
(* flapping checks (senders/juggler/plugins_store.go): Push hands a request *)
(* to the one worker of its process over an unbuffered channel and waits    *)
(* for the answer until its deadline; the worker reads the history of the   *)
(* key, puts the event in front, cuts it and writes it back.                *)
(*                                                                         *)
(* One key is modelled, and events are numbered in the order of the Pushes. *)
(* The database is external: every operation may fail, with nothing done.   *)
(***************************************************************************)
EXTENDS Naturals, Sequences, SequencesExt

CONSTANTS
  Pushers,    \* goroutines that call Push, one call at a time
  Workers,    \* the worker goroutines, one in each process
  History,    \* the history argument of the Pushes
  MaxEvents   \* bound on the number of Pushes

EventsStoreAssumption == History \in Nat \ {0} /\ MaxEvents \in Nat

NoEvents == <<>>
NoPusher == "none"

VARIABLES
  workerOf,  \* workerOf[p]: the worker of p's process
  stored,    \* the history in the database, NoEvents if there is no document
  pushed,    \* number of Pushes so far
  push,      \* push[p]: where the Push of p is
  event,     \* event[p]: its event
  worker,    \* worker[w]: where worker w is
  request,   \* request[w]: the pusher and the event of q
  mQuery,    \* mQuery[w]: the history that w is at work on
  written    \* the events that reached the database, in their order (history)

pushVars == <<pushed, push, event>>
vars == <<workerOf, stored, pushed, push, event, worker, request, mQuery, written>>

Init ==
  /\ workerOf \in [Pushers -> Workers]
  /\ stored = NoEvents /\ pushed = 0 /\ written = <<>>
  /\ push = [p \in Pushers |-> "idle"]
  /\ event = [p \in Pushers |-> 0]
  /\ worker = [w \in Workers |-> "idle"]
  /\ request = [w \in Workers |-> [from |-> NoPusher, event |-> 0]]
  /\ mQuery = [w \in Workers |-> NoEvents]

-----------------------------------------------------------------------------
(* Push *)

Call(p) ==
  /\ push[p] \in {"idle", "ok", "deadline"} /\ pushed < MaxEvents
  /\ pushed' = pushed + 1
  /\ event' = [event EXCEPT ![p] = pushed']
  /\ push' = [push EXCEPT ![p] = "send"]
  /\ UNCHANGED <<workerOf, stored, worker, request, mQuery, written>>

\* s.queryChan <- query, received by the worker.
Query(p) ==
  LET w == workerOf[p]
  IN  /\ push[p] = "send" /\ worker[w] = "idle"
      /\ push' = [push EXCEPT ![p] = "sent"]
      /\ worker' = [worker EXCEPT ![w] = "find"]
      /\ request' = [request EXCEPT ![w] = [from |-> p, event |-> event[p]]]
      /\ UNCHANGED <<workerOf, stored, pushed, event, mQuery, written>>

\* The second select: until it is reached nobody receives from query.out.
Receive(p) ==
  /\ push[p] = "sent"
  /\ push' = [push EXCEPT ![p] = "wait"]
  /\ UNCHANGED <<workerOf, stored, pushed, event, worker, request, mQuery, written>>

Deadline(p) ==
  /\ push[p] \in {"send", "wait"}
  /\ push' = [push EXCEPT ![p] = "deadline"]
  /\ UNCHANGED <<workerOf, stored, pushed, event, worker, request, mQuery, written>>

-----------------------------------------------------------------------------
(* worker *)

\* A shift that runs upwards and copies the first event everywhere.
ShiftedUpwards(events, e) ==
  LET size == IF Len(events) < History THEN Len(events) + 1 ELSE History
  IN  [i \in 1 .. size |-> IF i = 1 THEN e ELSE events[1]]

\* Room for one if there are fewer than History; everything one place on;
\* the event in front; the rest cut.
Shifted(events, e) ==
  LET room == IF Len(events) < History THEN Append(events, 0) ELSE events
      size == IF Len(events) < History THEN Len(room) ELSE History
  IN  [i \in 1 .. size |-> IF i = 1 THEN e ELSE room[i - 1]]

\* FindId: an error of any kind counts as a key that is not there.
Find(w) ==
  /\ worker[w] = "find"
  /\ \/ /\ stored # NoEvents
        /\ mQuery' = [mQuery EXCEPT ![w] = Shifted(stored, request[w].event)]
        /\ worker' = [worker EXCEPT ![w] = "upsert"]
     \/ /\ mQuery' = [mQuery EXCEPT ![w] = <<request[w].event>>]
        /\ worker' = [worker EXCEPT ![w] = "insert"]
  /\ UNCHANGED <<workerOf, stored, pushVars, request, written>>

\* Insert is refused when there is a document.
Insert(w) ==
  /\ worker[w] = "insert"
  /\ \/ /\ stored = NoEvents
        /\ stored' = mQuery[w] /\ written' = Append(written, request[w].event)
     \/ UNCHANGED <<stored, written>>
  /\ worker' = [worker EXCEPT ![w] = "reply"]
  /\ UNCHANGED <<workerOf, pushVars, request, mQuery>>

Upsert(w) ==
  /\ worker[w] = "upsert"
  /\ \/ stored' = mQuery[w] /\ written' = Append(written, request[w].event)
     \/ UNCHANGED <<stored, written>>
  /\ worker' = [worker EXCEPT ![w] = "reply"]
  /\ UNCHANGED <<workerOf, pushVars, request, mQuery>>

\* The answer has a history and never result.err.  It is dropped unless the
\* Push is at its receive.
Reply(w) ==
  LET p == request[w].from
  IN  /\ worker[w] = "reply"
      /\ push' = [push EXCEPT ![p] =
                    IF @ = "wait" /\ event[p] = request[w].event THEN "ok" ELSE @]
      /\ worker' = [worker EXCEPT ![w] = "idle"]
      /\ UNCHANGED <<workerOf, stored, pushed, event, request, mQuery, written>>

PushStep(p) == Receive(p) \/ Deadline(p)
WorkerStep(w) == Find(w) \/ Insert(w) \/ Upsert(w) \/ Reply(w)

Next ==
  \/ \E p \in Pushers : Call(p) \/ Query(p) \/ PushStep(p)
  \/ \E w \in Workers : WorkerStep(w)

Spec == Init /\ [][Next]_vars

\* Deadlines pass, and the database answers or fails.
Fairness ==
  /\ \A p \in Pushers : WF_vars(PushStep(p))
  /\ \A w \in Workers : WF_vars(WorkerStep(w))

FairSpec == Spec /\ Fairness

-----------------------------------------------------------------------------
(* Properties *)

\* The last n of the events that were written, newest first.
Latest(n) == Reverse(SubSeq(written, Len(written) - n + 1, Len(written)))

(***************************************************************************)
(* With one worker the history is the latest events without a gap, as many  *)
(* as are wanted and there have been, however Pushes time out and the       *)
(* database fails (plugins_store.go:105-143).                               *)
(***************************************************************************)
HistoryIsLatest ==
  stored = Latest(IF Len(written) < History THEN Len(written) ELSE History)

\* The place of e in the order of the writes.
Written(e) == CHOOSE i \in DOMAIN written : written[i] = e

(***************************************************************************)
(* Workers of several processes on one key lose each other's events, but    *)
(* the history still begins with the last event written, and goes back in   *)
(* the order of the writes without repeating one (plugins_store.go:110-133).*)
(***************************************************************************)
HistoryGoesBack ==
  /\ written # <<>> => stored # NoEvents /\ Head(stored) = Last(written)
  /\ \A i \in 1 .. Len(stored) - 1 : Written(stored[i]) > Written(stored[i + 1])

\* All Pushes are those of one process.
OneWorker == \A p, q \in Pushers : workerOf[p] = workerOf[q]

\* What each of them can rely on (plugins_store.go:105-143).
HistoryKept == HistoryGoesBack /\ (OneWorker => HistoryIsLatest)

(***************************************************************************)
(* A Push that gives up does not keep the worker: it always gets to its     *)
(* next request (plugins_store.go:135-139).                                 *)
(***************************************************************************)
WorkerServes == \A w \in Workers : []<>(worker[w] = "idle")

=============================================================================
