-------------------------------- MODULE FSM --------------------------------
(***************************************************************************)
(* One combainer node as raft sees it: the FSMStore that raft commands and *)
(* snapshots change (combainer/fsm.go), the handleTask goroutine that every *)
(* configuration assigned to this node gets (combainer/scheduler.go) and    *)
(* the GlobalObserver in which those goroutines register their Client      *)
(* (combainer/observer.go).                                                 *)
(*                                                                         *)
(* A stop channel is a number of Chans, given out in the order make(chan)   *)
(* is called; 0 is the nil channel.  Put makes one channel per call and     *)
(* Apply and Restore start one goroutine per channel made for the own host, *)
(* so the channel also names the goroutine and its (only) Client.           *)
(*                                                                         *)
(* Left out: host keys of the store whose map is empty (only a statistic    *)
(* shows them), commands and snapshots that do not decode (they return      *)
(* before anything changes) and the length of the sleeps.                   *)
(***************************************************************************)
EXTENDS Naturals, FiniteSets

CONSTANTS
  Hosts,      \* host names raft commands mention
  Configs,    \* parsing configurations
  Me,         \* Cluster.Name of this node
  NoConfig,   \* the config of a channel that has no goroutine
  MaxChans    \* bound on the number of stop channels made in a behaviour

ASSUME FSMAssumption ==
  /\ Me \in Hosts
  /\ NoConfig \notin Configs
  /\ MaxChans \in Nat

Chans == 1 .. MaxChans
NoChan == 0

(***************************************************************************)
(* Where a handleTask goroutine is: in its initial sleep, before the select *)
(* at RECLIENT, inside NewClient, sleeping after a NewClient error, about   *)
(* to register, before the select of the loop, inside Dispatch, sleeping    *)
(* after a Dispatch error, running the deferred UnregisterClient, gone.     *)
(* "none": the channel has no goroutine.                                    *)
(***************************************************************************)
Places == {"none", "delay", "check", "newclient", "retry", "register",
           "loop", "dispatch", "backoff", "unregister", "exit"}

\* The places at which the goroutine's Client may be in the observer.
Registered == {"loop", "dispatch", "backoff", "unregister"}

VARIABLES
  store,      \* store[h][c]: the stop channel FSMStore keeps for c on h
  closed,     \* the stop channels that are closed
  made,       \* number of stop channels made so far
  wedged,     \* a close of a closed channel panicked with the store locked
  pending,    \* pending[h]: configs Restore has still to Put for host h
  pc,         \* pc[ch]: where the goroutine of channel ch is
  task,       \* task[ch]: the config that goroutine was started with
  observer    \* observer[c]: whose Client is registered for config c

storeVars == <<store, closed, made, wedged>>
taskVars == <<pc, task, observer>>
vars == <<store, closed, made, wedged, pending, pc, task, observer>>

Init ==
  /\ store = [h \in Hosts |-> [c \in Configs |-> NoChan]]
  /\ closed = {}
  /\ made = 0
  /\ wedged = FALSE
  /\ pending = [h \in Hosts |-> {}]
  /\ pc = [ch \in Chans |-> "none"]
  /\ task = [ch \in Chans |-> NoConfig]
  /\ observer = [c \in Configs |-> NoChan]

-----------------------------------------------------------------------------
(* FSMStore *)

\* FSMStore.List: the configurations assigned to a host.
List(h) == {c \in Configs : store[h][c] # NoChan}

\* close(old) panics when old is closed already: Apply recovers, but the
\* Lock taken by Put or Remove is never released.
CloseChan(ch) ==
  /\ closed' = IF ch = NoChan THEN closed ELSE closed \union {ch}
  /\ wedged' = (ch # NoChan /\ ch \in closed)

\* Put without the close of the channel it replaces.
PutKeepsOld(h, c) ==
  /\ made < MaxChans
  /\ made' = made + 1
  /\ store' = [store EXCEPT ![h][c] = made + 1]
  /\ UNCHANGED <<closed, wedged>>

\* FSMStore.Put: stop whoever ran c on h before, keep a new channel.
Put(h, c) ==
  /\ made < MaxChans
  /\ CloseChan(store[h][c])
  /\ IF wedged'
     THEN UNCHANGED <<store, made>>
     ELSE /\ made' = made + 1
          /\ store' = [store EXCEPT ![h][c] = made + 1]

\* Remove that closes the channel and leaves it in the map.
RemoveKeepsEntry(h, c) ==
  /\ CloseChan(store[h][c])
  /\ UNCHANGED <<store, made>>

\* FSMStore.Remove: close the channel if there is one and forget it.
Remove(h, c) ==
  /\ CloseChan(store[h][c])
  /\ store' = IF wedged' THEN store ELSE [store EXCEPT ![h][c] = NoChan]
  /\ UNCHANGED made

Stored == {store[h][c] : h \in Hosts, c \in Configs} \ {NoChan}

\* FSMStore.clean: close every channel, empty the map.  Restore has no
\* recover: a panic here would end the process.
clean ==
  /\ closed' = closed \union Stored
  /\ wedged' = (Stored \intersect closed # {})
  /\ store' = [h \in Hosts |-> [c \in Configs |-> NoChan]]
  /\ UNCHANGED made

-----------------------------------------------------------------------------
(* Raft's FSM goroutine: Apply and Restore never overlap. *)

Restoring == \E h \in Hosts : pending[h] # {}

\* Apply and Restore start handleTask for the channel Put has just made.
startTask(h, c) ==
  IF h = Me /\ ~wedged'
  THEN /\ pc' = [pc EXCEPT ![made'] = "delay"]
       /\ task' = [task EXCEPT ![made'] = c]
       /\ UNCHANGED observer
  ELSE UNCHANGED taskVars

\* Apply of an AssignConfig command.
ApplyAssign(h, c) ==
  /\ ~wedged /\ ~Restoring
  /\ Put(h, c)
  /\ startTask(h, c)
  /\ UNCHANGED pending

\* Apply of a RemoveConfig command.
ApplyRemove(h, c) ==
  /\ ~wedged /\ ~Restoring
  /\ Remove(h, c)
  /\ UNCHANGED <<taskVars, pending>>

\* Restore: a decoded snapshot, the store cleaned, nothing put yet.  (The
\* bound on channels must leave room for the whole snapshot.)
RestoreClean(snapshot) ==
  /\ ~wedged /\ ~Restoring
  /\ made + Cardinality({p \in Hosts \X Configs : p[2] \in snapshot[p[1]]}) =< MaxChans
  /\ clean
  /\ pending' = snapshot
  /\ UNCHANGED taskVars

\* One turn of Restore's loops, host by host.  The store is unlocked between
\* two turns, and it is only filled by these turns until the loops end.
RestorePut(h, c) ==
  /\ ~wedged
  /\ c \in pending[h]
  /\ \A g \in Hosts \ {h} : pending[g] = {} \/ List(g) = {}
  /\ Put(h, c)
  /\ startTask(h, c)
  /\ pending' = [pending EXCEPT ![h] = @ \ {c}]

-----------------------------------------------------------------------------
(* The handleTask goroutine of channel ch *)

Goto(ch, from, to) == pc[ch] = from /\ pc' = [pc EXCEPT ![ch] = to]

RestUnchanged == UNCHANGED <<storeVars, pending, task>>

\* The initial sleep, or the one after a NewClient error, ends.
Wake(ch) ==
  /\ Goto(ch, "delay", "check") \/ Goto(ch, "retry", "check")
  /\ UNCHANGED observer /\ RestUnchanged

\* The select at RECLIENT; on return there is no client to unregister.
CheckStop(ch) ==
  /\ Goto(ch, "check", IF ch \in closed THEN "exit" ELSE "newclient")
  /\ UNCHANGED observer /\ RestUnchanged

\* NewClient returns a client or an error.
NewClient(ch) ==
  /\ Goto(ch, "newclient", "register") \/ Goto(ch, "newclient", "retry")
  /\ UNCHANGED observer /\ RestUnchanged

\* Observer.RegisterClient: whoever is registered for the config is replaced.
RegisterClient(ch) ==
  /\ Goto(ch, "register", "loop")
  /\ observer' = [observer EXCEPT ![task[ch]] = ch]
  /\ RestUnchanged

\* A loop that looks at the stop channel only before it has a client.
LoopForever(ch) ==
  /\ Goto(ch, "loop", "dispatch")
  /\ UNCHANGED observer /\ RestUnchanged

\* The select of the loop: stop, or one more Dispatch.
LoopCheck(ch) ==
  /\ Goto(ch, "loop", IF ch \in closed THEN "unregister" ELSE "dispatch")
  /\ UNCHANGED observer /\ RestUnchanged

\* Dispatch returns; after an error the goroutine sleeps before it goes on.
DispatchEnd(ch) ==
  /\ Goto(ch, "dispatch", "loop") \/ Goto(ch, "dispatch", "backoff")
  /\ UNCHANGED observer /\ RestUnchanged

BackoffEnd(ch) ==
  /\ Goto(ch, "backoff", "loop")
  /\ UNCHANGED observer /\ RestUnchanged

\* A registration that is left behind when its owner stops.
UnregisterNothing(ch) ==
  /\ Goto(ch, "unregister", "exit")
  /\ UNCHANGED observer /\ RestUnchanged

\* UnregisterClient that does not compare the client's ID.
UnregisterAnyone(ch) ==
  /\ Goto(ch, "unregister", "exit")
  /\ observer' = [observer EXCEPT ![task[ch]] = NoChan]
  /\ RestUnchanged

\* The deferred Observer.UnregisterClient: only the own registration goes.
UnregisterClient(ch) ==
  /\ Goto(ch, "unregister", "exit")
  /\ observer' = [observer EXCEPT ![task[ch]] = IF @ = ch THEN NoChan ELSE @]
  /\ RestUnchanged

TaskStep(ch) ==
  \/ Wake(ch)
  \/ CheckStop(ch)
  \/ NewClient(ch)
  \/ RegisterClient(ch)
  \/ LoopCheck(ch)
  \/ DispatchEnd(ch)
  \/ BackoffEnd(ch)
  \/ UnregisterClient(ch)

Snapshots == [Hosts -> SUBSET Configs]

Next ==
  \/ \E h \in Hosts, c \in Configs :
       ApplyAssign(h, c) \/ ApplyRemove(h, c) \/ RestorePut(h, c)
  \/ \E snapshot \in Snapshots : RestoreClean(snapshot)
  \/ \E ch \in Chans : TaskStep(ch)

(***************************************************************************)
(* The Go scheduler runs every goroutine that can run, sleeps end and       *)
(* Dispatch returns (its session has a deadline); raft need not send        *)
(* anything, but a Restore that has begun goes on.                          *)
(***************************************************************************)
Fairness ==
  /\ \A ch \in Chans : WF_vars(TaskStep(ch))
  /\ WF_vars(\E h \in Hosts, c \in Configs : RestorePut(h, c))

Spec == Init /\ [][Next]_vars

FairSpec == Spec /\ Fairness

(***************************************************************************)
(* A timing assumption Spec does not make.  handleTask sleeps at least one  *)
(* second plus RaftUpdateInterval before its first look at stopCh           *)
(* (scheduler.go:207); NewClient only dials without blocking, and           *)
(* RegisterClient takes a lock.  An earlier goroutine of the same config    *)
(* that had already decided to create a client is past RegisterClient by    *)
(* the time the sleep ends.                                                 *)
(***************************************************************************)
DelayOutlastsDial ==
  \A ch \in Chans :
    pc[ch] = "delay" /\ pc'[ch] = "check" =>
      \A old \in 1 .. ch - 1 :
        task[old] = task[ch] => pc[old] \notin {"newclient", "register"}

TimedNext == Next /\ DelayOutlastsDial

TimedSpec == Init /\ [][TimedNext]_vars

-----------------------------------------------------------------------------
(* Properties *)

TypeOK ==
  /\ store \in [Hosts -> [Configs -> Chans \union {NoChan}]]
  /\ closed \subseteq Chans
  /\ made \in 0 .. MaxChans
  /\ wedged \in BOOLEAN
  /\ pending \in Snapshots
  /\ pc \in [Chans -> Places]
  /\ task \in [Chans -> Configs \union {NoConfig}]
  /\ observer \in [Configs -> Chans \union {NoChan}]

(***************************************************************************)
(* No sequence of Assign, Remove and Restore closes a stop channel twice.   *)
(* Put and Remove take the store's lock without defer (fsm.go:133, 150) and *)
(* Apply swallows the panic (fsm.go:30): one double close would leave the   *)
(* lock held and the node unable to apply anything again.                   *)
(***************************************************************************)
NeverWedged == ~wedged

\* The goroutines of config c that nobody has told to stop.
Unstopped(c) == {ch \in Chans : pc[ch] # "none" /\ task[ch] = c /\ ch \notin closed}

(***************************************************************************)
(* The goroutines and the store agree: a config assigned to this node has   *)
(* exactly one goroutine that is not told to stop, the one listening on the *)
(* stored channel, and it has not returned; a config that is not assigned   *)
(* has none.  No task is lost and none is orphaned, whatever the order of   *)
(* re-assignments, removals and restores (fsm.go:44-49, 82-86, 138-143).    *)
(***************************************************************************)
TasksMatchStore ==
  \A c \in Configs :
    /\ Unstopped(c) = {store[Me][c]} \ {NoChan}
    /\ \A ch \in Unstopped(c) : pc[ch] \notin {"unregister", "exit"}

(***************************************************************************)
(* Every Client in the observer belongs to a goroutine of that config that  *)
(* has not returned: overlapping goroutines of one config (the old one      *)
(* finishing its Dispatch, the new one registering) leave nothing behind    *)
(* (observer.go:57-74).                                                     *)
(***************************************************************************)
ObserverOwned ==
  \A c \in Configs :
    observer[c] # NoChan => /\ task[observer[c]] = c
                            /\ pc[observer[c]] \in Registered

(***************************************************************************)
(* "map active clients to configs" (observer.go:51): the unstopped client   *)
(* that loops over a config is the one the observer has for the config,     *)
(* although its predecessor registers and unregisters on its own time.      *)
(* Holds of TimedSpec and not of Spec: without the start delay a stopped    *)
(* goroutine could register late, over its successor, and then unregister.  *)
(***************************************************************************)
ActiveClientsVisible ==
  \A c \in Configs : \A ch \in Unstopped(c) :
    pc[ch] \in Registered => observer[c] = ch

(***************************************************************************)
(* A goroutine whose stop channel is closed returns, wherever it was:       *)
(* asleep, creating a client, or inside Dispatch (scheduler.go:213, 228).   *)
(***************************************************************************)
StoppedExits ==
  \A ch \in Chans : []<>(ch \in closed => pc[ch] \in {"none", "exit"})

(***************************************************************************)
(* A config assigned to this node is dispatched again and again, or its     *)
(* goroutine keeps retrying to create a client; what another goroutine of   *)
(* the config does or fails to do cannot stall it.                          *)
(***************************************************************************)
AssignedIsServed ==
  \A c \in Configs :
    []<>(store[Me][c] = NoChan \/ pc[store[Me][c]] \in {"dispatch", "retry"})

(***************************************************************************)
(* Both: goroutines do what the store says in the end (scheduler.go:204-    *)
(* 241).                                                                    *)
(***************************************************************************)
TasksFollow == StoppedExits /\ AssignedIsServed

=============================================================================
