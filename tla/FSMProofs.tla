----------------------------- MODULE FSMProofs -----------------------------
(***************************************************************************)
(* Proofs about FSM for any set of hosts and configurations and any number  *)
(* of stop channels: the store never closes a channel twice, the goroutines *)
(* match the store, and the observer holds no client of a goroutine that is *)
(* gone.                                                                    *)
(*                                                                         *)
(* NeverWedged and TasksMatchStore are not inductive on their own: that a   *)
(* close is safe needs the stored channels to be open, which needs them to  *)
(* be pairwise distinct (closing one must not close another's) and older    *)
(* than the next one made.                                                  *)
(***************************************************************************)
EXTENDS TimedFSM, TLAPS

\* Channels are made in order; nothing is known of one that is not made.
FreshChans ==
  /\ \A h \in Hosts, c \in Configs : store[h][c] =< made
  /\ \A ch \in closed : ch =< made
  /\ \A ch \in Chans : ch > made => pc[ch] = "none"

\* A stored channel is open and stored once.
StoreOpen == \A h \in Hosts, c \in Configs : store[h][c] \notin closed

StoreDistinct ==
  \A h, g \in Hosts, c, d \in Configs :
    store[h][c] # NoChan /\ store[h][c] = store[g][d] => h = g /\ c = d

\* A channel stored for this node has a goroutine that has not returned.
Listening ==
  \A c \in Configs :
    store[Me][c] # NoChan =>
      /\ task[store[Me][c]] = c
      /\ pc[store[Me][c]] \notin {"none", "unregister", "exit"}

\* A goroutine has a config and is stopped, or its channel is stored.
Owned ==
  \A ch \in Chans :
    pc[ch] # "none" =>
      /\ task[ch] \in Configs
      /\ ch \notin closed => store[Me][task[ch]] = ch

IInv ==
  /\ TypeOK
  /\ NeverWedged
  /\ FreshChans
  /\ StoreOpen
  /\ StoreDistinct
  /\ Listening
  /\ Owned
  /\ ObserverOwned

-----------------------------------------------------------------------------

\* The empty store, with no goroutine and no registration.
LEMMA InitIInv == Init => IInv
<1> SUFFICES ASSUME Init PROVE IInv
  OBVIOUS
<1> USE FSMAssumption DEF Init, NoChan
<1>1. TypeOK /\ NeverWedged
  <2>1. store \in [Hosts -> [Configs -> Chans \union {NoChan}]]
    OBVIOUS
  <2>2. closed \subseteq Chans /\ made \in 0 .. MaxChans
    OBVIOUS
  <2>3. wedged \in BOOLEAN /\ NeverWedged
    BY Zenon DEF NeverWedged
  <2>4. pending \in Snapshots
    BY DEF Snapshots
  <2>5. /\ pc \in [Chans -> Places]
        /\ task \in [Chans -> Configs \union {NoConfig}]
        /\ observer \in [Configs -> Chans \union {NoChan}]
    BY DEF Places
  <2> QED BY <2>1, <2>2, <2>3, <2>4, <2>5 DEF TypeOK
<1>2. \A h \in Hosts, c \in Configs : store[h][c] = 0
  OBVIOUS
<1>3. FreshChans /\ StoreOpen /\ StoreDistinct /\ Listening
  BY <1>2 DEF FreshChans, StoreOpen, StoreDistinct, Listening
<1>4. Owned /\ ObserverOwned
  BY DEF Owned, ObserverOwned
<1> QED
  BY <1>1, <1>3, <1>4 DEF IInv

(***************************************************************************)
(* Put with the goroutine it starts: the step Apply and Restore share.      *)
(***************************************************************************)
LEMMA PutStep ==
  ASSUME IInv, NEW h \in Hosts, NEW c \in Configs,
         Put(h, c), startTask(h, c), pending' \in Snapshots
  PROVE  IInv'
<1> DEFINE new == made + 1
<1> USE FSMAssumption DEF IInv, NoChan
<1>1. /\ made \in Nat /\ made < MaxChans /\ new \in Chans
      /\ store[h][c] \in Chans \union {0} /\ store[h][c] \notin closed
  BY DEF TypeOK, Put, StoreOpen, Chans
<1>2. /\ wedged' = FALSE
      /\ made' = new
      /\ store' = [store EXCEPT ![h][c] = new]
      /\ closed' = closed \union ({store[h][c]} \ {0})
  BY <1>1 DEF Put, CloseChan, NeverWedged
<1>3. /\ observer' = observer
      /\ h = Me => /\ pc' = [pc EXCEPT ![new] = "delay"]
                   /\ task' = [task EXCEPT ![new] = c]
      /\ h # Me => pc' = pc /\ task' = task
  BY <1>2 DEF startTask, taskVars
<1>4. new \notin closed /\ pc[new] = "none"
      /\ \A g \in Hosts, d \in Configs : store[g][d] # new
  BY <1>1 DEF FreshChans, TypeOK, Chans
<1>5. \A g \in Hosts, d \in Configs :
        store'[g][d] = IF g = h /\ d = c THEN new ELSE store[g][d]
  BY <1>2 DEF TypeOK
<1>6. TypeOK'
  <2>1. store' \in [Hosts -> [Configs -> Chans \union {NoChan}]]
    BY <1>1, <1>2 DEF TypeOK
  <2>2. closed' \subseteq Chans
    BY <1>1, <1>2 DEF TypeOK
  <2>3. made' \in 0 .. MaxChans
    BY <1>1, <1>2
  <2>4. wedged' \in BOOLEAN
    BY <1>2, Zenon
  <2>5. /\ pc' \in [Chans -> Places]
        /\ task' \in [Chans -> Configs \union {NoConfig}]
        /\ observer' \in [Configs -> Chans \union {NoChan}]
    BY <1>1, <1>3 DEF TypeOK, Places
  <2> QED BY <2>1, <2>2, <2>3, <2>4, <2>5 DEF TypeOK
<1>7. NeverWedged' /\ FreshChans'
  BY <1>1, <1>2, <1>3, <1>5 DEF NeverWedged, FreshChans, TypeOK, Chans
<1>8. StoreOpen'
  <2> SUFFICES ASSUME NEW g \in Hosts, NEW d \in Configs
               PROVE  store'[g][d] \notin closed'
    BY DEF StoreOpen
  <2>1. CASE g = h /\ d = c
    BY <2>1, <1>1, <1>2, <1>4, <1>5
  <2>2. CASE ~(g = h /\ d = c)
    BY <2>2, <1>2, <1>5 DEF StoreOpen, StoreDistinct
  <2> QED BY <2>1, <2>2
<1>9. StoreDistinct'
  BY <1>4, <1>5 DEF StoreDistinct
<1>10. Listening'
  <2> SUFFICES ASSUME NEW d \in Configs, store'[Me][d] # 0
               PROVE  /\ task'[store'[Me][d]] = d
                      /\ pc'[store'[Me][d]] \notin {"none", "unregister", "exit"}
    BY DEF Listening
  <2>1. CASE h = Me /\ d = c
    BY <2>1, <1>1, <1>3, <1>5 DEF TypeOK
  <2>2. CASE ~(h = Me /\ d = c)
    BY <2>2, <1>3, <1>4, <1>5 DEF Listening, TypeOK
  <2> QED BY <2>1, <2>2
<1>11. Owned'
  <2> SUFFICES ASSUME NEW ch \in Chans, pc'[ch] # "none"
               PROVE  /\ task'[ch] \in Configs
                      /\ ch \notin closed' => store'[Me][task'[ch]] = ch
    BY DEF Owned
  <2>1. CASE ch = new
    BY <2>1, <1>1, <1>3, <1>4, <1>5 DEF TypeOK
  <2>2. CASE ch # new
    <3>1. pc'[ch] = pc[ch] /\ task'[ch] = task[ch]
      BY <2>2, <1>1, <1>3 DEF TypeOK
    <3>2. task[ch] \in Configs
      BY <3>1 DEF Owned
    <3>3. ASSUME ch \notin closed' PROVE store'[Me][task[ch]] = ch
      <4>1. store[Me][task[ch]] = ch
        BY <3>1, <3>3, <1>2 DEF Owned
      <4>2. ~(h = Me /\ task[ch] = c)
        BY <4>1, <3>3, <1>2 DEF Chans
      <4> QED BY <4>1, <4>2, <3>2, <1>5
    <3> QED BY <3>1, <3>2, <3>3
  <2> QED BY <2>1, <2>2
<1>12. ObserverOwned'
  <2> SUFFICES ASSUME NEW d \in Configs, observer[d] # 0
               PROVE  task'[observer[d]] = d /\ pc'[observer[d]] \in Registered
    BY <1>3 DEF ObserverOwned
  <2>1. observer[d] # new /\ observer[d] \in Chans
    BY <1>4 DEF ObserverOwned, Registered, TypeOK
  <2> QED BY <2>1, <1>1, <1>3 DEF ObserverOwned, TypeOK
<1> QED
  BY <1>6, <1>7, <1>8, <1>9, <1>10, <1>11, <1>12

\* ApplyRemove: the channel that is closed was stored, hence open, once only.
LEMMA RemoveStep ==
  ASSUME IInv, NEW h \in Hosts, NEW c \in Configs, ApplyRemove(h, c)
  PROVE  IInv'
<1> USE FSMAssumption DEF IInv, NoChan
<1>1. store[h][c] \in Chans \union {0} /\ store[h][c] \notin closed
  BY DEF TypeOK, StoreOpen
<1>2. /\ wedged' = FALSE
      /\ made' = made
      /\ store' = [store EXCEPT ![h][c] = 0]
      /\ closed' = closed \union ({store[h][c]} \ {0})
      /\ UNCHANGED <<pending, pc, task, observer>>
  BY <1>1 DEF ApplyRemove, Remove, CloseChan, NeverWedged, taskVars
<1>3. \A g \in Hosts, d \in Configs :
        store'[g][d] = IF g = h /\ d = c THEN 0 ELSE store[g][d]
  BY <1>2 DEF TypeOK
<1>4. TypeOK' /\ NeverWedged' /\ ObserverOwned'
  BY <1>1, <1>2 DEF TypeOK, NeverWedged, ObserverOwned
<1>5. FreshChans'
  BY <1>1, <1>2, <1>3 DEF FreshChans, TypeOK
<1>6. StoreOpen'
  <2> SUFFICES ASSUME NEW g \in Hosts, NEW d \in Configs
               PROVE  store'[g][d] \notin closed'
    BY DEF StoreOpen
  <2>1. CASE g = h /\ d = c
    BY <2>1, <1>2, <1>3 DEF TypeOK, Chans
  <2>2. CASE ~(g = h /\ d = c)
    BY <2>2, <1>2, <1>3 DEF StoreOpen, StoreDistinct
  <2> QED BY <2>1, <2>2
<1>7. StoreDistinct' /\ Listening'
  BY <1>2, <1>3 DEF StoreDistinct, Listening
<1>8. Owned'
  BY <1>2, <1>3 DEF Owned, Chans
<1> QED
  BY <1>4, <1>5, <1>6, <1>7, <1>8

\* RestoreClean closes stored channels only, and those are open.
LEMMA CleanStep ==
  ASSUME IInv, NEW snapshot \in Snapshots, RestoreClean(snapshot)
  PROVE  IInv'
<1> USE FSMAssumption DEF IInv, NoChan
<1>1. /\ wedged' = FALSE
      /\ made' = made
      /\ store' = [h \in Hosts |-> [c \in Configs |-> 0]]
      /\ closed' = closed \union Stored
      /\ pending' \in Snapshots
      /\ UNCHANGED <<pc, task, observer>>
  <2>1. Stored \intersect closed = {}
    BY DEF Stored, StoreOpen
  <2> QED BY <2>1 DEF RestoreClean, clean, taskVars
<1>2. \A h \in Hosts, c \in Configs : store'[h][c] = 0
  BY <1>1
<1>3. Stored \subseteq Chans /\ \A ch \in Stored : ch =< made
  BY DEF Stored, TypeOK, FreshChans
<1>4. TypeOK' /\ NeverWedged' /\ ObserverOwned'
  BY <1>1, <1>3 DEF TypeOK, NeverWedged, ObserverOwned
<1>5. FreshChans' /\ StoreOpen'
  BY <1>1, <1>2, <1>3 DEF FreshChans, StoreOpen, TypeOK, Chans
<1>6. StoreDistinct' /\ Listening'
  BY <1>2 DEF StoreDistinct, Listening
<1>7. Owned'
  BY <1>1 DEF Owned, Stored, Chans
<1> QED
  BY <1>4, <1>5, <1>6, <1>7

(***************************************************************************)
(* A goroutine moves on.  Only a stopped one reaches "unregister" or        *)
(* "exit", and only its own registration is touched.                        *)
(***************************************************************************)
LEMMA TaskStepStep ==
  ASSUME IInv, NEW ch \in Chans, TaskStep(ch)
  PROVE  IInv'
<1> USE FSMAssumption DEF IInv, NoChan
<1>1. UNCHANGED <<store, closed, made, wedged, pending, task>>
  BY DEF TaskStep, Wake, CheckStop, NewClient, RegisterClient, LoopCheck,
         DispatchEnd, BackoffEnd, UnregisterClient, RestUnchanged, storeVars
<1>2. PICK from, to \in Places : 
        /\ Goto(ch, from, to)
        /\ from # "none" /\ to # "none"
        /\ to \in {"unregister", "exit"} => ch \in closed \/ from = "unregister"
        /\ \/ /\ observer' = observer
              /\ from \in Registered => to \in Registered
           \/ /\ from = "register" /\ to = "loop"
              /\ observer' = [observer EXCEPT ![task[ch]] = ch]
           \/ /\ from = "unregister" /\ to = "exit"
              /\ observer' = [observer EXCEPT ![task[ch]] = IF @ = ch THEN 0 ELSE @]
  BY DEF TaskStep, Wake, CheckStop, NewClient, RegisterClient, LoopCheck,
         DispatchEnd, BackoffEnd, UnregisterClient, Goto, Places, Registered
<1>3. pc[ch] = from /\ pc' = [pc EXCEPT ![ch] = to] /\ pc' \in [Chans -> Places]
  BY <1>2 DEF Goto, TypeOK
<1>4. task[ch] \in Configs
  BY <1>2, <1>3 DEF Owned
<1>5. TypeOK'
  BY <1>1, <1>2, <1>3, <1>4 DEF TypeOK
<1>6. NeverWedged' /\ StoreOpen' /\ StoreDistinct'
  BY <1>1 DEF NeverWedged, StoreOpen, StoreDistinct
<1>7. FreshChans'
  BY <1>1, <1>2, <1>3 DEF FreshChans, TypeOK
<1>8. Listening'
  BY <1>1, <1>2, <1>3 DEF Listening, StoreOpen, TypeOK
<1>9. Owned'
  BY <1>1, <1>2, <1>3 DEF Owned, TypeOK
<1>10. ObserverOwned'
  BY <1>1, <1>2, <1>3, <1>4 DEF ObserverOwned, TypeOK, Registered
<1> QED
  BY <1>5, <1>6, <1>7, <1>8, <1>9, <1>10

\* Every step of the node, one case per action.
LEMMA InductiveStep ==
  ASSUME IInv, [Next]_vars
  PROVE  IInv'
<1>1. CASE UNCHANGED vars
  BY <1>1
  DEF vars, IInv, TypeOK, NeverWedged, FreshChans, StoreOpen, StoreDistinct,
      Listening, Owned, ObserverOwned
<1>2. ASSUME NEW h \in Hosts, NEW c \in Configs, ApplyAssign(h, c) PROVE IInv'
  <2>1. pending' \in Snapshots
    BY <1>2 DEF ApplyAssign, IInv, TypeOK
  <2> QED BY <1>2, <2>1, PutStep DEF ApplyAssign
<1>3. ASSUME NEW h \in Hosts, NEW c \in Configs, ApplyRemove(h, c) PROVE IInv'
  BY <1>3, RemoveStep
<1>4. ASSUME NEW h \in Hosts, NEW c \in Configs, RestorePut(h, c) PROVE IInv'
  <2>1. pending' \in Snapshots
    BY <1>4 DEF RestorePut, IInv, TypeOK, Snapshots
  <2> QED BY <1>4, <2>1, PutStep DEF RestorePut
<1>5. ASSUME NEW snapshot \in Snapshots, RestoreClean(snapshot) PROVE IInv'
  BY <1>5, CleanStep
<1>6. ASSUME NEW ch \in Chans, TaskStep(ch) PROVE IInv'
  BY <1>6, TaskStepStep
<1> QED
  BY <1>1, <1>2, <1>3, <1>4, <1>5, <1>6 DEF Next

(***************************************************************************)
(* IInv is an inductive invariant of the node.                              *)
(***************************************************************************)
THEOREM Inductive == Spec => []IInv
BY InitIInv, InductiveStep, PTL DEF Spec

(***************************************************************************)
(* The store, the goroutines and the observer keep their types, and a stop  *)
(* channel is never closed twice (fsm.go:139, 154, 178), so the store's     *)
(* lock is never left held by a recovered panic.                            *)
(***************************************************************************)
THEOREM StoreSafe == Spec => [](TypeOK /\ NeverWedged)
<1>1. IInv => TypeOK /\ NeverWedged
  BY DEF IInv
<1> QED
  BY Inductive, <1>1, PTL

(***************************************************************************)
(* A config assigned to the node has exactly one goroutine that is not told *)
(* to stop, one that is not assigned has none (fsm.go:44-49, 82-86).        *)
(***************************************************************************)
THEOREM TasksFollowStore == Spec => []TasksMatchStore
<1>1. ASSUME IInv PROVE TasksMatchStore
  <2> SUFFICES ASSUME NEW c \in Configs
               PROVE  /\ Unstopped(c) = {store[Me][c]} \ {NoChan}
                      /\ \A ch \in Unstopped(c) : pc[ch] \notin {"unregister", "exit"}
    BY DEF TasksMatchStore
  <2> USE FSMAssumption, <1>1 DEF IInv, NoChan
  <2>1. ASSUME NEW ch \in Unstopped(c) PROVE ch = store[Me][c] /\ ch # 0
    BY <2>1 DEF Unstopped, Owned, Chans
  <2>2. ASSUME store[Me][c] # 0 PROVE store[Me][c] \in Unstopped(c)
    BY <2>2 DEF Unstopped, Listening, StoreOpen, TypeOK
  <2>3. \A ch \in Unstopped(c) : pc[ch] \notin {"unregister", "exit"}
    BY <2>1 DEF Listening
  <2> QED BY <2>1, <2>2, <2>3
<1> QED
  BY Inductive, <1>1, PTL

(***************************************************************************)
(* A registered client belongs to a goroutine of that config that has not   *)
(* returned (observer.go:57-74).                                            *)
(***************************************************************************)
THEOREM ObserverHoldsLiveClients == Spec => []ObserverOwned
<1>1. IInv => ObserverOwned
  BY DEF IInv
<1> QED
  BY Inductive, <1>1, PTL

-----------------------------------------------------------------------------
(***************************************************************************)
(* Under the timing assumption.  The unstopped goroutine of a config is its *)
(* newest one, and once it is past its start delay no older one is between  *)
(* its last look at stopCh and RegisterClient, so nobody can replace its    *)
(* registration any more.                                                   *)
(***************************************************************************)
NewestStored ==
  \A c \in Configs, old \in Chans :
    store[Me][c] # NoChan /\ pc[old] # "none" /\ task[old] = c => old =< store[Me][c]

DelayCovered ==
  \A ch, old \in Chans :
    pc[ch] \notin {"none", "delay"} /\ old < ch /\ task[old] = task[ch]
      => pc[old] \notin {"newclient", "register"}

TimedInv ==
  /\ IInv
  /\ NewestStored
  /\ DelayCovered
  /\ ActiveClientsVisible

\* No goroutine exists yet.
LEMMA TimedInit == Init => TimedInv
<1> SUFFICES ASSUME Init PROVE TimedInv
  OBVIOUS
<1>1. \A ch \in Chans : pc[ch] = "none"
  BY DEF Init
<1>2. NewestStored /\ DelayCovered
  BY <1>1 DEF NewestStored, DelayCovered
<1>3. ActiveClientsVisible
  BY <1>1 DEF ActiveClientsVisible, Unstopped
<1> QED
  BY <1>2, <1>3, InitIInv DEF TimedInv

\* A goroutine that is started for a config is the newest one of the config.
LEMMA TimedPut ==
  ASSUME TimedInv, IInv', NEW h \in Hosts, NEW c \in Configs, Put(h, c), startTask(h, c)
  PROVE  TimedInv'
<1> DEFINE new == made + 1
<1> USE FSMAssumption DEF TimedInv, NoChan
<1>1. made \in Nat /\ new \in Chans /\ pc[new] = "none"
  BY DEF IInv, TypeOK, Put, Chans, FreshChans
<1>2. made' = new /\ store' = [store EXCEPT ![h][c] = new] /\ closed \subseteq closed'
  BY DEF Put, CloseChan, IInv, NeverWedged
<1>3. /\ observer' = observer
      /\ h = Me => /\ pc' = [pc EXCEPT ![new] = "delay"]
                   /\ task' = [task EXCEPT ![new] = c]
      /\ h # Me => pc' = pc /\ task' = task
  BY <1>2 DEF startTask, taskVars, IInv, NeverWedged
<1>4. \A d \in Configs : store'[Me][d] = IF h = Me /\ d = c THEN new ELSE store[Me][d]
  BY <1>2 DEF IInv, TypeOK
<1>5. \A ch \in Chans : ch # new => pc'[ch] = pc[ch] /\ task'[ch] = task[ch]
  BY <1>1, <1>3 DEF IInv, TypeOK
<1>6. pc'[new] \in {"none", "delay"} /\ (h = Me => task'[new] = c)
      /\ (h # Me => pc'[new] = "none")
  BY <1>1, <1>3 DEF IInv, TypeOK
<1>7. \A ch \in Chans : pc'[ch] # "none" => ch =< new
  BY <1>2 DEF IInv, FreshChans, TypeOK, Chans
<1>8. NewestStored'
  <2> SUFFICES ASSUME NEW d \in Configs, NEW old \in Chans, store'[Me][d] # 0,
                      pc'[old] # "none", task'[old] = d
               PROVE  old =< store'[Me][d]
    BY DEF NewestStored
  <2>1. CASE h = Me /\ d = c
    BY <2>1, <1>4, <1>7
  <2>2. CASE ~(h = Me /\ d = c)
    BY <2>2, <1>4, <1>5, <1>6 DEF NewestStored
  <2> QED BY <2>1, <2>2
<1>9. DelayCovered'
  <2> SUFFICES ASSUME NEW ch \in Chans, NEW old \in Chans, pc'[ch] \notin {"none", "delay"},
                      old < ch, task'[old] = task'[ch]
               PROVE  pc'[old] \notin {"newclient", "register"}
    BY DEF DelayCovered
  <2>1. ch # new
    BY <1>6
  <2>2. CASE old = new
    BY <2>2, <1>6
  <2>3. CASE old # new
    BY <2>1, <2>3, <1>5 DEF DelayCovered
  <2> QED BY <2>2, <2>3
<1>10. ActiveClientsVisible'
  <2> SUFFICES ASSUME NEW d \in Configs, NEW ch \in Chans, pc'[ch] \in Registered,
                      task'[ch] = d, ch \notin closed'
               PROVE  observer'[d] = ch
    BY DEF ActiveClientsVisible, Unstopped
  <2>1. ch # new
    BY <1>6 DEF Registered
  <2>2. ch \in Unstopped(d) /\ pc[ch] \in Registered
    BY <2>1, <1>2, <1>5 DEF Unstopped, Registered
  <2> QED BY <2>2, <1>3 DEF ActiveClientsVisible
<1> QED
  BY <1>8, <1>9, <1>10

\* Closing channels and forgetting stored ones disturbs nothing.
LEMMA TimedStop ==
  ASSUME TimedInv, IInv', UNCHANGED taskVars, closed \subseteq closed',
         \A c \in Configs : store'[Me][c] \in {store[Me][c], NoChan}
  PROVE  TimedInv'
<1> USE DEF TimedInv, taskVars
<1>1. NewestStored'
  BY DEF NewestStored
<1>2. DelayCovered'
  BY DEF DelayCovered
<1>3. ActiveClientsVisible'
  BY DEF ActiveClientsVisible, Unstopped
<1> QED
  BY <1>1, <1>2, <1>3

\* Steps of handleTask; where a delay ends, DelayOutlastsDial is used.
LEMMA TimedTask ==
  ASSUME TimedInv, IInv', NEW me \in Chans, TaskStep(me), DelayOutlastsDial
  PROVE  TimedInv'
<1> USE FSMAssumption DEF TimedInv, NoChan
<1>1. UNCHANGED <<store, closed, made, wedged, pending, task>>
  BY DEF TaskStep, Wake, CheckStop, NewClient, RegisterClient, LoopCheck,
         DispatchEnd, BackoffEnd, UnregisterClient, RestUnchanged, storeVars
<1>2. PICK from, to \in Places :
        /\ Goto(me, from, to)
        /\ from # "none" /\ to \notin {"none", "delay"}
        /\ from = "delay" => to = "check"
        /\ to = "newclient" => me \notin closed
        /\ to = "register" => from = "newclient"
        /\ \/ /\ observer' = observer
              /\ to \in Registered => from \in Registered
           \/ /\ from = "register" /\ to = "loop"
              /\ observer' = [observer EXCEPT ![task[me]] = me]
           \/ /\ from = "unregister" /\ to = "exit"
              /\ observer' = [observer EXCEPT ![task[me]] = IF @ = me THEN 0 ELSE @]
  BY DEF TaskStep, Wake, CheckStop, NewClient, RegisterClient, LoopCheck,
         DispatchEnd, BackoffEnd, UnregisterClient, Goto, Places, Registered
<1>3. pc[me] = from /\ pc' = [pc EXCEPT ![me] = to] /\ DOMAIN pc = Chans
  BY <1>2 DEF Goto, IInv, TypeOK
<1>4. \A ch \in Chans \ {me} : pc'[ch] = pc[ch]
  BY <1>3
<1>5. pc'[me] = to
  BY <1>3
<1>6. task[me] \in Configs
  BY <1>2, <1>3 DEF IInv, Owned
<1>7. NewestStored'
  BY <1>1, <1>2, <1>3, <1>4 DEF NewestStored
<1>8. DelayCovered'
  <2> SUFFICES ASSUME NEW ch \in Chans, NEW old \in Chans, pc'[ch] \notin {"none", "delay"},
                      old < ch, task[old] = task[ch], pc'[old] \in {"newclient", "register"}
               PROVE  FALSE
    BY <1>1 DEF DelayCovered
  <2>1. old # ch
    BY DEF Chans
  <2>2. CASE old = me
    <3>1. pc[ch] \notin {"none", "delay"}
      BY <2>1, <2>2, <1>4
    <3>2. to = "newclient"
      BY <2>2, <3>1, <1>2, <1>3, <1>5 DEF DelayCovered
    <3>3. store[Me][task[me]] = me
      BY <3>2, <1>2, <1>3 DEF IInv, Owned
    <3>4. ch =< me
      BY <3>1, <3>3, <2>2, <1>6 DEF NewestStored, Chans
    <3> QED BY <3>4, <2>2 DEF Chans
  <2>3. CASE old # me /\ ch = me
    <3>1. pc[old] \in {"newclient", "register"}
      BY <2>3, <1>4
    <3>2. CASE from = "delay"
      <4>1. pc[me] = "delay" /\ pc'[me] = "check"
        BY <3>2, <1>2, <1>3, <1>5
      <4>2. old \in 1 .. me - 1
        BY <2>3 DEF Chans
      <4> QED BY <4>1, <4>2, <3>1, <2>3 DEF DelayOutlastsDial
    <3>3. CASE from # "delay"
      BY <3>1, <3>3, <2>3, <1>2, <1>3 DEF DelayCovered
    <3> QED BY <3>2, <3>3
  <2>4. CASE old # me /\ ch # me
    BY <2>4, <1>4 DEF DelayCovered
  <2> QED BY <2>2, <2>3, <2>4
<1>9. ActiveClientsVisible'
  <2> SUFFICES ASSUME NEW d \in Configs, NEW ch \in Chans, pc'[ch] \in Registered,
                      task[ch] = d, ch \notin closed
               PROVE  observer'[d] = ch
    BY <1>1 DEF ActiveClientsVisible, Unstopped
  <2>1. pc[ch] # "none" /\ store[Me][d] = ch
    BY <1>2, <1>3, <1>4 DEF IInv, Owned, Registered
  <2>2. CASE ch = me /\ from = "register"
    BY <2>2, <1>2, <1>6, <1>5 DEF IInv, TypeOK, Registered
  <2>3. CASE pc[ch] \in Registered /\ pc[ch] # "unregister"
    <3>1. observer[d] = ch
      BY <2>3 DEF ActiveClientsVisible, Unstopped, Registered
    <3>2. ASSUME from = "register", task[me] = d PROVE FALSE
      <4>1. me # ch
        BY <2>3, <3>2, <1>3 DEF Registered
      <4>2. me < ch
        BY <4>1, <2>1, <3>2, <1>2, <1>3 DEF NewestStored, Chans
      <4> QED BY <4>2, <2>3, <3>2, <1>3 DEF DelayCovered, Registered
    <3>3. ASSUME from = "unregister" PROVE me # ch
      BY <2>3, <3>3, <1>3
    <3> QED BY <3>1, <3>2, <3>3, <1>2, <1>6 DEF IInv, TypeOK
  <2>4. pc[ch] # "unregister"
    BY <2>1 DEF IInv, Listening, Chans
  <2>5. pc[ch] \in Registered \/ (ch = me /\ from = "register")
    BY <1>2, <1>3, <1>4, <1>5 DEF Registered
  <2> QED BY <2>2, <2>3, <2>4, <2>5
<1> QED
  BY <1>7, <1>8, <1>9

\* All steps under the timing assumption.
LEMMA TimedStep ==
  ASSUME TimedInv, [TimedNext]_vars
  PROVE  TimedInv'
<1>1. IInv'
  BY InductiveStep DEF TimedInv, TimedNext
<1>2. CASE UNCHANGED vars
  BY <1>1, <1>2, TimedStop DEF vars, taskVars
<1>3. ASSUME NEW h \in Hosts, NEW c \in Configs, ApplyAssign(h, c) PROVE TimedInv'
  BY <1>1, <1>3, TimedPut DEF ApplyAssign
<1>4. ASSUME NEW h \in Hosts, NEW c \in Configs, RestorePut(h, c) PROVE TimedInv'
  BY <1>1, <1>4, TimedPut DEF RestorePut
<1>5. ASSUME NEW h \in Hosts, NEW c \in Configs, ApplyRemove(h, c) PROVE TimedInv'
  <2>1. closed \subseteq closed'
    BY <1>5 DEF ApplyRemove, Remove, CloseChan
  <2>2. \A d \in Configs : store'[Me][d] \in {store[Me][d], NoChan}
    BY <1>5, FSMAssumption DEF ApplyRemove, Remove, TimedInv, IInv, TypeOK
  <2> QED BY <1>1, <1>5, <2>1, <2>2, TimedStop DEF ApplyRemove
<1>6. ASSUME NEW snapshot \in Snapshots, RestoreClean(snapshot) PROVE TimedInv'
  <2>1. closed \subseteq closed' /\ UNCHANGED taskVars
    BY <1>6 DEF RestoreClean, clean
  <2>2. \A d \in Configs : store'[Me][d] \in {store[Me][d], NoChan}
    BY <1>6, FSMAssumption DEF RestoreClean, clean
  <2> QED BY <1>1, <2>1, <2>2, TimedStop
<1>7. ASSUME NEW ch \in Chans, TaskStep(ch), DelayOutlastsDial PROVE TimedInv'
  BY <1>1, <1>7, TimedTask
<1> QED
  BY <1>2, <1>3, <1>4, <1>5, <1>6, <1>7 DEF TimedNext, Next

(***************************************************************************)
(* With a start delay longer than dialling and registering, the unstopped   *)
(* client that loops over a config is the one the observer shows for it     *)
(* (observer.go:51), however assignments, removals and restores follow.     *)
(***************************************************************************)
THEOREM ClientsVisible == TimedSpec => []ActiveClientsVisible
<1>1. TimedInv /\ [TimedNext]_vars => TimedInv'
  BY TimedStep
<1>2. TimedInv => ActiveClientsVisible
  BY DEF TimedInv
<1> QED
  BY TimedInit, <1>1, <1>2, PTL DEF TimedSpec

(***************************************************************************)
(* The same for a behaviour of the whole specification up to the first      *)
(* delay that ends too early (observer.go:51, scheduler.go:207).            *)
(***************************************************************************)
THEOREM VisibleUntilLate == LateSpec => []VisibleInTime
<1> DEFINE Inv == IInv /\ late \in BOOLEAN /\ (late \/ TimedInv)
<1>1. LateInit => Inv
  BY InitIInv, TimedInit DEF LateInit
<1>2. ASSUME Inv, [LateNext]_<<vars, late>> PROVE Inv'
  <2>1. [Next]_vars
    BY <1>2 DEF LateNext
  <2>2. IInv'
    BY <1>2, <2>1, InductiveStep
  <2>3. CASE UNCHANGED <<vars, late>>
    BY <1>2, <2>2, <2>3, TimedStep
  <2>4. CASE LateNext /\ ~late /\ DelayOutlastsDial
    <3>1. TimedInv /\ TimedNext
      BY <1>2, <2>4 DEF LateNext, TimedNext
    <3>2. TimedInv'
      BY <3>1, TimedStep
    <3> QED BY <2>2, <2>4, <3>2 DEF LateNext
  <2>5. CASE LateNext /\ (late \/ ~DelayOutlastsDial)
    BY <2>2, <2>5 DEF LateNext
  <2> QED BY <1>2, <2>3, <2>4, <2>5
<1>3. Inv => VisibleInTime
  BY DEF TimedInv, VisibleInTime
<1> QED
  BY <1>1, <1>2, <1>3, PTL DEF LateSpec

=============================================================================
