------------------------------ MODULE TTLCache ------------------------------
(***************************************************************************)
(* The TTLCache (common/cache/cache.go) that the combainer keeps its host   *)
(* lists in and the juggler sender its checks: concurrent calls of get, the *)
(* background refreshes they start, Delete and the cleaner goroutine.       *)
(*                                                                         *)
(* An item is a number of Items, given out when the fetch that will fill it *)
(* begins, so items are ordered by the age of the data they can hold.  The  *)
(* clock is not modelled: an item's deadline may pass at any moment after   *)
(* it is set, each item on its own, which also covers TuneCache and the     *)
(* unlocked read of c.ttl in a background refresh.                          *)
(***************************************************************************)
EXTENDS Naturals, FiniteSets

CONSTANTS
  Keys,       \* cache keys
  Callers,    \* goroutines that call get, one call at a time
  MaxItems    \* bound on the number of fetches begun in a behaviour

ASSUME TTLCacheAssumption ==
  /\ Keys # {} /\ IsFiniteSet(Callers)
  /\ MaxItems \in Nat

Items == 1 .. MaxItems
NoItem == 0

(***************************************************************************)
(* A call is inside f ("fetch"), about to delete the key after an error     *)
(* ("drop"), about to close the ready channel ("close"), waiting for the    *)
(* ready channel ("wait"), or it has returned: a value before its deadline, *)
(* a value past it, an error.                                               *)
(*                                                                         *)
(* An item is "none" until it is made.  "refresh": a background f runs.     *)
(* "publish": it returned a value.  "dead": it returned an error.           *)
(* "unready" and "ready" are the state of item.ready.                       *)
(***************************************************************************)
Returned == {"idle", "ok", "stale", "error"}

VARIABLES
  store,      \* TTLCache.store
  made,       \* number of items so far
  keyOf,      \* keyOf[i]: the key that item i is fetched for
  phase,      \* phase[i]: how far item i is
  age,        \* age[i]: "live", "expired", or "old" (past cleanupAfter too)
  failed,     \* the items whose err is set
  background, \* the items made by a background refresh
  pc,         \* pc[p]: where caller p is
  held,       \* held[p]: the item of p's call
  sweep,      \* staleItems, while the cleaner holds no lock
  deletedAt   \* deletedAt[k]: made at the last Delete(k) (a history variable)

itemVars == <<made, keyOf, phase, age, failed, background>>
callVars == <<pc, held>>
vars == <<store, made, keyOf, phase, age, failed, background, pc, held, sweep, deletedAt>>

Init ==
  /\ store = [k \in Keys |-> NoItem]
  /\ made = 0
  /\ keyOf = [i \in Items |-> CHOOSE k \in Keys : TRUE]
  /\ phase = [i \in Items |-> "none"]
  /\ age = [i \in Items |-> "live"]
  /\ failed = {}
  /\ background = {}
  /\ pc = [p \in Callers |-> "idle"]
  /\ held = [p \in Callers |-> NoItem]
  /\ sweep = {}
  /\ deletedAt = [k \in Keys |-> 0]

NewItem(k, ph) ==
  /\ made' = made + 1
  /\ keyOf' = [keyOf EXCEPT ![made + 1] = k]
  /\ phase' = [phase EXCEPT ![made + 1] = ph]

\* Every call that is under way may still need a number for a refresh.
Room == made + Cardinality({p \in Callers : pc[p] \notin Returned}) + 2 =< MaxItems

-----------------------------------------------------------------------------
(* A call of get *)

\* The key is absent: the caller stores an unready item and runs f itself.
GetMiss(p, k) ==
  /\ pc[p] \in Returned /\ Room
  /\ store[k] = NoItem
  /\ NewItem(k, "unready")
  /\ store' = [store EXCEPT ![k] = made + 1]
  /\ held' = [held EXCEPT ![p] = made + 1]
  /\ pc' = [pc EXCEPT ![p] = "fetch"]
  /\ UNCHANGED <<age, failed, background, sweep, deletedAt>>

\* The key is present, ready or not.
GetHit(p, k) ==
  /\ pc[p] \in Returned /\ Room
  /\ store[k] # NoItem
  /\ held' = [held EXCEPT ![p] = store[k]]
  /\ pc' = [pc EXCEPT ![p] = "wait"]
  /\ UNCHANGED <<store, itemVars, sweep, deletedAt>>

\* f returns a value, and the item is stored only then.
FetchOkStores(p) ==
  /\ pc[p] = "fetch"
  /\ store' = [store EXCEPT ![keyOf[held[p]]] = held[p]]
  /\ pc' = [pc EXCEPT ![p] = "close"]
  /\ UNCHANGED <<itemVars, held, sweep, deletedAt>>

\* f returns a value.
FetchOk(p) ==
  /\ pc[p] = "fetch"
  /\ pc' = [pc EXCEPT ![p] = "close"]
  /\ UNCHANGED <<store, itemVars, held, sweep, deletedAt>>

\* f fails and its caller returns the error at once.
FetchErrReturns(p) ==
  /\ pc[p] = "fetch"
  /\ failed' = failed \union {held[p]}
  /\ store' = [store EXCEPT ![keyOf[held[p]]] = NoItem]
  /\ pc' = [pc EXCEPT ![p] = "error"]
  /\ held' = [held EXCEPT ![p] = NoItem]
  /\ UNCHANGED <<made, keyOf, phase, age, background, sweep, deletedAt>>

\* f fails and the item stays in the store.
FetchErrKeeps(p) ==
  /\ pc[p] = "fetch"
  /\ failed' = failed \union {held[p]}
  /\ pc' = [pc EXCEPT ![p] = "close"]
  /\ UNCHANGED <<store, made, keyOf, phase, age, background, held, sweep, deletedAt>>

\* f returns an error.
FetchErr(p) ==
  /\ pc[p] = "fetch"
  /\ failed' = failed \union {held[p]}
  /\ pc' = [pc EXCEPT ![p] = "drop"]
  /\ UNCHANGED <<store, made, keyOf, phase, age, background, held, sweep, deletedAt>>

\* delete(c.store, key): whatever item the key has by now goes.
DropFailed(p) ==
  /\ pc[p] = "drop"
  /\ store' = [store EXCEPT ![keyOf[held[p]]] = NoItem]
  /\ pc' = [pc EXCEPT ![p] = "close"]
  /\ UNCHANGED <<itemVars, held, sweep, deletedAt>>

\* close(item.ready)
CloseReady(p) ==
  /\ pc[p] = "close"
  /\ phase' = [phase EXCEPT ![held[p]] = "ready"]
  /\ pc' = [pc EXCEPT ![p] = "wait"]
  /\ UNCHANGED <<store, made, keyOf, age, failed, background, held, sweep, deletedAt>>

\* What a call that holds item i returns.
Answer(i) == IF i \in failed THEN "error" ELSE IF age[i] = "live" THEN "ok" ELSE "stale"

\* <-item.ready; an item past its deadline is returned all the same, and a
\* background refresh is started.
Return(p) ==
  /\ pc[p] = "wait"
  /\ phase[held[p]] = "ready"
  /\ pc' = [pc EXCEPT ![p] = Answer(held[p])]
  /\ IF age[held[p]] = "live"
     THEN UNCHANGED itemVars
     ELSE /\ NewItem(keyOf[held[p]], "refresh")
          /\ background' = background \union {made + 1}
          /\ UNCHANGED <<age, failed>>
  /\ held' = [held EXCEPT ![p] = NoItem]
  /\ UNCHANGED <<store, sweep, deletedAt>>

-----------------------------------------------------------------------------
(* The background refresh that fills item i *)

\* f returns: an error ends the goroutine and the store keeps what it has.
RefreshEnd(i) ==
  /\ phase[i] = "refresh"
  /\ \E ph \in {"publish", "dead"} : phase' = [phase EXCEPT ![i] = ph]
  /\ UNCHANGED <<store, made, keyOf, age, failed, background, callVars, sweep, deletedAt>>

\* c.store[key] = updated, over whatever item the key has by now.
RefreshPublish(i) ==
  /\ phase[i] = "publish"
  /\ store' = [store EXCEPT ![keyOf[i]] = i]
  /\ phase' = [phase EXCEPT ![i] = "unready"]
  /\ UNCHANGED <<made, keyOf, age, failed, background, callVars, sweep, deletedAt>>

\* close(updated.ready)
RefreshReady(i) ==
  /\ phase[i] = "unready" /\ i \in background
  /\ phase' = [phase EXCEPT ![i] = "ready"]
  /\ UNCHANGED <<store, made, keyOf, age, failed, background, callVars, sweep, deletedAt>>

-----------------------------------------------------------------------------
(* Delete, the cleaner, and time *)

Delete(k) ==
  /\ store' = [store EXCEPT ![k] = NoItem]
  /\ deletedAt' = [deletedAt EXCEPT ![k] = made]
  /\ UNCHANGED <<itemVars, callVars, sweep>>

\* A cleaner that takes the items past their deadline, but not the old ones.
CleanerSkipsOld ==
  /\ sweep = {}
  /\ sweep' = {k \in Keys : store[k] # NoItem /\ age[store[k]] = "expired"}
  /\ UNCHANGED <<store, itemVars, callVars, deletedAt>>

\* The cleaner collects keys under the read lock, and releases it ...
CleanerCollect ==
  /\ sweep = {}
  /\ sweep' = {k \in Keys : store[k] # NoItem /\ age[store[k]] = "old"}
  /\ UNCHANGED <<store, itemVars, callVars, deletedAt>>

\* ... and deletes those keys under the write lock.
CleanerDelete ==
  /\ sweep # {}
  /\ store' = [k \in Keys |-> IF k \in sweep THEN NoItem ELSE store[k]]
  /\ sweep' = {}
  /\ UNCHANGED <<itemVars, callVars, deletedAt>>

\* Somebody can look at item i's deadline.
Reachable(i) ==
  \/ \E k \in Keys : store[k] = i
  \/ \E p \in Callers : held[p] = i

\* The deadline of item i, or cleanupAfter after it, passes.
Expire(i) ==
  /\ Reachable(i)
  /\ age[i] # "old"
  /\ age' = [age EXCEPT ![i] = IF @ = "live" THEN "expired" ELSE "old"]
  /\ UNCHANGED <<store, made, keyOf, phase, failed, background, callVars, sweep, deletedAt>>

CallStep(p) ==
  FetchOk(p) \/ FetchErr(p) \/ DropFailed(p) \/ CloseReady(p) \/ Return(p)

RefreshStep(i) == RefreshEnd(i) \/ RefreshPublish(i) \/ RefreshReady(i)

Next ==
  \/ \E p \in Callers, k \in Keys : GetMiss(p, k) \/ GetHit(p, k)
  \/ \E p \in Callers : CallStep(p)
  \/ \E i \in Items : RefreshStep(i) \/ Expire(i)
  \/ \E k \in Keys : Delete(k)
  \/ CleanerCollect
  \/ CleanerDelete

(***************************************************************************)
(* Goroutines that can run do run, f returns (every fetcher of the system   *)
(* is an HTTP or ZooKeeper request with a deadline) and the cleaner's sleep *)
(* ends.  Nobody need call get or Delete, and time need not pass.           *)
(***************************************************************************)
Fairness ==
  /\ \A p \in Callers : WF_vars(CallStep(p))
  /\ \A i \in Items : WF_vars(RefreshStep(i))
  /\ WF_vars(CleanerCollect)
  /\ WF_vars(CleanerDelete)

Spec == Init /\ [][Next]_vars

FairSpec == Spec /\ Fairness

-----------------------------------------------------------------------------
(* Properties *)

(***************************************************************************)
(* An error reaches the calls that were waiting for that very fetch and is  *)
(* not cached for later ones: the failed item is out of the store before    *)
(* its ready channel is closed (cache.go:67-72), although refreshes, the    *)
(* cleaner and Delete change the key's item meanwhile.                      *)
(***************************************************************************)
ErrorsNotCached ==
  \A k \in Keys : store[k] \in failed => phase[store[k]] # "ready"

(***************************************************************************)
(* Once Delete(k) has run, the store does not hand out an item that a get   *)
(* began to fetch before it (the juggler sender deletes a host's checks     *)
(* because it has just changed them, api.go:262-270).  Only a background    *)
(* refresh in flight can bring older data back.                             *)
(***************************************************************************)
DeleteForgets ==
  \A k \in Keys :
    store[k] # NoItem /\ store[k] =< deletedAt[k] => store[k] \in background

(***************************************************************************)
(* Every call of get returns: whoever created the item closes its ready     *)
(* channel, on the error path too, and even if the item has left the store. *)
(***************************************************************************)
EveryGetReturns == \A p \in Callers : []<>(pc[p] \in Returned)

\* An item that is past cleanupAfter does not stay in the store
\* (cache.go:156-169).
OldItemsLeave ==
  \A i \in Items : []<>(\A k \in Keys : ~(store[k] = i /\ age[i] = "old"))

(***************************************************************************)
(* "Get return not expired element from cacahe or nil" (cache.go:55).  The  *)
(* code returns the expired element and refreshes it in the background.     *)
(***************************************************************************)
GetReturnsNotExpired == \A p \in Callers : pc[p] # "stale"

=============================================================================
