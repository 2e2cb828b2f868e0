--------------------------- MODULE TTLCacheProofs ---------------------------
(***************************************************************************)
(* Proofs about TTLCache for any keys, callers and number of fetches: an    *)
(* error is not cached, and Delete forgets what get calls had fetched.      *)
(*                                                                         *)
(* Neither property is inductive: both rest on who may still touch an item. *)
(* An item that a call fetches belongs to that call alone until its ready   *)
(* channel is closed, and only the items of background refreshes enter the  *)
(* store later than they are made.                                          *)
(***************************************************************************)
EXTENDS TTLCache, FiniteSetTheorems, TLAPS

\* The calls that are under way.
Busy == {p \in Callers : pc[p] \notin Returned}

\* A call that works on the item it has made itself.
Owns(p) == pc[p] \in {"fetch", "drop", "close"}

TypeInv ==
  /\ store \in [Keys -> 0 .. made]
  /\ made \in 0 .. MaxItems
  /\ keyOf \in [Items -> Keys]
  /\ phase \in [Items -> {"none", "refresh", "publish", "dead", "unready", "ready"}]
  /\ age \in [Items -> {"live", "expired", "old"}]
  /\ failed \subseteq 1 .. made
  /\ background \subseteq 1 .. made
  /\ pc \in [Callers -> {"fetch", "drop", "close", "wait"} \union Returned]
  /\ held \in [Callers -> 0 .. made]
  /\ sweep \subseteq Keys
  /\ deletedAt \in [Keys -> 0 .. made]

\* The bound on fetches leaves a number for every call under way.
RoomInv == made + Cardinality(Busy) =< MaxItems

\* Items that are not made yet, items in the store, and refreshes.
ItemInv ==
  /\ \A i \in Items : i > made => phase[i] = "none"
  /\ \A k \in Keys : store[k] # NoItem =>
       keyOf[store[k]] = k /\ phase[store[k]] \in {"unready", "ready"}
  /\ \A i \in Items : phase[i] \in {"refresh", "publish", "dead"} => i \in background
  /\ failed \intersect background = {}

\* The items that calls hold: an item in the making has one owner.
CallInv ==
  /\ \A p \in Callers : pc[p] \notin Returned => held[p] # NoItem
  /\ \A p \in Callers : Owns(p) => phase[held[p]] = "unready" /\ held[p] \notin background
  /\ \A p, q \in Callers : Owns(p) /\ Owns(q) /\ held[p] = held[q] => p = q

\* Where a failed fetch leaves its item.
FailInv ==
  /\ \A p \in Callers : pc[p] = "fetch" => held[p] \notin failed
  /\ \A p \in Callers : pc[p] = "close" /\ held[p] \in failed =>
       \A k \in Keys : store[k] # held[p]

IInv ==
  /\ TypeInv /\ RoomInv /\ ItemInv /\ CallInv /\ FailInv
  /\ ErrorsNotCached /\ DeleteForgets

-----------------------------------------------------------------------------
(* The calls under way *)

\* How a step of caller p changes their number.
LEMMA BusyCount ==
  ASSUME TypeInv, NEW p \in Callers, NEW place, pc' = [pc EXCEPT ![p] = place]
  PROVE  /\ Cardinality(Busy) \in Nat
         /\ pc[p] \notin Returned /\ place \notin Returned =>
              Cardinality(Busy') = Cardinality(Busy)
         /\ pc[p] \in Returned /\ place \notin Returned =>
              Cardinality(Busy') = Cardinality(Busy) + 1
         /\ pc[p] \notin Returned /\ place \in Returned =>
              Cardinality(Busy') = Cardinality(Busy) - 1
<1>1. IsFiniteSet(Busy)
  BY TTLCacheAssumption, FS_Subset DEF Busy
<1>2. Cardinality(Busy) \in Nat
  BY <1>1, FS_CardinalityType
<1>3. ASSUME pc[p] \notin Returned, place \notin Returned PROVE Busy' = Busy
  BY <1>3 DEF Busy, TypeInv
<1>4. ASSUME pc[p] \in Returned, place \notin Returned
      PROVE  Cardinality(Busy') = Cardinality(Busy) + 1
  <2>1. Busy' = Busy \union {p} /\ p \notin Busy
    BY <1>4 DEF Busy, TypeInv
  <2> QED BY <1>1, <2>1, FS_AddElement
<1>5. ASSUME pc[p] \notin Returned, place \in Returned
      PROVE  Cardinality(Busy') = Cardinality(Busy) - 1
  <2>1. Busy' = Busy \ {p} /\ p \in Busy
    BY <1>5 DEF Busy, TypeInv
  <2> QED BY <1>1, <2>1, FS_RemoveElement
<1> QED
  BY <1>2, <1>3, <1>4, <1>5

\* They stay the same when pc does.
LEMMA BusySame == ASSUME pc' = pc PROVE Cardinality(Busy') = Cardinality(Busy)
BY DEF Busy

\* A call under way holds an item that was made.
LEMMA HeldItem ==
  ASSUME IInv, NEW p \in Callers, pc[p] \notin Returned
  PROVE  /\ made \in Nat
         /\ held[p] \in 1 .. made /\ held[p] \in Items
         /\ keyOf[held[p]] \in Keys
<1>1. made \in 0 .. MaxItems /\ held[p] \in 0 .. made /\ held[p] # 0
  BY DEF IInv, TypeInv, CallInv, NoItem
<1>2. held[p] \in 1 .. made /\ held[p] \in 1 .. MaxItems /\ made \in Nat
  BY <1>1, TTLCacheAssumption
<1> QED
  BY <1>2 DEF IInv, TypeInv, Items

-----------------------------------------------------------------------------
(* The actions *)

LEMMA InitIInv == Init => IInv
<1> SUFFICES ASSUME Init PROVE IInv
  OBVIOUS
<1>1. Busy = {}
  BY DEF Init, Busy, Returned
<1>2. Cardinality(Busy) = 0
  BY <1>1, FS_EmptySet
<1>3. \A i \in Items : keyOf[i] \in Keys
  BY TTLCacheAssumption DEF Init
<1>4. TypeInv
  BY <1>3, TTLCacheAssumption DEF Init, TypeInv, Items, NoItem, Returned
<1> QED
  BY <1>2, <1>4, TTLCacheAssumption
  DEF Init, IInv, RoomInv, ItemInv, CallInv, FailInv, Owns, ErrorsNotCached,
      DeleteForgets, NoItem, Returned

\* A miss makes an item that nobody else knows.
LEMMA GetMissStep ==
  ASSUME IInv, NEW p \in Callers, NEW k \in Keys, GetMiss(p, k) PROVE IInv'
<1>1. TypeInv /\ RoomInv /\ ItemInv /\ CallInv /\ FailInv /\ ErrorsNotCached /\ DeleteForgets
  BY DEF IInv
<1>2. made + Cardinality(Busy) + 2 =< MaxItems /\ Cardinality(Busy) \in Nat
  BY <1>1, BusyCount DEF GetMiss, Room, Busy
<1>3. made + 1 \in Items /\ made \in Nat
  BY <1>1, <1>2, TTLCacheAssumption DEF TypeInv, Items
<1>4. TypeInv'
  <2>1. 0 .. made \subseteq 0 .. made' /\ 1 .. made \subseteq 1 .. made' /\ made' \in 0 .. MaxItems
    BY <1>2, <1>3, TTLCacheAssumption DEF GetMiss, NewItem
  <2>2. made + 1 \in 0 .. made'
    BY <1>3 DEF GetMiss, NewItem
  <2> QED
    BY <1>1, <1>3, <2>1, <2>2 DEF GetMiss, NewItem, TypeInv
<1>5. RoomInv'
  <2>1. Cardinality(Busy') = Cardinality(Busy) + 1
    <3>1. pc' = [pc EXCEPT ![p] = "fetch"] /\ pc[p] \in Returned /\ "fetch" \notin Returned
      BY DEF GetMiss, Returned
    <3> QED BY <1>1, <3>1, BusyCount
  <2> QED
    BY <1>2, <1>3, <2>1, TTLCacheAssumption DEF GetMiss, NewItem, RoomInv
<1>6. ItemInv'
  BY <1>1, <1>3 DEF GetMiss, NewItem, TypeInv, ItemInv, Items, NoItem
<1>7. CallInv'
  BY <1>1, <1>3 DEF GetMiss, NewItem, TypeInv, ItemInv, CallInv, Owns, Items, NoItem, Returned
<1>8. FailInv'
  BY <1>1, <1>3 DEF GetMiss, NewItem, TypeInv, FailInv, CallInv, Owns, Items, NoItem, Returned
<1>9. ErrorsNotCached' /\ DeleteForgets'
  BY <1>1, <1>3 DEF GetMiss, NewItem, TypeInv, ErrorsNotCached, DeleteForgets, Items, NoItem
<1> QED
  BY <1>4, <1>5, <1>6, <1>7, <1>8, <1>9 DEF IInv

LEMMA GetHitStep ==
  ASSUME IInv, NEW p \in Callers, NEW k \in Keys, GetHit(p, k) PROVE IInv'
<1>1. TypeInv /\ RoomInv /\ ItemInv /\ CallInv /\ FailInv /\ ErrorsNotCached /\ DeleteForgets
  BY DEF IInv
<1>2. TypeInv'
  BY <1>1 DEF GetHit, itemVars, TypeInv
<1>3. RoomInv'
  <2>1. made + Cardinality(Busy) + 2 =< MaxItems
    BY DEF GetHit, Room, Busy
  <2>2. Cardinality(Busy) \in Nat /\ Cardinality(Busy') = Cardinality(Busy) + 1
    <3>1. pc' = [pc EXCEPT ![p] = "wait"] /\ pc[p] \in Returned /\ "wait" \notin Returned
      BY DEF GetHit, Returned
    <3> QED BY <1>1, <3>1, BusyCount
  <2> QED
    BY <1>1, <2>1, <2>2, TTLCacheAssumption DEF GetHit, itemVars, RoomInv, TypeInv
<1>4. CallInv'
  BY <1>1 DEF GetHit, itemVars, TypeInv, CallInv, Owns, Returned
<1>5. ItemInv' /\ FailInv'
  BY <1>1 DEF GetHit, itemVars, TypeInv, ItemInv, FailInv, Returned
<1>6. ErrorsNotCached' /\ DeleteForgets'
  BY <1>1 DEF GetHit, itemVars, ErrorsNotCached, DeleteForgets
<1> QED
  BY <1>2, <1>3, <1>4, <1>5, <1>6 DEF IInv

\* The steps of a call that works on its own item.
LEMMA OwnerRoom ==
  ASSUME IInv, NEW p \in Callers, Owns(p), NEW place \in {"drop", "close", "wait"},
         pc' = [pc EXCEPT ![p] = place], made' = made
  PROVE  RoomInv'
<1>1. pc[p] \notin Returned /\ place \notin Returned
  BY DEF Owns, Returned
<1>2. Cardinality(Busy') = Cardinality(Busy)
  BY <1>1, BusyCount DEF IInv
<1> QED
  BY <1>2 DEF IInv, RoomInv

LEMMA FetchOkStep == ASSUME IInv, NEW p \in Callers, FetchOk(p) PROVE IInv'
<1>1. TypeInv /\ ItemInv /\ CallInv /\ FailInv /\ ErrorsNotCached /\ DeleteForgets
  BY DEF IInv
<1>2. RoomInv'
  BY OwnerRoom DEF FetchOk, itemVars, Owns
<1>3. TypeInv' /\ ItemInv'
  BY <1>1 DEF FetchOk, itemVars, TypeInv, ItemInv
<1>4. CallInv' /\ FailInv'
  BY <1>1 DEF FetchOk, itemVars, TypeInv, CallInv, FailInv, Owns, Returned
<1> QED
  BY <1>1, <1>2, <1>3, <1>4 DEF FetchOk, itemVars, IInv, ErrorsNotCached, DeleteForgets

LEMMA FetchErrStep == ASSUME IInv, NEW p \in Callers, FetchErr(p) PROVE IInv'
<1>1. TypeInv /\ ItemInv /\ CallInv /\ FailInv /\ ErrorsNotCached /\ DeleteForgets
  BY DEF IInv
<1>2. /\ held[p] \in 1 .. made
      /\ phase[held[p]] = "unready" /\ held[p] \notin background
      /\ \A q \in Callers : Owns(q) /\ held[q] = held[p] => q = p
  BY <1>1, HeldItem DEF FetchErr, CallInv, Owns, Returned
<1>3. RoomInv'
  BY OwnerRoom DEF FetchErr, Owns
<1>4. TypeInv'
  BY <1>1, <1>2 DEF FetchErr, TypeInv
<1>7. ItemInv'
  BY <1>1, <1>2 DEF FetchErr, ItemInv
<1>5. CallInv' /\ FailInv'
  BY <1>1, <1>2 DEF FetchErr, TypeInv, CallInv, FailInv, Owns, Returned
<1>6. ErrorsNotCached' /\ DeleteForgets'
  BY <1>1, <1>2 DEF FetchErr, ErrorsNotCached, DeleteForgets
<1> QED
  BY <1>3, <1>4, <1>5, <1>6, <1>7 DEF IInv

\* The item that failed leaves the store; so may a newer one of its key.
LEMMA DropFailedStep == ASSUME IInv, NEW p \in Callers, DropFailed(p) PROVE IInv'
<1>1. TypeInv /\ ItemInv /\ CallInv /\ FailInv /\ ErrorsNotCached /\ DeleteForgets
  BY DEF IInv
<1>2. made \in Nat /\ held[p] \in 1 .. made /\ keyOf[held[p]] \in Keys
  BY HeldItem DEF DropFailed, Returned
<1>3. \A k \in Keys : store'[k] # held[p]
  BY <1>1, <1>2 DEF DropFailed, TypeInv, ItemInv, NoItem
<1>4. \A k \in Keys : store'[k] \in {store[k], NoItem}
  BY <1>1, <1>2 DEF DropFailed, TypeInv
<1>5. RoomInv'
  BY OwnerRoom DEF DropFailed, itemVars, Owns
<1>6. TypeInv'
  <2>1. 0 \in 0 .. made
    BY <1>2
  <2> QED BY <1>1, <2>1 DEF DropFailed, itemVars, TypeInv, NoItem
<1>7. ItemInv'
  BY <1>1, <1>4 DEF DropFailed, itemVars, ItemInv
<1>8. CallInv'
  BY <1>1 DEF DropFailed, itemVars, TypeInv, CallInv, Owns, Returned
<1>9. FailInv'
  BY <1>1, <1>3, <1>4 DEF DropFailed, itemVars, TypeInv, FailInv, CallInv, NoItem, Returned
<1>10. ErrorsNotCached' /\ DeleteForgets'
  BY <1>1, <1>4 DEF DropFailed, itemVars, TypeInv, ErrorsNotCached, DeleteForgets, NoItem
<1> QED
  BY <1>5, <1>6, <1>7, <1>8, <1>9, <1>10 DEF IInv

\* A failed item is out of the store when its ready channel is closed.
LEMMA CloseReadyStep == ASSUME IInv, NEW p \in Callers, CloseReady(p) PROVE IInv'
<1>1. TypeInv /\ ItemInv /\ CallInv /\ FailInv /\ ErrorsNotCached /\ DeleteForgets
  BY DEF IInv
<1>2. /\ held[p] \in 1 .. made /\ held[p] \in Items
      /\ phase[held[p]] = "unready" /\ held[p] \notin background
      /\ \A q \in Callers : Owns(q) /\ held[q] = held[p] => q = p
  BY <1>1, HeldItem DEF CloseReady, CallInv, Owns, Returned
<1>3. RoomInv'
  BY OwnerRoom DEF CloseReady, Owns
<1>4. TypeInv'
  BY <1>1, <1>2 DEF CloseReady, TypeInv
<1>5. ItemInv'
  BY <1>1, <1>2 DEF CloseReady, TypeInv, ItemInv
<1>6. CallInv' /\ FailInv'
  BY <1>1, <1>2 DEF CloseReady, TypeInv, CallInv, FailInv, Owns, Returned
<1>7. ErrorsNotCached' /\ DeleteForgets'
  BY <1>1, <1>2 DEF CloseReady, TypeInv, FailInv, ErrorsNotCached, DeleteForgets
<1> QED
  BY <1>3, <1>4, <1>5, <1>6, <1>7 DEF IInv

\* A call returns; if its item is past the deadline it starts a refresh.
LEMMA ReturnStep == ASSUME IInv, NEW p \in Callers, Return(p) PROVE IInv'
<1>1. TypeInv /\ RoomInv /\ ItemInv /\ CallInv /\ FailInv /\ ErrorsNotCached /\ DeleteForgets
  BY DEF IInv
<1>2. held[p] \in 1 .. made /\ held[p] \in Items /\ made \in Nat
  BY HeldItem DEF Return, Returned
<1>3. Cardinality(Busy) \in Nat /\ Cardinality(Busy') = Cardinality(Busy) - 1
  <2>1. /\ pc' = [pc EXCEPT ![p] = Answer(held[p])]
        /\ pc[p] \notin Returned /\ Answer(held[p]) \in Returned
    BY DEF Return, Answer, Returned
  <2> QED BY <1>1, <2>1, BusyCount
<1>4. Busy # {}
  BY DEF Return, Busy, Returned
<1>5. Cardinality(Busy) > 0
  <2>1. IsFiniteSet(Busy)
    BY TTLCacheAssumption, FS_Subset DEF Busy
  <2> QED BY <1>3, <1>4, <2>1, FS_EmptySet
<1>6. made + 1 \in Items
  BY <1>1, <1>2, <1>3, <1>5, TTLCacheAssumption DEF RoomInv, Items
<1>7. /\ pc' = [pc EXCEPT ![p] = Answer(held[p])] /\ Answer(held[p]) \in Returned
      /\ held' = [held EXCEPT ![p] = NoItem] /\ pc[p] = "wait"
      /\ UNCHANGED <<store, sweep, deletedAt>>
  BY DEF Return, Answer, Returned
<1>8. CASE UNCHANGED itemVars
  <2>1. TypeInv'
    BY <1>1, <1>7, <1>8 DEF itemVars, TypeInv, NoItem
  <2>2. RoomInv'
    BY <1>1, <1>2, <1>3, <1>8, TTLCacheAssumption DEF itemVars, RoomInv
  <2>3. ItemInv' /\ CallInv' /\ FailInv'
    BY <1>1, <1>7, <1>8 DEF itemVars, TypeInv, ItemInv, CallInv, FailInv, Owns, Returned
  <2> QED
    BY <1>1, <1>7, <1>8, <2>1, <2>2, <2>3
    DEF itemVars, IInv, ErrorsNotCached, DeleteForgets
<1>9. CASE /\ NewItem(keyOf[held[p]], "refresh")
           /\ background' = background \union {made + 1}
           /\ UNCHANGED <<age, failed>>
  <2>1. TypeInv'
    <3>1. /\ 0 .. made \subseteq 0 .. made' /\ 1 .. made \subseteq 1 .. made'
          /\ made' \in 0 .. MaxItems /\ made + 1 \in 1 .. made' /\ 0 \in 0 .. made'
      BY <1>2, <1>6, <1>9, TTLCacheAssumption DEF NewItem, Items
    <3> QED
      BY <1>1, <1>2, <1>6, <1>7, <1>9, <3>1 DEF NewItem, TypeInv, NoItem
  <2>2. RoomInv'
    BY <1>1, <1>2, <1>3, <1>9, TTLCacheAssumption DEF NewItem, RoomInv
  <2>3. ItemInv'
    BY <1>1, <1>2, <1>6, <1>7, <1>9 DEF NewItem, TypeInv, ItemInv, Items, NoItem
  <2>4. CallInv'
    BY <1>1, <1>2, <1>6, <1>7, <1>9 DEF NewItem, TypeInv, ItemInv, CallInv, Owns, Items, Returned
  <2>5. FailInv'
    BY <1>1, <1>7, <1>9 DEF NewItem, TypeInv, FailInv, Returned
  <2>6. ErrorsNotCached' /\ DeleteForgets'
    BY <1>1, <1>2, <1>6, <1>7, <1>9 DEF NewItem, TypeInv, ErrorsNotCached, DeleteForgets
  <2> QED
    BY <2>1, <2>2, <2>3, <2>4, <2>5, <2>6 DEF IInv
<1> QED
  BY <1>8, <1>9 DEF Return

\* The steps of a refresh, of time and of the cleaner's first half: items
\* enter the store only from a background refresh.
LEMMA RefreshEndStep == ASSUME IInv, NEW i \in Items, RefreshEnd(i) PROVE IInv'
<1>1. TypeInv /\ RoomInv /\ ItemInv /\ CallInv /\ FailInv /\ ErrorsNotCached /\ DeleteForgets
  BY DEF IInv
<1>2. \A j \in Items : phase'[j] # phase[j] =>
        /\ phase[j] = "refresh" /\ phase'[j] \in {"publish", "dead"}
        /\ j \in background
  BY <1>1 DEF RefreshEnd, TypeInv, ItemInv
<1>3. TypeInv' /\ RoomInv'
  BY <1>1, BusySame DEF RefreshEnd, callVars, TypeInv, RoomInv
<1>4. 1 .. made \subseteq Items /\ made \in Nat
  BY <1>1, TTLCacheAssumption DEF TypeInv, Items
<1>5. ItemInv'
  BY <1>1, <1>2, <1>4 DEF RefreshEnd, TypeInv, ItemInv, NoItem
<1>6. CallInv' /\ FailInv'
  BY <1>1, <1>2, HeldItem DEF RefreshEnd, callVars, CallInv, FailInv, Owns, Returned
<1>7. ErrorsNotCached' /\ DeleteForgets'
  BY <1>1, <1>2, <1>4 DEF RefreshEnd, TypeInv, ErrorsNotCached, DeleteForgets
<1> QED
  BY <1>3, <1>5, <1>6, <1>7 DEF IInv

LEMMA RefreshPublishStep == ASSUME IInv, NEW i \in Items, RefreshPublish(i) PROVE IInv'
<1>1. TypeInv /\ RoomInv /\ ItemInv /\ CallInv /\ FailInv /\ ErrorsNotCached /\ DeleteForgets
  BY DEF IInv
<1>2. i \in background /\ i \notin failed /\ i \in 1 .. made
  BY <1>1 DEF RefreshPublish, TypeInv, ItemInv
<1>3. 1 .. made \subseteq Items /\ 1 .. made \subseteq 0 .. made /\ made \in Nat
  BY <1>1, TTLCacheAssumption DEF TypeInv, Items
<1>4. TypeInv' /\ RoomInv'
  BY <1>1, <1>2, <1>3, BusySame DEF RefreshPublish, callVars, TypeInv, RoomInv
<1>5. ItemInv'
  BY <1>1, <1>2, <1>3 DEF RefreshPublish, TypeInv, ItemInv, NoItem
<1>6. CallInv'
  BY <1>1, <1>2, HeldItem DEF RefreshPublish, callVars, TypeInv, CallInv, Owns, Returned
<1>7. FailInv'
  BY <1>1, <1>2 DEF RefreshPublish, callVars, TypeInv, FailInv
<1>8. ErrorsNotCached' /\ DeleteForgets'
  BY <1>1, <1>2, <1>3 DEF RefreshPublish, TypeInv, ErrorsNotCached, DeleteForgets
<1> QED
  BY <1>4, <1>5, <1>6, <1>7, <1>8 DEF IInv

LEMMA RefreshReadyStep == ASSUME IInv, NEW i \in Items, RefreshReady(i) PROVE IInv'
<1>1. TypeInv /\ RoomInv /\ ItemInv /\ CallInv /\ FailInv /\ ErrorsNotCached /\ DeleteForgets
  BY DEF IInv
<1>2. i \in background /\ i \notin failed /\ i \in 1 .. made
  BY <1>1 DEF RefreshReady, TypeInv, ItemInv
<1>3. 1 .. made \subseteq Items /\ made \in Nat
  BY <1>1, TTLCacheAssumption DEF TypeInv, Items
<1>4. TypeInv' /\ RoomInv'
  BY <1>1, BusySame DEF RefreshReady, callVars, TypeInv, RoomInv
<1>5. ItemInv'
  BY <1>1, <1>2, <1>3 DEF RefreshReady, TypeInv, ItemInv, NoItem
<1>6. CallInv' /\ FailInv'
  BY <1>1, <1>2, HeldItem DEF RefreshReady, callVars, TypeInv, CallInv, FailInv, Owns, Returned
<1>7. ErrorsNotCached' /\ DeleteForgets'
  BY <1>1, <1>2, <1>3 DEF RefreshReady, TypeInv, ErrorsNotCached, DeleteForgets
<1> QED
  BY <1>4, <1>5, <1>6, <1>7 DEF IInv

\* The steps that leave items and calls alone, and take from the store at
\* most.
LEMMA StoreShrinks ==
  ASSUME IInv, UNCHANGED <<made, keyOf, phase, failed, background, callVars>>,
         age' \in [Items -> {"live", "expired", "old"}],
         store' \in [Keys -> 0 .. made],
         \A k \in Keys : store'[k] \in {store[k], NoItem},
         sweep' \subseteq Keys, deletedAt' \in [Keys -> 0 .. made],
         \A k \in Keys : deletedAt'[k] = deletedAt[k] \/ store'[k] = NoItem
  PROVE  IInv'
<1>1. TypeInv /\ RoomInv /\ ItemInv /\ CallInv /\ FailInv /\ ErrorsNotCached /\ DeleteForgets
  BY DEF IInv
<1>2. TypeInv' /\ RoomInv'
  BY <1>1, BusySame DEF callVars, TypeInv, RoomInv
<1>3. ItemInv'
  BY <1>1 DEF ItemInv
<1>4. CallInv'
  BY <1>1 DEF callVars, CallInv, Owns
<1>5. FailInv'
  BY <1>1, HeldItem DEF callVars, FailInv, NoItem, Returned
<1>6. 0 \notin failed
  BY <1>1 DEF TypeInv
<1>7. ErrorsNotCached'
  BY <1>1, <1>6 DEF ErrorsNotCached, NoItem
<1>8. DeleteForgets'
  BY <1>1 DEF DeleteForgets
<1> QED
  BY <1>2, <1>3, <1>4, <1>5, <1>7, <1>8 DEF IInv

\* Every step, one case per action.
LEMMA InductiveStep == ASSUME IInv, [Next]_vars PROVE IInv'
<1>1. made \in Nat /\ 0 \in 0 .. made /\ made \in 0 .. made
  BY TTLCacheAssumption DEF IInv, TypeInv
<1>2. TypeInv
  BY DEF IInv
<1>3. CASE UNCHANGED vars
  BY <1>2, <1>3, StoreShrinks DEF vars, callVars, TypeInv
<1>4. ASSUME NEW p \in Callers, CallStep(p) PROVE IInv'
  BY <1>4, FetchOkStep, FetchErrStep, DropFailedStep, CloseReadyStep, ReturnStep DEF CallStep
<1>5. ASSUME NEW i \in Items, RefreshStep(i) PROVE IInv'
  BY <1>5, RefreshEndStep, RefreshPublishStep, RefreshReadyStep DEF RefreshStep
<1>6. ASSUME NEW i \in Items, Expire(i) PROVE IInv'
  BY <1>2, <1>6, StoreShrinks DEF Expire, callVars, TypeInv
<1>7. ASSUME NEW k \in Keys, Delete(k) PROVE IInv'
  BY <1>1, <1>2, <1>7, StoreShrinks DEF Delete, itemVars, callVars, TypeInv, NoItem
<1>8. CASE CleanerCollect
  BY <1>2, <1>8, StoreShrinks DEF CleanerCollect, itemVars, callVars, TypeInv
<1>9. CASE CleanerDelete
  BY <1>1, <1>2, <1>9, StoreShrinks DEF CleanerDelete, itemVars, callVars, TypeInv, NoItem
<1> QED
  BY <1>3, <1>4, <1>5, <1>6, <1>7, <1>8, <1>9, GetMissStep, GetHitStep DEF Next

(***************************************************************************)
(* An error is never cached: a failed item is out of the store before its   *)
(* ready channel is closed, whatever refreshes, Delete and the cleaner do   *)
(* meanwhile (cache.go:67-72).                                              *)
(***************************************************************************)
THEOREM NoErrorIsCached == Spec => []ErrorsNotCached
BY InitIInv, InductiveStep, PTL DEF Spec, IInv

(***************************************************************************)
(* After Delete(k) the store holds no item that a call of get had begun to  *)
(* fetch before; only a background refresh brings older data back           *)
(* (cache.go:79-95, 140-145).                                               *)
(***************************************************************************)
THEOREM DeleteIsFinal == Spec => []DeleteForgets
BY InitIInv, InductiveStep, PTL DEF Spec, IInv

=============================================================================
