---------------------------- MODULE QueueProofs -----------------------------
(***************************************************************************)
(* Proofs about module Queue, for any items, waiters and keys.             *)
(*                                                                         *)
(* The counters and the lists are one half of the inductive invariant: the *)
(* short cuts miss no match because the counters are exact.  The other     *)
(* half ties an item's memory and the list it is in to what has become of  *)
(* it: a listed item is pending, allocated, marked inserted and listed     *)
(* once, and one that was taken is not listed.                             *)
(***************************************************************************)
EXTENDS Queue, QueueOpsProofs

\* An item is new exactly as long as it has no memory.
MemoryMatchesFate ==
  \A i \in Item : item[i].mem = "unused" <=> fate[i].state = "new"

Listed(i) == \E n \in DOMAIN q.items : q.items[n].ref = i

ListedItemsArePending ==
  \A n \in DOMAIN q.items :
     LET i == q.items[n].ref
     IN  fate[i].state = "pending" /\ item[i].mem = "live" /\ item[i].inserted

ListedOnce ==
  \A n, m \in DOMAIN q.items : q.items[n].ref = q.items[m].ref => n = m

InsertedIsListed ==
  \A i \in Item : item[i].mem = "live" /\ item[i].inserted => Listed(i)

TakenItemsAreGiven == \A i \in taken : fate[i].state = "given"

ListInv == TypeOK /\ Counters

IInv ==
  /\ ListInv
  /\ MemoryMatchesFate
  /\ ListedItemsArePending
  /\ ListedOnce
  /\ InsertedIsListed
  /\ TakenItemsAreGiven
  /\ NoStrandedItem
  /\ NoLeak

-----------------------------------------------------------------------------
(* The first half is inductive on its own.                                 *)
LEMMA ListInvInit == Init => ListInv
<1>1. NewQueue \in QueueType(Item, Waiter) /\ CountersExact(NewQueue)
  BY NewQueueExact
<1> QED
  BY <1>1 DEF Init, ListInv, TypeOK, Counters, Cell, Fate, Undelivered, AnyKey

LEMMA ReleasedCell ==
  ASSUME NEW cell \in Cell
  PROVE  Released(cell) \in Cell
  BY DEF Released, Cell

LEMMA ListInvNext == ListInv /\ [Next]_vars => ListInv'
<1> SUFFICES ASSUME ListInv, [Next]_vars
             PROVE  ListInv'
  OBVIOUS
<1> USE DEF ListInv
<1>0. /\ q \in QueueType(Item, Waiter)
      /\ CountersExact(q)
      /\ q.items \in ListOf(Item)
      /\ q.callbacks \in ListOf(Waiter)
      /\ item \in [Item -> Cell]
      /\ taken \in SUBSET Item
      /\ fate \in [Item -> Fate]
      /\ exists \in BOOLEAN
  BY DEF TypeOK, Counters, QueueType
<1>1. ASSUME NEW n \in DOMAIN q.items
      PROVE  q.items[n].ref \in Item /\ q.items[n].key \in AnyKey
  BY <1>0, ListEntry
<1>2. ASSUME NEW n \in DOMAIN q.callbacks
      PROVE  q.callbacks[n].ref \in Waiter /\ q.callbacks[n].key \in AnyKey
  BY <1>0, ListEntry
<1>3. ASSUME NEW i \in Item, NEW k \in AnyKey, PutConsumed(i, k)
      PROVE  ListInv'
  <2> DEFINE n == FirstAccepting(q, k)
  <2>1. n \in DOMAIN q.callbacks
    BY <1>0, <1>3, FirstAcceptingProperties DEF PutConsumed
  <2>2. q' \in QueueType(Item, Waiter) /\ CountersExact(q')
    BY <1>0, <1>3, <2>1, DropCallbackExact DEF PutConsumed
  <2>3. item' \in [Item -> Cell]
    BY <1>0, <1>3 DEF PutConsumed, Cell
  <2>4. Given(q.callbacks[n].ref, q.callbacks[n].key) \in Fate
    BY <1>2, <2>1 DEF Given, Fate
  <2>5. fate' \in [Item -> Fate]
    BY <1>0, <1>3, <2>4 DEF PutConsumed
  <2> QED
    BY <1>0, <1>3, <2>2, <2>3, <2>5 DEF PutConsumed, TypeOK, Counters
<1>4. ASSUME NEW i \in Item, NEW k \in AnyKey, PutStored(i, k)
      PROVE  ListInv'
  <2>1. q' \in QueueType(Item, Waiter) /\ CountersExact(q')
    BY <1>0, <1>4, AddItemExact DEF PutStored
  <2>2. item' \in [Item -> Cell]
    BY <1>0, <1>4 DEF PutStored, Cell
  <2>3. fate' \in [Item -> Fate]
    BY <1>0, <1>4 DEF PutStored, Undelivered, Fate, AnyKey
  <2> QED
    BY <1>0, <1>4, <2>1, <2>2, <2>3 DEF PutStored, TypeOK, Counters
<1>5. ASSUME NEW k \in AnyKey, Take(k)
      PROVE  ListInv'
  <2> DEFINE n == FirstMatching(q, k)
             i == q.items[n].ref
  <2>1. n \in DOMAIN q.items
    BY <1>0, <1>5, FirstMatchingProperties DEF Take
  <2>2. q' \in QueueType(Item, Waiter) /\ CountersExact(q')
    BY <1>0, <1>5, <2>1, DropItemExact DEF Take
  <2>3. i \in Item
    BY <1>1, <2>1
  <2> HIDE DEF i
  <2>4. /\ item' = [item EXCEPT ![i].inserted = FALSE]
        /\ taken' = taken \cup {i}
        /\ fate' = [fate EXCEPT ![i] = Given(Taker, k)]
        /\ exists' = exists
    BY <1>5 DEF Take, i
  <2>5. item' \in [Item -> Cell]
    BY <1>0, <2>3, <2>4 DEF Cell
  <2>6. fate' \in [Item -> Fate]
    BY <1>0, <2>4 DEF Given, Fate
  <2> QED
    BY <1>0, <2>2, <2>3, <2>4, <2>5, <2>6 DEF TypeOK, Counters
<1>6. ASSUME NEW w \in Waiter, NEW k \in AnyKey, WaitServed(w, k)
      PROVE  ListInv'
  <2> DEFINE n == FirstMatching(q, k)
             i == q.items[n].ref
  <2>1. n \in DOMAIN q.items
    BY <1>0, <1>6, FirstMatchingProperties DEF WaitServed
  <2>2. q' \in QueueType(Item, Waiter) /\ CountersExact(q')
    BY <1>0, <1>6, <2>1, DropItemExact DEF WaitServed
  <2>3. i \in Item
    BY <1>1, <2>1
  <2> HIDE DEF i
  <2>4. /\ item' = [item EXCEPT ![i] = Released([@ EXCEPT !.inserted = FALSE])]
        /\ fate' = [fate EXCEPT ![i] = Given(w, k)]
        /\ exists' = exists
        /\ taken' = taken
    BY <1>6 DEF WaitServed, i
  <2>5. item' \in [Item -> Cell]
    <3>1. [item[i] EXCEPT !.inserted = FALSE] \in Cell
      BY <1>0, <2>3 DEF Cell
    <3> QED
      BY <1>0, <2>4, <3>1, ReleasedCell
  <2>6. fate' \in [Item -> Fate]
    BY <1>0, <2>4 DEF Given, Fate
  <2> QED
    BY <1>0, <2>2, <2>4, <2>5, <2>6 DEF TypeOK, Counters
<1>7. ASSUME NEW w \in Waiter, NEW k \in AnyKey, WaitQueued(w, k)
      PROVE  ListInv'
  <2>1. q' \in QueueType(Item, Waiter) /\ CountersExact(q')
    BY <1>0, <1>7, AddCallbackExact DEF WaitQueued
  <2> QED
    BY <1>0, <1>7, <2>1 DEF WaitQueued, TypeOK, Counters
<1>8. ASSUME NEW k \in AnyKey, PeekAndLock(k)
      PROVE  ListInv'
  <2> DEFINE n == FirstMatching(q, k)
             i == q.items[n].ref
  <2>1. item' = [item EXCEPT ![i].lockcount = @ + 1]
    BY <1>8 DEF PeekAndLock
  <2>2. item' \in [Item -> Cell]
    <3>1. i \in Item
      BY <1>0, <1>1, <1>8, FirstMatchingProperties DEF PeekAndLock
    <3>2. [item[i] EXCEPT !.lockcount = @ + 1] \in Cell
      BY <1>0, <3>1 DEF Cell
    <3> HIDE DEF i
    <3> QED
      BY <1>0, <2>1, <3>1, <3>2
  <2> QED
    BY <1>0, <1>8, <2>2 DEF PeekAndLock, TypeOK, Counters
<1>9. ASSUME NEW i \in Item, Unlock(i)
      PROVE  ListInv'
  <2> DEFINE cell == [item[i] EXCEPT !.lockcount = @ - 1]
  <2>1. cell \in Cell
    BY <1>0, <1>9 DEF Unlock, Cell
  <2>2. item' = [item EXCEPT ![i] = IF cell.inserted THEN cell ELSE Released(cell)]
    BY <1>9 DEF Unlock
  <2> HIDE DEF cell
  <2>3. item' \in [Item -> Cell]
    BY <1>0, <2>1, <2>2, ReleasedCell
  <2> QED
    BY <1>0, <1>9, <2>3 DEF Unlock, TypeOK, Counters
<1>10. ASSUME NEW i \in Item, Free(i)
       PROVE  ListInv'
  <2>1. item' \in [Item -> Cell]
    BY <1>0, <1>10, ReleasedCell DEF Free
  <2> QED
    BY <1>0, <1>10, <2>1 DEF Free, TypeOK, Counters
<1>11. CASE FreeQueue
  <2>1. q' \in QueueType(Item, Waiter) /\ CountersExact(q')
    BY <1>11, NewQueueExact DEF FreeQueue
  <2>2. item' \in [Item -> Cell]
    BY <1>0, <1>11 DEF FreeQueue, Cell
  <2>3. Undelivered("destroyed") \in Fate
    BY DEF Undelivered, Fate, AnyKey
  <2>4. fate' \in [Item -> Fate]
    BY <1>0, <1>11, <2>3 DEF FreeQueue
  <2> QED
    BY <1>0, <1>11, <2>1, <2>2, <2>4 DEF FreeQueue, TypeOK, Counters
<1>12. CASE UNCHANGED vars
  BY <1>0, <1>12 DEF vars, TypeOK, Counters
<1> QED
  BY <1>3, <1>4, <1>5, <1>6, <1>7, <1>8, <1>9, <1>10, <1>11, <1>12 DEF Next

-----------------------------------------------------------------------------
(* Every variable has its type in every reachable state.                   *)
THEOREM TypeCorrect == Spec => []TypeOK
<1>1. ListInv => TypeOK
  BY DEF ListInv
<1> QED
  BY ListInvInit, ListInvNext, <1>1, PTL DEF Spec

(* The counters that queue_put, queue_take and queue_peek rely on are      *)
(* exact in every reachable state.                                         *)
THEOREM CountersCorrect == Spec => []Counters
<1>1. ListInv => Counters
  BY DEF ListInv
<1> QED
  BY ListInvInit, ListInvNext, <1>1, PTL DEF Spec

-----------------------------------------------------------------------------
(***************************************************************************)
(* The second half.  DropItem takes one entry out and leaves the others in *)
(* order, whoever the item goes to: Take and WaitServed share this lemma.  *)
(***************************************************************************)
LEMMA DropItemStep ==
  ASSUME IInv, NEW n \in DOMAIN q.items, q' = DropItem(q, n), exists' = exists,
         NEW i, i = q.items[n].ref,
         i \in Item,
         item' \in [Item -> Cell], fate' \in [Item -> Fate],
         \A j \in Item \ {i} : item'[j] = item[j] /\ fate'[j] = fate[j],
         item'[i].mem # "unused", fate'[i].state = "given", ~ item'[i].inserted,
         taken' \in {taken, taken \cup {i}},
         item'[i].mem = "live" => i \in taken' \/ item'[i].lockcount > 0
  PROVE  /\ MemoryMatchesFate'
         /\ ListedItemsArePending'
         /\ ListedOnce'
         /\ InsertedIsListed'
         /\ TakenItemsAreGiven'
         /\ NoStrandedItem'
         /\ NoLeak'
<1>1. /\ q \in QueueType(Item, Waiter)
      /\ q.items \in ListOf(Item)
      /\ taken \in SUBSET Item
  BY DEF IInv, ListInv, TypeOK, QueueType
<1>2. q'.items = RemoveAt(q.items, n) /\ q'.callbacks = q.callbacks
  BY <1>1, DropLists
<1>3. PICK from \in [DOMAIN q'.items -> DOMAIN q.items \ {n}] :
               /\ \A m \in DOMAIN q'.items : q'.items[m] = q.items[from[m]]
               /\ \A m, l \in DOMAIN q'.items : from[m] = from[l] => m = l
               /\ \A l \in DOMAIN q.items \ {n} : \E m \in DOMAIN q'.items : from[m] = l
  BY <1>1, <1>2, RemoveEntry
<1>4. \A m \in DOMAIN q'.items :
         /\ from[m] \in DOMAIN q.items
         /\ q'.items[m] = q.items[from[m]]
         /\ q'.items[m].ref # i
         /\ q'.items[m].ref \in Item
  <2>1. ListedOnce
    BY DEF IInv
  <2> QED
    BY <1>1, <1>3, <2>1, ListEntry DEF ListedOnce
<1>5. \A j \in Item \ {i} : Listed(j) => Listed(j)'
  BY <1>3 DEF Listed
<1>6. MemoryMatchesFate'
  BY DEF IInv, MemoryMatchesFate
<1>7. ListedItemsArePending'
  BY <1>4 DEF IInv, ListedItemsArePending
<1>8. ListedOnce'
  BY <1>3, <1>4 DEF IInv, ListedOnce
<1>9. InsertedIsListed'
  BY <1>5 DEF IInv, InsertedIsListed
<1>10. TakenItemsAreGiven'
  BY <1>1 DEF IInv, TakenItemsAreGiven
<1>11. NoStrandedItem'
  BY <1>2, <1>4 DEF IInv, NoStrandedItem, NothingStranded
<1>12. NoLeak'
  BY <1>5 DEF IInv, NoLeak, Listed
<1> QED
  BY <1>6, <1>7, <1>8, <1>9, <1>10, <1>11, <1>12

LEMMA IInvInit == Init => IInv
<1> SUFFICES ASSUME Init PROVE IInv
  OBVIOUS
<1>1. q.items = << >> /\ q.callbacks = << >>
  BY DEF Init, NewQueue
<1>2. DOMAIN q.items = {} /\ DOMAIN q.callbacks = {}
  BY <1>1
<1> QED
  BY <1>2, ListInvInit
  DEF Init, IInv, MemoryMatchesFate, ListedItemsArePending, ListedOnce, InsertedIsListed,
      TakenItemsAreGiven, NoStrandedItem, NothingStranded, NoLeak, Undelivered

LEMMA IInvNext == IInv /\ [Next]_vars => IInv'
<1> SUFFICES ASSUME IInv, [Next]_vars
             PROVE  /\ MemoryMatchesFate'
                    /\ ListedItemsArePending'
                    /\ ListedOnce'
                    /\ InsertedIsListed'
                    /\ TakenItemsAreGiven'
                    /\ NoStrandedItem'
                    /\ NoLeak'
  BY ListInvNext DEF IInv
<1> DEFINE Goal == /\ MemoryMatchesFate'
                   /\ ListedItemsArePending'
                   /\ ListedOnce'
                   /\ InsertedIsListed'
                   /\ TakenItemsAreGiven'
                   /\ NoStrandedItem'
                   /\ NoLeak'
<1>0. /\ q \in QueueType(Item, Waiter)
      /\ CountersExact(q)
      /\ q.items \in ListOf(Item)
      /\ q.callbacks \in ListOf(Waiter)
      /\ item \in [Item -> Cell]
      /\ taken \in SUBSET Item
      /\ fate \in [Item -> Fate]
  BY DEF IInv, ListInv, TypeOK, Counters, QueueType
<1>1. item' \in [Item -> Cell] /\ fate' \in [Item -> Fate]
  BY ListInvNext DEF IInv, ListInv, TypeOK
<1>2. \A n \in DOMAIN q.items : q.items[n].ref \in Item
  BY <1>0, ListEntry
<1>3. ASSUME NEW i \in Item, NEW k \in AnyKey, PutConsumed(i, k)
      PROVE  Goal
  <2> DEFINE n == FirstAccepting(q, k)
             f == Given(q.callbacks[n].ref, q.callbacks[n].key)
  <2>1. n \in DOMAIN q.callbacks
    BY <1>0, <1>3, FirstAcceptingProperties DEF PutConsumed
  <2>2. q'.items = q.items /\ q'.callbacks = RemoveAt(q.callbacks, n)
    <3>1. q' = DropCallback(q, n)
      BY <1>3 DEF PutConsumed
    <3> QED
      BY <1>0, <3>1, DropLists
  <2>3. f.state = "given"
    BY DEF Given
  <2>4. /\ item' = [item EXCEPT ![i].mem = "freed"]
        /\ fate' = [fate EXCEPT ![i] = f]
        /\ item[i].mem = "unused"
        /\ exists' = exists
        /\ taken' = taken
    BY <1>3 DEF PutConsumed
  <2> HIDE DEF f, n
  <2>5. /\ item'[i].mem = "freed" /\ item'[i].inserted = item[i].inserted
        /\ fate'[i].state = "given"
        /\ \A j \in Item \ {i} : item'[j] = item[j] /\ fate'[j] = fate[j]
    BY <1>0, <2>3, <2>4 DEF Cell
  <2>6. \A m \in DOMAIN q.items : q.items[m].ref # i
    BY <2>4 DEF IInv, ListedItemsArePending
  <2>7. MemoryMatchesFate'
    BY <2>5 DEF IInv, MemoryMatchesFate
  <2>8. ListedItemsArePending' /\ ListedOnce'
    BY <1>2, <2>2, <2>5, <2>6 DEF IInv, ListedItemsArePending, ListedOnce
  <2>9. InsertedIsListed'
    BY <2>2, <2>4, <2>5 DEF IInv, InsertedIsListed, Listed
  <2>10. TakenItemsAreGiven'
    BY <1>0, <2>4, <2>5 DEF IInv, TakenItemsAreGiven
  <2>11. NoStrandedItem'
    <3>1. \A m \in DOMAIN q'.callbacks :
             \E l \in DOMAIN q.callbacks : q'.callbacks[m] = q.callbacks[l]
      BY <1>0, <2>1, <2>2, RemoveEntry
    <3> QED
      BY <2>2, <3>1 DEF IInv, NoStrandedItem, NothingStranded
  <2>12. NoLeak'
    BY <2>2, <2>4, <2>5 DEF IInv, NoLeak
  <2> QED
    BY <2>7, <2>8, <2>9, <2>10, <2>11, <2>12
<1>4. ASSUME NEW i \in Item, NEW k \in AnyKey, PutStored(i, k)
      PROVE  Goal
  <2> DEFINE last == Len(q.items) + 1
  <2>1. q'.items = Append(q.items, Entry(i, k)) /\ q'.callbacks = q.callbacks
    <3>1. q' = AddItem(q, i, k)
      BY <1>4 DEF PutStored
    <3> QED
      BY <1>0, <3>1, AddLists
  <2>2. /\ DOMAIN q'.items = DOMAIN q.items \cup {last}
        /\ last \notin DOMAIN q.items
        /\ \A m \in DOMAIN q.items : q'.items[m] = q.items[m]
        /\ q'.items[last].ref = i
        /\ q'.items[last].key = k
    BY <1>0, <2>1, AppendEntry
  <2> HIDE DEF last
  <2>3. /\ item' = [item EXCEPT ![i] = [mem |-> "live", inserted |-> TRUE, lockcount |-> 0]]
        /\ fate' = [fate EXCEPT ![i] = Undelivered("pending")]
        /\ item[i].mem = "unused"
        /\ exists' = exists
        /\ taken' = taken
    BY <1>4 DEF PutStored
  <2>4. /\ item'[i].mem = "live" /\ item'[i].inserted
        /\ fate'[i].state = "pending"
        /\ \A j \in Item \ {i} : item'[j] = item[j] /\ fate'[j] = fate[j]
    BY <1>0, <2>3 DEF Undelivered
  <2>5. \A m \in DOMAIN q.items : q.items[m].ref # i
    BY <2>3 DEF IInv, ListedItemsArePending
  <2>6. fate[i].state = "new"
    BY <2>3 DEF IInv, MemoryMatchesFate
  <2>7. MemoryMatchesFate'
    BY <2>4 DEF IInv, MemoryMatchesFate
  <2>8. ListedItemsArePending' /\ ListedOnce'
    BY <1>2, <2>2, <2>4, <2>5 DEF IInv, ListedItemsArePending, ListedOnce
  <2>9. \A j \in Item : Listed(j) => Listed(j)'
    BY <2>2 DEF Listed
  <2>10. Listed(i)'
    BY <2>2 DEF Listed
  <2>11. InsertedIsListed'
    BY <2>3, <2>4, <2>9, <2>10 DEF IInv, InsertedIsListed
  <2>12. TakenItemsAreGiven'
    BY <1>0, <2>3, <2>4, <2>6 DEF IInv, TakenItemsAreGiven
  <2>13. NoStrandedItem'
    <3>1. \A m \in DOMAIN q.callbacks : ~ Accepts(q.callbacks[m].key, k)
      BY <1>0, <1>4, FirstAcceptingProperties DEF PutStored
    <3> QED
      BY <2>1, <2>2, <3>1 DEF IInv, NoStrandedItem, NothingStranded
  <2>14. NoLeak'
    BY <2>3, <2>4, <2>9, <2>10 DEF IInv, NoLeak, Listed
  <2> QED
    BY <2>7, <2>8, <2>11, <2>12, <2>13, <2>14
<1>5. ASSUME NEW k \in AnyKey, Take(k)
      PROVE  Goal
  <2> DEFINE n == FirstMatching(q, k)
             i == q.items[n].ref
  <2>1. n \in DOMAIN q.items
    BY <1>0, <1>5, FirstMatchingProperties DEF Take
  <2>2. /\ q' = DropItem(q, n)
        /\ exists' = exists
        /\ i \in Item
        /\ item' = [item EXCEPT ![i].inserted = FALSE]
        /\ taken' = taken \cup {i}
        /\ fate' = [fate EXCEPT ![i] = Given(Taker, k)]
    BY <1>2, <1>5, <2>1 DEF Take
  <2>3. item[i].mem = "live"
    BY <2>1 DEF IInv, ListedItemsArePending
  <2> HIDE DEF n, i
  <2>4. /\ \A j \in Item \ {i} : item'[j] = item[j] /\ fate'[j] = fate[j]
        /\ item'[i].mem = "live" /\ ~ item'[i].inserted
        /\ fate'[i].state = "given"
    BY <1>0, <2>2, <2>3 DEF Cell, Given
  <2> QED
    BY <1>1, <2>1, <2>2, <2>4, DropItemStep DEF i
<1>6. ASSUME NEW w \in Waiter, NEW k \in AnyKey, WaitServed(w, k)
      PROVE  Goal
  <2> DEFINE n == FirstMatching(q, k)
             i == q.items[n].ref
             out == [item[i] EXCEPT !.inserted = FALSE]
  <2>1. n \in DOMAIN q.items
    BY <1>0, <1>6, FirstMatchingProperties DEF WaitServed
  <2>2. /\ q' = DropItem(q, n)
        /\ exists' = exists
        /\ i \in Item
        /\ item' = [item EXCEPT ![i] = Released(out)]
        /\ taken' = taken
        /\ fate' = [fate EXCEPT ![i] = Given(w, k)]
    BY <1>2, <1>6, <2>1 DEF WaitServed
  <2>3. item[i].mem = "live"
    BY <2>1 DEF IInv, ListedItemsArePending
  <2> HIDE DEF n, i
  <2>4. out \in Cell /\ out.mem = "live" /\ ~ out.inserted
    BY <1>0, <2>2, <2>3 DEF Cell
  <2> HIDE DEF out
  <2>5. /\ Released(out).mem # "unused"
        /\ ~ Released(out).inserted
        /\ Released(out).mem = "live" => Released(out).lockcount > 0
    BY <2>4 DEF Released, Cell
  <2>6. /\ \A j \in Item \ {i} : item'[j] = item[j] /\ fate'[j] = fate[j]
        /\ item'[i] = Released(out)
        /\ fate'[i].state = "given"
    BY <1>0, <2>2 DEF Given
  <2> QED
    BY <1>1, <2>1, <2>2, <2>5, <2>6, DropItemStep DEF i
<1>7. ASSUME NEW w \in Waiter, NEW k \in AnyKey, WaitQueued(w, k)
      PROVE  Goal
  <2>1. q'.items = q.items /\ q'.callbacks = Append(q.callbacks, Entry(w, k))
    <3>1. q' = AddCallback(q, w, k)
      BY <1>7 DEF WaitQueued
    <3> QED
      BY <1>0, <3>1, AddLists
  <2>2. UNCHANGED << exists, item, taken, fate >>
    BY <1>7 DEF WaitQueued
  <2>3. /\ MemoryMatchesFate' /\ ListedItemsArePending' /\ ListedOnce'
        /\ InsertedIsListed' /\ TakenItemsAreGiven' /\ NoLeak'
    BY <2>1, <2>2 DEF IInv, MemoryMatchesFate, ListedItemsArePending, ListedOnce,
                      InsertedIsListed, Listed, TakenItemsAreGiven, NoLeak
  <2>4. NoStrandedItem'
    <3>1. \A n \in DOMAIN q.items : ~ Accepts(k, q.items[n].key)
      BY <1>0, <1>7, FirstMatchingProperties DEF WaitQueued
    <3>2. \A m \in DOMAIN q'.callbacks :
             \/ m \in DOMAIN q.callbacks /\ q'.callbacks[m] = q.callbacks[m]
             \/ q'.callbacks[m].key = k
      BY <1>0, <2>1, AppendEntry
    <3> QED
      BY <2>1, <3>1, <3>2 DEF IInv, NoStrandedItem, NothingStranded
  <2> QED
    BY <2>3, <2>4
<1>8. ASSUME NEW k \in AnyKey, PeekAndLock(k)
      PROVE  Goal
  <2> DEFINE i == q.items[FirstMatching(q, k)].ref
  <2>1. /\ item' = [item EXCEPT ![i].lockcount = @ + 1]
        /\ UNCHANGED << q, exists, taken, fate >>
    BY <1>8 DEF PeekAndLock
  <2>2. \A j \in Item : /\ item'[j].mem = item[j].mem
                        /\ item'[j].inserted = item[j].inserted
                        /\ item[j].lockcount > 0 => item'[j].lockcount > 0
    BY <1>0, <2>1 DEF Cell
  <2> QED
    <3>1. MemoryMatchesFate'
      BY <2>1, <2>2 DEF IInv, MemoryMatchesFate
    <3>4. ListedItemsArePending'
      <4> SUFFICES ASSUME NEW n \in DOMAIN q.items
                   PROVE  LET j == q.items[n].ref
                          IN  fate[j].state = "pending" /\ item'[j].mem = "live" /\ item'[j].inserted
        BY <2>1 DEF ListedItemsArePending
      <4>1. PICK j \in Item : j = q.items[n].ref
        BY <1>2
      <4>2. fate[j].state = "pending" /\ item[j].mem = "live" /\ item[j].inserted
        BY <4>1 DEF IInv, ListedItemsArePending
      <4> QED
        BY <2>2, <4>1, <4>2
    <3>2. ListedOnce' /\ TakenItemsAreGiven' /\ NoStrandedItem'
      BY <2>1 DEF IInv, ListedOnce, TakenItemsAreGiven, NoStrandedItem, NothingStranded
    <3>3. InsertedIsListed' /\ NoLeak'
      BY <2>1, <2>2 DEF IInv, InsertedIsListed, Listed, NoLeak
    <3> QED
      BY <3>1, <3>2, <3>3, <3>4
<1>9. ASSUME NEW i \in Item, Unlock(i)
      PROVE  Goal
  <2> DEFINE cell == [item[i] EXCEPT !.lockcount = @ - 1]
  <2>1. /\ item' = [item EXCEPT ![i] = IF cell.inserted THEN cell ELSE Released(cell)]
        /\ item[i].mem = "live"
        /\ UNCHANGED << q, exists, taken, fate >>
    BY <1>9 DEF Unlock
  <2>2. /\ cell \in Cell /\ cell.mem = "live" /\ cell.inserted = item[i].inserted
    BY <1>0, <1>9, <2>1 DEF Unlock, Cell
  <2>3. Listed(i) => item[i].inserted
    BY DEF IInv, Listed, ListedItemsArePending
  <2> HIDE DEF cell
  <2>4. /\ \A j \in Item \ {i} : item'[j] = item[j]
        /\ item'[i].inserted = item[i].inserted
        /\ item'[i].mem # "unused"
        /\ item[i].inserted => item'[i].mem = "live"
        /\ item'[i].mem = "live" => item[i].inserted \/ item'[i].lockcount > 0
    BY <1>0, <2>1, <2>2 DEF Cell, Released
  <2>5. MemoryMatchesFate'
    BY <2>1, <2>4 DEF IInv, MemoryMatchesFate
  <2>6. ListedItemsArePending'
    BY <1>2, <2>1, <2>3, <2>4 DEF IInv, ListedItemsArePending, Listed
  <2>7. InsertedIsListed'
    BY <2>1, <2>4 DEF IInv, InsertedIsListed, Listed
  <2>8. NoLeak'
    <3>1. item[i].inserted => Listed(i)
      BY <2>1 DEF IInv, InsertedIsListed
    <3> QED
      BY <2>1, <2>4, <3>1 DEF IInv, NoLeak, Listed
  <2> QED
    BY <2>1, <2>5, <2>6, <2>7, <2>8
    DEF IInv, ListedOnce, TakenItemsAreGiven, NoStrandedItem, NothingStranded
<1>10. ASSUME NEW i \in Item, Free(i)
       PROVE  Goal
  <2>1. /\ i \in taken
        /\ item[i].mem = "live"
        /\ item' = [item EXCEPT ![i] = Released(@)]
        /\ taken' = taken \ {i}
        /\ UNCHANGED << q, exists, fate >>
    BY <1>10 DEF Free
  <2>2. ~ Listed(i)
    BY <2>1 DEF IInv, TakenItemsAreGiven, Listed, ListedItemsArePending
  <2>3. /\ \A j \in Item \ {i} : item'[j] = item[j]
        /\ item'[i].inserted = item[i].inserted
        /\ item'[i].mem # "unused"
        /\ item'[i].mem = "live" => item'[i].lockcount > 0
    BY <1>0, <2>1 DEF Cell, Released
  <2>4. MemoryMatchesFate'
    BY <2>1, <2>3 DEF IInv, MemoryMatchesFate
  <2>5. ListedItemsArePending'
    BY <1>2, <2>1, <2>2, <2>3 DEF IInv, ListedItemsArePending, Listed
  <2>6. InsertedIsListed'
    BY <2>1, <2>3 DEF IInv, InsertedIsListed, Listed
  <2>7. TakenItemsAreGiven'
    BY <2>1 DEF IInv, TakenItemsAreGiven
  <2>8. NoLeak'
    BY <2>1, <2>3 DEF IInv, NoLeak
  <2> QED
    BY <2>1, <2>4, <2>5, <2>6, <2>7, <2>8
    DEF IInv, ListedOnce, NoStrandedItem, NothingStranded
<1>11. CASE FreeQueue
  <2>1. DOMAIN q'.items = {} /\ DOMAIN q'.callbacks = {}
    <3>1. q'.items = << >> /\ q'.callbacks = << >>
      BY <1>11 DEF FreeQueue, NewQueue
    <3> QED
      BY <3>1
  <2>2. /\ item' = [i \in Item |->
                     IF Listed(i) THEN [item[i] EXCEPT !.mem = "freed"] ELSE item[i]]
        /\ fate' = [i \in Item |->
                     IF Listed(i) THEN Undelivered("destroyed") ELSE fate[i]]
        /\ taken' = taken
    BY <1>11 DEF FreeQueue, Listed
  <2>3. \A i \in Item :
           /\ item'[i].inserted = item[i].inserted
           /\ item'[i].lockcount = item[i].lockcount
           /\ Listed(i) => item'[i].mem = "freed" /\ fate'[i].state = "destroyed"
           /\ ~ Listed(i) => item'[i].mem = item[i].mem /\ fate'[i] = fate[i]
    BY <1>0, <2>2 DEF Cell, Undelivered
  <2>4. \A i \in Item : Listed(i) => item[i].mem = "live" /\ fate[i].state = "pending"
    BY DEF IInv, Listed, ListedItemsArePending
  <2>5. MemoryMatchesFate'
    BY <2>3, <2>4 DEF IInv, MemoryMatchesFate
  <2>6. ListedItemsArePending' /\ ListedOnce' /\ NoStrandedItem'
    BY <2>1 DEF ListedItemsArePending, ListedOnce, NoStrandedItem, NothingStranded
  <2>7. InsertedIsListed'
    BY <2>3 DEF IInv, InsertedIsListed
  <2>8. TakenItemsAreGiven'
    BY <1>0, <2>2, <2>3, <2>4 DEF IInv, TakenItemsAreGiven
  <2>9. NoLeak'
    BY <2>2, <2>3 DEF IInv, NoLeak, Listed
  <2> QED
    BY <2>5, <2>6, <2>7, <2>8, <2>9
<1>12. CASE UNCHANGED vars
  BY <1>12 DEF vars, IInv, MemoryMatchesFate, ListedItemsArePending, ListedOnce,
          InsertedIsListed, Listed, TakenItemsAreGiven, NoStrandedItem, NothingStranded, NoLeak
<1> QED
  BY <1>3, <1>4, <1>5, <1>6, <1>7, <1>8, <1>9, <1>10, <1>11, <1>12 DEF Next

-----------------------------------------------------------------------------
LEMMA IInvAlways == Spec => []IInv
  BY IInvInit, IInvNext, PTL DEF Spec

(* No item lies in the queue while somebody waits for one like it: neither *)
(* short cut of queue_put and queue_wait ever misses a match.              *)
THEOREM NoItemIsStranded == Spec => []NoStrandedItem
<1>1. IInv => NoStrandedItem
  BY DEF IInv
<1> QED
  BY IInvAlways, <1>1, PTL

(* An allocated item is listed, taken or locked: somebody is left to free  *)
(* it.                                                                     *)
THEOREM NoItemLeaks == Spec => []NoLeak
<1>1. IInv => NoLeak
  BY DEF IInv
<1> QED
  BY IInvAlways, <1>1, PTL

(* The list of items never points to freed memory, holds an item once and  *)
(* agrees with the items' own flags.                                       *)
THEOREM ListsAgreeWithMemory == Spec => []ListsMatchMemory
<1>1. IInv => ListsMatchMemory
  BY DEF IInv, ListsMatchMemory, ListedItemsArePending, ListedOnce, InsertedIsListed, Listed
<1> QED
  BY IInvAlways, <1>1, PTL

-----------------------------------------------------------------------------
(* Whatever the recipients and the locks do, an item is delivered at most  *)
(* once.                                                                   *)
THEOREM DeliveredAtMostOnce == Spec => FateIsFinal
<1> DEFINE Final == \A i \in Item :
                       fate[i].state \in {"given", "destroyed"} => fate'[i] = fate[i]
<1>1. ASSUME IInv, [Next]_vars
      PROVE  [Final]_vars
  <2>0. /\ q \in QueueType(Item, Waiter)
        /\ CountersExact(q)
        /\ fate \in [Item -> Fate]
    BY <1>1 DEF IInv, ListInv, TypeOK, Counters
  <2>1. ASSUME NEW i \in Item, item[i].mem = "unused",
               NEW f, fate' = [fate EXCEPT ![i] = f]
        PROVE  Final
    <3>1. fate[i].state = "new"
      BY <1>1, <2>1 DEF IInv, MemoryMatchesFate
    <3> QED
      BY <2>0, <2>1, <3>1
  <2>2. ASSUME NEW n \in DOMAIN q.items,
               NEW f, fate' = [fate EXCEPT ![q.items[n].ref] = f]
        PROVE  Final
    <3>1. fate[q.items[n].ref].state = "pending"
      BY <1>1 DEF IInv, ListedItemsArePending
    <3> QED
      BY <2>0, <2>2, <3>1
  <2>3. ASSUME NEW i \in Item, NEW k \in AnyKey, PutConsumed(i, k) \/ PutStored(i, k)
        PROVE  Final
    BY <2>1, <2>3 DEF PutConsumed, PutStored
  <2>4. ASSUME NEW k \in AnyKey, Take(k)
        PROVE  Final
    BY <2>0, <2>2, <2>4, FirstMatchingProperties DEF Take
  <2>5. ASSUME NEW w \in Waiter, NEW k \in AnyKey, WaitServed(w, k)
        PROVE  Final
    BY <2>0, <2>2, <2>5, FirstMatchingProperties DEF WaitServed
  <2>6. ASSUME FreeQueue
        PROVE  Final
    <3>1. \A i \in Item : Listed(i) => fate[i].state = "pending"
      BY <1>1 DEF IInv, Listed, ListedItemsArePending
    <3>2. fate' = [i \in Item |-> IF Listed(i) THEN Undelivered("destroyed") ELSE fate[i]]
      BY <2>6 DEF FreeQueue, Listed
    <3> QED
      BY <2>0, <3>1, <3>2
  <2>7. ASSUME fate' = fate
        PROVE  Final
    BY <2>7
  <2> HIDE DEF Final
  <2> QED
    BY <1>1, <2>3, <2>4, <2>5, <2>6, <2>7
    DEF Next, WaitQueued, PeekAndLock, Unlock, Free, vars
<1> QED
  BY <1>1, IInvAlways, PTL DEF Spec, FateIsFinal

-----------------------------------------------------------------------------
(***************************************************************************)
(* Refinement.  The counters being exact, what the short cuts and scans of *)
(* queue.c find is what the abstract queue's "first that accepts" says.    *)
(***************************************************************************)
THEOREM QueueImplementsQueueSpec == Spec => ImplementsQueueSpec
<1>1. Init => Abstract!Init
  BY DEF Init, NewQueue, Undelivered, Abstract!Init, Abstract!Undelivered
<1>2. ASSUME IInv, [Next]_vars
      PROVE  [Abstract!Next]_(Abstract!vars)
  <2> USE DEF Accepts, Abstract!Accepts
  <2>0. /\ q \in QueueType(Item, Waiter)
        /\ CountersExact(q)
    BY <1>2 DEF IInv, ListInv, TypeOK, Counters
  <2>1. ASSUME NEW i \in Item, NEW k \in AnyKey, PutConsumed(i, k)
        PROVE  Abstract!Hand(i, k)
    <3> DEFINE n == FirstAccepting(q, k)
    <3>1. n \in DOMAIN q.callbacks /\ Abstract!IsFirstWait(n, k)
      BY <2>0, <2>1, FirstAcceptingProperties DEF PutConsumed, Abstract!IsFirstWait
    <3>2. fate[i].state = "new"
      BY <1>2, <2>1 DEF IInv, MemoryMatchesFate, PutConsumed
    <3>3. q' = DropCallback(q, n)
      BY <2>1 DEF PutConsumed
    <3>4. q'.items = q.items /\ q'.callbacks = RemoveAt(q.callbacks, n)
      BY <2>0, <3>3, DropLists
    <3>5. fate' = [fate EXCEPT ![i] = Given(q.callbacks[n].ref, q.callbacks[n].key)]
      BY <2>1 DEF PutConsumed
    <3>6. exists /\ exists' = exists
      BY <2>1 DEF PutConsumed
    <3> HIDE DEF n
    <3> QED
      BY <3>1, <3>2, <3>4, <3>5, <3>6
      DEF Abstract!Hand, Given, Abstract!Given, RemoveAt, Abstract!RemoveAt
  <2>2. ASSUME NEW i \in Item, NEW k \in AnyKey, PutStored(i, k)
        PROVE  Abstract!Store(i, k)
    <3>1. \A n \in DOMAIN q.callbacks : ~ Abstract!Accepts(q.callbacks[n].key, k)
      BY <2>0, <2>2, FirstAcceptingProperties DEF PutStored
    <3>2. fate[i].state = "new"
      BY <1>2, <2>2 DEF IInv, MemoryMatchesFate, PutStored
    <3>3. q' = AddItem(q, i, k)
      BY <2>2 DEF PutStored
    <3>4. q'.items = Append(q.items, Entry(i, k)) /\ q'.callbacks = q.callbacks
      BY <2>0, <3>3, AddLists
    <3> QED
      BY <2>2, <3>1, <3>2, <3>4
      DEF PutStored, Abstract!Store, Undelivered, Abstract!Undelivered, Entry, Abstract!Entry
  <2>3. ASSUME NEW to \in Waiter \cup {Taker}, NEW k \in AnyKey, exists, exists' = exists,
               FirstMatching(q, k) # 0,
               q' = DropItem(q, FirstMatching(q, k)),
               fate' = [fate EXCEPT ![q.items[FirstMatching(q, k)].ref] = Given(to, k)]
        PROVE  Abstract!Deliver(to, k)
    <3> DEFINE n == FirstMatching(q, k)
    <3>1. n \in DOMAIN q.items /\ Abstract!IsFirstItem(n, k)
      BY <2>0, <2>3, FirstMatchingProperties DEF Abstract!IsFirstItem
    <3>2. q'.items = RemoveAt(q.items, n) /\ q'.callbacks = q.callbacks
      BY <2>0, <2>3, DropLists
    <3>3. fate' = [fate EXCEPT ![q.items[n].ref] = Given(to, k)]
      BY <2>3
    <3> HIDE DEF n
    <3> QED
      BY <2>3, <3>1, <3>2, <3>3
      DEF Abstract!Deliver, Given, Abstract!Given, RemoveAt, Abstract!RemoveAt
  <2>4. ASSUME NEW k \in AnyKey, Take(k)
        PROVE  Abstract!Deliver(Taker, k)
    BY <2>3, <2>4 DEF Take
  <2>5. ASSUME NEW w \in Waiter, NEW k \in AnyKey, WaitServed(w, k)
        PROVE  Abstract!Deliver(w, k)
    BY <2>3, <2>5 DEF WaitServed
  <2>6. ASSUME NEW w \in Waiter, NEW k \in AnyKey, WaitQueued(w, k)
        PROVE  Abstract!Wait(w, k)
    <3>1. \A n \in DOMAIN q.items : ~ Abstract!Accepts(k, q.items[n].key)
      BY <2>0, <2>6, FirstMatchingProperties DEF WaitQueued
    <3>2. q' = AddCallback(q, w, k)
      BY <2>6 DEF WaitQueued
    <3>3. q'.items = q.items /\ q'.callbacks = Append(q.callbacks, Entry(w, k))
      BY <2>0, <3>2, AddLists
    <3> QED
      BY <2>6, <3>1, <3>3 DEF WaitQueued, Abstract!Wait, Entry, Abstract!Entry
  <2>7. ASSUME FreeQueue
        PROVE  Abstract!Close
    <3>1. fate' = [i \in Item |-> IF \E n \in DOMAIN q.items : q.items[n].ref = i
                                 THEN Abstract!Undelivered("destroyed") ELSE fate[i]]
      BY <2>7 DEF FreeQueue, Undelivered, Abstract!Undelivered
    <3>2. q'.items = << >> /\ q'.callbacks = << >>
      BY <2>7 DEF FreeQueue, NewQueue
    <3> QED
      BY <2>7, <3>1, <3>2 DEF FreeQueue, Abstract!Close
  <2>8. ASSUME UNCHANGED << q, exists, fate >>
        PROVE  UNCHANGED Abstract!vars
    BY <2>8 DEF Abstract!vars
  <2> QED
    BY <1>2, <2>1, <2>2, <2>4, <2>5, <2>6, <2>7, <2>8
    DEF Next, Abstract!Next, AnyKey, Abstract!AnyKey, PeekAndLock, Unlock, Free, vars
<1> QED
  BY <1>1, <1>2, IInvAlways, PTL DEF Spec, ImplementsQueueSpec, Abstract!Spec

-----------------------------------------------------------------------------
(***************************************************************************)
(* Taken items.  The list holds none of them, so that whoever frees what   *)
(* is in the list leaves them alone; an unlock frees only what is locked.  *)
(***************************************************************************)
LEMMA ListedIsNotTaken ==
  ASSUME IInv, NEW n \in DOMAIN q.items
  PROVE  q.items[n].ref \notin taken
  BY DEF IInv, ListedItemsArePending, TakenItemsAreGiven

(* With locks held from call to call, and whatever is locked, unlocked,    *)
(* taken, waited for or freed: an item that was taken and that nobody has  *)
(* locked stays allocated until its taker frees it.                        *)
THEOREM UnlockedTakenItemsStay == Spec => UnlockedTakenStays
<1> DEFINE Stays == \A i \in taken \cap taken' :
                item[i].mem = "live" /\ item[i].lockcount = 0 => item'[i].mem = "live"
<1>1. ASSUME IInv, [Next]_vars
      PROVE  [Stays]_vars
  <2>0. /\ q \in QueueType(Item, Waiter)
        /\ CountersExact(q)
        /\ q.items \in ListOf(Item)
        /\ item \in [Item -> Cell]
        /\ taken \in SUBSET Item
    BY <1>1 DEF IInv, ListInv, TypeOK, Counters, QueueType
  <2>1. ASSUME NEW i \in Item, NEW k \in AnyKey, PutConsumed(i, k)
        PROVE  Stays
    BY <2>0, <2>1 DEF PutConsumed, Cell
  <2>2. ASSUME NEW i \in Item, NEW k \in AnyKey, PutStored(i, k)
        PROVE  Stays
    BY <2>0, <2>2 DEF PutStored, Cell
  <2>3. ASSUME NEW k \in AnyKey, Take(k)
        PROVE  Stays
    <3> DEFINE i == q.items[FirstMatching(q, k)].ref
    <3>1. item' = [item EXCEPT ![i].inserted = FALSE]
      BY <2>3 DEF Take
    <3> HIDE DEF i
    <3> QED
      BY <2>0, <3>1 DEF Cell
  <2>4. ASSUME NEW w \in Waiter, NEW k \in AnyKey, WaitServed(w, k)
        PROVE  Stays
    <3> DEFINE i == q.items[FirstMatching(q, k)].ref
               out == Released([item[i] EXCEPT !.inserted = FALSE])
    <3>1. i \notin taken
      BY <1>1, <2>0, <2>4, FirstMatchingProperties, ListedIsNotTaken DEF WaitServed
    <3>2. item' = [item EXCEPT ![i] = out]
      BY <2>4 DEF WaitServed
    <3> HIDE DEF i, out
    <3> QED
      BY <2>0, <3>1, <3>2
  <2>5. ASSUME NEW k \in AnyKey, PeekAndLock(k)
        PROVE  Stays
    <3> DEFINE i == q.items[FirstMatching(q, k)].ref
    <3>1. item' = [item EXCEPT ![i].lockcount = @ + 1]
      BY <2>5 DEF PeekAndLock
    <3> HIDE DEF i
    <3> QED
      BY <2>0, <3>1 DEF Cell
  <2>6. ASSUME NEW i \in Item, Unlock(i)
        PROVE  Stays
    <3>1. item[i].lockcount # 0 /\ \A j \in Item \ {i} : item'[j] = item[j]
      BY <2>0, <2>6 DEF Unlock, Cell
    <3> QED
      BY <2>0, <3>1
  <2>7. ASSUME NEW i \in Item, Free(i)
        PROVE  Stays
    BY <2>0, <2>7 DEF Free
  <2>8. ASSUME FreeQueue
        PROVE  Stays
    <3>1. item' = [i \in Item |->
                     IF Listed(i) THEN [item[i] EXCEPT !.mem = "freed"] ELSE item[i]]
      BY <2>8 DEF FreeQueue, Listed
    <3>2. \A i \in taken : ~ Listed(i)
      BY <1>1, ListedIsNotTaken DEF Listed
    <3> QED
      BY <2>0, <3>1, <3>2
  <2>9. ASSUME item' = item
        PROVE  Stays
    BY <2>9
  <2> HIDE DEF Stays
  <2> QED
    BY <1>1, <2>1, <2>2, <2>3, <2>4, <2>5, <2>6, <2>7, <2>8, <2>9 DEF Next, WaitQueued, vars
<1> QED
  BY <1>1, IInvAlways, PTL DEF Spec, UnlockedTakenStays
=============================================================================
