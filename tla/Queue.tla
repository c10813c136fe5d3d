------------------------------- MODULE Queue --------------------------------
(***************************************************************************)
(* One queue behind the interface of queue.h: queue_put, queue_take,       *)
(* queue_peek, queue_wait, queue_item_lock, queue_item_unlock,             *)
(* queue_item_free and queue_free, called one after the other (the program *)
(* is single threaded) in any order that the header permits.               *)
(*                                                                         *)
(* The state is the struct queue, the memory of every item, the handles    *)
(* that callers of queue_take still hold, and a record of where each item  *)
(* went, which the code does not keep.  A call that finds nothing, or that *)
(* fails to allocate, leaves all of it unchanged and is not an action.     *)
(***************************************************************************)
EXTENDS QueueOps

CONSTANTS
  Item,       \* the items ever put
  Waiter,     \* the calls of queue_wait, each with its callback
  NoOne,      \* no recipient
  Taker,      \* the recipient of an item that queue_take returned
  MaxLocks    \* bound on the locks held on an item from one call to the next

ASSUME QueueAssumption ==
  /\ MaxLocks \in Nat
  /\ NoOne \notin Waiter
  /\ Taker \notin Waiter
  /\ NoOne # Taker

VARIABLES
  q,       \* the struct queue
  exists,  \* queue_free has not been called
  item,    \* item[i]: the memory of item i
  taken,   \* items returned by queue_take and not yet given to queue_item_free
  fate     \* fate[i]: what became of item i

vars == << q, exists, item, taken, fate >>

(***************************************************************************)
(* A heap cell of struct queue_item: whether malloc has handed it out and  *)
(* free has taken it back, and the fields that decide when it is freed.    *)
(***************************************************************************)
Cell == [mem : {"unused", "live", "freed"}, inserted : BOOLEAN, lockcount : Nat]

Fate == [state : {"new", "pending", "given", "destroyed"},
         to : Waiter \cup {Taker, NoOne}, key : AnyKey]

Given(to, key) == [state |-> "given", to |-> to, key |-> key]
Undelivered(state) == [state |-> state, to |-> NoOne, key |-> NoKey]

(***************************************************************************)
(* queue_item_free: an item that somebody has locked stays.                *)
(***************************************************************************)
Released(cell) == IF cell.lockcount # 0 THEN cell ELSE [cell EXCEPT !.mem = "freed"]

Init ==
  /\ q = NewQueue
  /\ exists = TRUE
  /\ item = [i \in Item |-> [mem |-> "unused", inserted |-> FALSE, lockcount |-> 0]]
  /\ taken = {}
  /\ fate = [i \in Item |-> Undelivered("new")]

-----------------------------------------------------------------------------
(***************************************************************************)
(* queue_put finds a callback for the item: the callback leaves the list   *)
(* before it runs, and the item is freed after.                            *)
(***************************************************************************)
PutConsumed(i, key) ==
  /\ exists
  /\ item[i].mem = "unused"
  /\ LET n == FirstAccepting(q, key)
     IN  /\ n # 0
         /\ q' = DropCallback(q, n)
         /\ fate' = [fate EXCEPT ![i] = Given(q.callbacks[n].ref, q.callbacks[n].key)]
  /\ item' = [item EXCEPT ![i].mem = "freed"]
  /\ UNCHANGED << exists, taken >>

\* queue_put stores the item.
PutStored(i, key) ==
  /\ exists
  /\ item[i].mem = "unused"
  /\ FirstAccepting(q, key) = 0
  /\ q' = AddItem(q, i, key)
  /\ item' = [item EXCEPT ![i] = [mem |-> "live", inserted |-> TRUE, lockcount |-> 0]]
  /\ fate' = [fate EXCEPT ![i] = Undelivered("pending")]
  /\ UNCHANGED << exists, taken >>

\* Mutant: the item taken is still marked as inserted.
TakeStaysInserted(wanted) ==
  /\ exists
  /\ LET n == FirstMatching(q, wanted)
         i == q.items[n].ref
     IN  /\ n # 0
         /\ q' = DropItem(q, n)
         /\ taken' = taken \cup {i}
         /\ fate' = [fate EXCEPT ![i] = Given(Taker, wanted)]
  /\ UNCHANGED << exists, item >>

\* Mutant: the item taken is still in the list.
TakeStaysInList(wanted) ==
  /\ exists
  /\ LET n == FirstMatching(q, wanted)
         i == q.items[n].ref
     IN  /\ n # 0
         /\ taken' = taken \cup {i}
         /\ fate' = [fate EXCEPT ![i] = Given(Taker, wanted)]
  /\ UNCHANGED << q, exists, item >>

\* queue_take finds an item and hands it to the caller.
Take(wanted) ==
  /\ exists
  /\ LET n == FirstMatching(q, wanted)
         i == q.items[n].ref
     IN  /\ n # 0
         /\ q' = DropItem(q, n)
         /\ item' = [item EXCEPT ![i].inserted = FALSE]
         /\ taken' = taken \cup {i}
         /\ fate' = [fate EXCEPT ![i] = Given(Taker, wanted)]
  /\ UNCHANGED exists

\* A waiter registers once.
Fresh(w) ==
  /\ \A n \in DOMAIN q.callbacks : q.callbacks[n].ref # w
  /\ \A i \in Item : fate[i].to # w

\* Mutant: the item is given to the callback and stays in the list.
WaitServedStaysInList(w, wanted) ==
  /\ exists
  /\ Fresh(w)
  /\ LET n == FirstMatching(q, wanted)
         i == q.items[n].ref
     IN  /\ n # 0
         /\ fate' = [fate EXCEPT ![i] = Given(w, wanted)]
  /\ UNCHANGED << q, exists, item, taken >>

(***************************************************************************)
(* queue_wait finds an item: it takes it, runs the callback and releases   *)
(* the item.                                                               *)
(***************************************************************************)
WaitServed(w, wanted) ==
  /\ exists
  /\ Fresh(w)
  /\ LET n == FirstMatching(q, wanted)
         i == q.items[n].ref
     IN  /\ n # 0
         /\ q' = DropItem(q, n)
         /\ item' = [item EXCEPT ![i] = Released([@ EXCEPT !.inserted = FALSE])]
         /\ fate' = [fate EXCEPT ![i] = Given(w, wanted)]
  /\ UNCHANGED << exists, taken >>

\* queue_wait finds none and leaves its callback in the queue.
WaitQueued(w, wanted) ==
  /\ exists
  /\ Fresh(w)
  /\ FirstMatching(q, wanted) = 0
  /\ q' = AddCallback(q, w, wanted)
  /\ UNCHANGED << exists, item, taken, fate >>

(***************************************************************************)
(* queue_peek followed, as the header demands, by queue_item_lock.  Where  *)
(* locks are not held beyond the caller's handler (connection-http.c) the  *)
(* lock and the unlock cancel out and leave no trace.                      *)
(***************************************************************************)
PeekAndLock(wanted) ==
  /\ exists
  /\ LET n == FirstMatching(q, wanted)
         i == q.items[n].ref
     IN  /\ n # 0
         /\ item[i].lockcount < MaxLocks
         /\ item' = [item EXCEPT ![i].lockcount = @ + 1]
  /\ UNCHANGED << q, exists, taken, fate >>

\* Mutant: an unlock without a lock.
UnlockUnlocked(i) ==
  /\ item[i].mem = "live"
  /\ item' = [item EXCEPT ![i].lockcount = @ - 1]
  /\ UNCHANGED << q, exists, taken, fate >>

\* Mutant: the last unlock does not free the item.
UnlockKeeps(i) ==
  /\ item[i].mem = "live"
  /\ item[i].lockcount > 0
  /\ item' = [item EXCEPT ![i].lockcount = @ - 1]
  /\ UNCHANGED << q, exists, taken, fate >>

(***************************************************************************)
(* queue_item_unlock: the last lock on an item that has left the list      *)
(* frees it.  (On an item that was freed under its lock the call reads     *)
(* freed memory; the model does not go on from there.)                     *)
(***************************************************************************)
Unlock(i) ==
  /\ item[i].mem = "live"
  /\ item[i].lockcount > 0
  /\ LET cell == [item[i] EXCEPT !.lockcount = @ - 1]
     IN  item' = [item EXCEPT ![i] = IF cell.inserted THEN cell ELSE Released(cell)]
  /\ UNCHANGED << q, exists, taken, fate >>

\* The caller of queue_take gives its item to queue_item_free.
Free(i) ==
  /\ i \in taken
  /\ item[i].mem = "live"
  /\ item' = [item EXCEPT ![i] = Released(@)]
  /\ taken' = taken \ {i}
  /\ UNCHANGED << q, exists, fate >>

(***************************************************************************)
(* queue_free drops the callbacks without running them and frees every     *)
(* item in the list, locked or not.                                        *)
(***************************************************************************)
FreeQueue ==
  /\ exists
  /\ exists' = FALSE
  /\ q' = NewQueue
  /\ LET left == { q.items[n].ref : n \in DOMAIN q.items }
     IN  /\ item' = [i \in Item |->
                       IF i \in left THEN [item[i] EXCEPT !.mem = "freed"] ELSE item[i]]
         /\ fate' = [i \in Item |->
                       IF i \in left THEN Undelivered("destroyed") ELSE fate[i]]
  /\ UNCHANGED taken

-----------------------------------------------------------------------------
Next ==
  \/ \E i \in Item, k \in AnyKey : PutConsumed(i, k) \/ PutStored(i, k)
  \/ \E k \in AnyKey : Take(k) \/ PeekAndLock(k)
  \/ \E w \in Waiter, k \in AnyKey : WaitServed(w, k) \/ WaitQueued(w, k)
  \/ \E i \in Item : Unlock(i) \/ Free(i)
  \/ FreeQueue

Spec == Init /\ [][Next]_vars

-----------------------------------------------------------------------------
(***************************************************************************)
(* Properties.                                                             *)
(***************************************************************************)
(* Every variable has its type. *)
TypeOK ==
  /\ q \in QueueType(Item, Waiter)
  /\ exists \in BOOLEAN
  /\ item \in [Item -> Cell]
  /\ taken \in SUBSET Item
  /\ fate \in [Item -> Fate]

(* The counters that queue_put, queue_take and queue_peek consult before   *)
(* they scan a list (queue.c:105, 154, 158) agree with the lists after any *)
(* sequence of calls.                                                      *)
Counters == CountersExact(q)

(* No item lies in the queue while a callback that accepts it waits: the   *)
(* short cuts of queue_put and queue_wait never miss a match.              *)
NoStrandedItem == NothingStranded(q)

(* An item's memory is reachable as long as it is allocated: from the list *)
(* of items, from a caller of queue_take who has still to free it, or from *)
(* a lock whose unlock will free it (queue.c:271).                         *)
NoLeak ==
  \A i \in Item : item[i].mem = "live" =>
     \/ \E n \in DOMAIN q.items : q.items[n].ref = i
     \/ i \in taken
     \/ item[i].lockcount > 0

(* The lists never point to freed memory, and `inserted', on which         *)
(* queue_item_unlock (queue.c:271) and queue_item_free_ (queue.c:314)      *)
(* decide, says which allocated items they hold: each item at most once.   *)
ListsMatchMemory ==
  /\ \A n \in DOMAIN q.items :
       item[q.items[n].ref].mem = "live" /\ item[q.items[n].ref].inserted
  /\ \A n, m \in DOMAIN q.items : q.items[n].ref = q.items[m].ref => n = m
  /\ \A i \in Item : item[i].mem = "live" /\ item[i].inserted =>
       \E n \in DOMAIN q.items : q.items[n].ref = i

(* An item that was taken and that nobody has locked is freed by its taker *)
(* alone: not by queue_wait after its callback (queue.c:209), not by       *)
(* queue_free and not by an unlock (queue.c:271), in whatever order peeks, *)
(* locks, takes and frees come.                                            *)
UnlockedTakenStays ==
  [][\A i \in taken \cap taken' :
       item[i].mem = "live" /\ item[i].lockcount = 0 => item'[i].mem = "live"]_vars

(* An item is delivered at most once, to one recipient, and what became of *)
(* it is final.                                                            *)
FateIsFinal ==
  [][\A i \in Item : fate[i].state \in {"given", "destroyed"} => fate'[i] = fate[i]]_vars

(***************************************************************************)
(* The abstract queue: the lists without the keys' and lengths' counters,  *)
(* the recipients without the memory.                                      *)
(***************************************************************************)
Abstract == INSTANCE QueueSpec WITH
  pending <- q.items, waiting <- q.callbacks, open <- exists

(* queue.c implements what queue.h promises.                               *)
ImplementsQueueSpec == Abstract!Spec

-----------------------------------------------------------------------------
(***************************************************************************)
(* Claims of the header.                                                   *)
(***************************************************************************)
(* "queue_take does not need to do this as the item is always available if *)
(* it was taken" (queue.h:69-71): whoever took an item may use it until it *)
(* calls queue_item_free, whatever others do with their locks.             *)
TakenItemIsLive == \A i \in taken : item[i].mem = "live"
=============================================================================
