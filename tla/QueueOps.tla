------------------------------ MODULE QueueOps ------------------------------
(***************************************************************************)
(* struct queue of queue-internal.h and what queue.c does to it, as        *)
(* operators on a record: the list of items and the list of callbacks      *)
(* waiting for one, each in TAILQ order, with the four counters the code   *)
(* keeps next to them.  The counters are not redundant in the code: put    *)
(* and take look at them to decide whether to scan a list at all.          *)
(*                                                                         *)
(* Modules Queue (one queue behind the interface of queue.h) and Server    *)
(* (all the queues of the program) are both built from these operators.    *)
(*                                                                         *)
(* In this and the other modules an operator whose comment begins with     *)
(* `Mutant' is not part of the model: it is a bug the operator after it    *)
(* could have, which the properties must notice.                           *)
(***************************************************************************)
EXTENDS Matching

KeyedPositions(list) == { n \in DOMAIN list : list[n].key # NoKey }

QueueType(I, W) ==
  [items : ListOf(I), callbacks : ListOf(W),
   item_count : Int, keyed_count : Int,
   callback_count : Int, keyed_callback_count : Int]

NewQueue ==
  [items |-> << >>, callbacks |-> << >>,
   item_count |-> 0, keyed_count |-> 0,
   callback_count |-> 0, keyed_callback_count |-> 0]

\* Mutant: an unkeyed item is stored as soon as any callback has a key.
FirstAcceptingAnyKeyed(q, key) ==
  IF q.callback_count > 0 /\ (key = NoKey => q.keyed_callback_count = 0)
  THEN SelectInSeq(q.callbacks, LAMBDA c : Accepts(c.key, key))
  ELSE 0

\* Mutant: the list of callbacks is scanned from its tail.
FirstAcceptingFromTail(q, key) ==
  IF /\ q.callback_count > 0
     /\ key = NoKey => q.keyed_callback_count # q.callback_count
  THEN SelectLastInSeq(q.callbacks, LAMBDA c : Accepts(c.key, key))
  ELSE 0

(***************************************************************************)
(* The position of the callback that queue_put hands an item to, 0 when    *)
(* the item is to be stored.  The list is scanned only when a counter says *)
(* that some callback could take the item.                                 *)
(***************************************************************************)
FirstAccepting(q, key) ==
  IF /\ q.callback_count > 0
     /\ key = NoKey => q.keyed_callback_count # q.callback_count
  THEN SelectInSeq(q.callbacks, LAMBDA c : Accepts(c.key, key))
  ELSE 0

\* Mutant: strcmp for strcasecmp.
FirstMatchingCase(q, wanted) ==
  IF q.item_count # 0 /\ (wanted # NoKey => q.keyed_count > 0)
  THEN SelectInSeq(q.items, LAMBDA e : wanted \in {NoKey, e.key})
  ELSE 0

(***************************************************************************)
(* The position of the item that queue_take and queue_peek find, 0 for     *)
(* NULL, under the same kind of short cut.                                 *)
(***************************************************************************)
FirstMatching(q, wanted) ==
  IF /\ q.item_count # 0
     /\ wanted # NoKey => q.keyed_count > 0
  THEN SelectInSeq(q.items, LAMBDA e : Accepts(wanted, e.key))
  ELSE 0

One(key) == IF key # NoKey THEN 1 ELSE 0

AddItem(q, ref, key) ==
  [q EXCEPT !.items = Append(@, Entry(ref, key)),
            !.item_count = @ + 1,
            !.keyed_count = @ + One(key)]

\* Mutant: the keyed items are not counted down.
DropItemUncounted(q, n) ==
  [q EXCEPT !.items = RemoveAt(@, n), !.item_count = @ - 1]

\* Mutant: the head of the list is removed, whichever item was found.
DropItemHead(q, n) ==
  [q EXCEPT !.items = Tail(@),
            !.item_count = @ - 1,
            !.keyed_count = @ - One(q.items[n].key)]

DropItem(q, n) ==
  [q EXCEPT !.items = RemoveAt(@, n),
            !.item_count = @ - 1,
            !.keyed_count = @ - One(q.items[n].key)]

\* Mutant: the keyed callbacks are not counted.
AddCallbackUncounted(q, ref, key) ==
  [q EXCEPT !.callbacks = Append(@, Entry(ref, key)), !.callback_count = @ + 1]

AddCallback(q, ref, key) ==
  [q EXCEPT !.callbacks = Append(@, Entry(ref, key)),
            !.callback_count = @ + 1,
            !.keyed_callback_count = @ + One(key)]

\* Mutant: the callback is counted out but stays in the list.
DropCallbackStays(q, n) ==
  [q EXCEPT !.callback_count = @ - 1,
            !.keyed_callback_count = @ - One(q.callbacks[n].key)]

DropCallback(q, n) ==
  [q EXCEPT !.callbacks = RemoveAt(@, n),
            !.callback_count = @ - 1,
            !.keyed_callback_count = @ - One(q.callbacks[n].key)]

-----------------------------------------------------------------------------
(***************************************************************************)
(* What the counters have to say for the short cuts to be right.           *)
(***************************************************************************)
CountersExact(q) ==
  /\ q.item_count = Len(q.items)
  /\ q.keyed_count = Cardinality(KeyedPositions(q.items))
  /\ q.callback_count = Len(q.callbacks)
  /\ q.keyed_callback_count = Cardinality(KeyedPositions(q.callbacks))

(***************************************************************************)
(* No item lies in the queue while somebody waits for such an item.        *)
(***************************************************************************)
NothingStranded(q) ==
  \A n \in DOMAIN q.items, m \in DOMAIN q.callbacks :
     ~ Accepts(q.callbacks[m].key, q.items[n].key)
=============================================================================
