----------------------------- MODULE QueueSpec ------------------------------
(***************************************************************************)
(* What queue.h promises of a queue, without counters, heap cells, locks   *)
(* or handles: items and waits both in order of arrival, an item goes to   *)
(* the first wait that accepts it, a wait or a take gets the first item it *)
(* accepts, and an item is only ever stored when nobody wants it.          *)
(***************************************************************************)
EXTENDS Matching

CONSTANTS
  Item,     \* the items ever put
  Waiter,   \* the calls of queue_wait
  NoOne,    \* no recipient
  Taker     \* the recipient of an item that queue_take returned

VARIABLES
  pending,  \* the items stored, oldest first
  waiting,  \* the waits not answered yet, oldest first
  fate,     \* fate[i]: what became of item i
  open      \* the queue has not been freed

vars == << pending, waiting, fate, open >>

Fate == [state : {"new", "pending", "given", "destroyed"},
         to : Waiter \cup {Taker, NoOne}, key : AnyKey]

Given(to, key) == [state |-> "given", to |-> to, key |-> key]
Undelivered(state) == [state |-> state, to |-> NoOne, key |-> NoKey]

Init ==
  /\ pending = << >>
  /\ waiting = << >>
  /\ fate = [i \in Item |-> Undelivered("new")]
  /\ open = TRUE

\* n is the first entry of the list with the property.
IsFirstItem(n, wanted) ==
  /\ n \in DOMAIN pending
  /\ Accepts(wanted, pending[n].key)
  /\ \A m \in 1..(n-1) : ~ Accepts(wanted, pending[m].key)

IsFirstWait(n, key) ==
  /\ n \in DOMAIN waiting
  /\ Accepts(waiting[n].key, key)
  /\ \A m \in 1..(n-1) : ~ Accepts(waiting[m].key, key)

-----------------------------------------------------------------------------
\* An item arrives and the first wait that accepts it has it.
Hand(i, key) ==
  /\ open
  /\ fate[i].state = "new"
  /\ \E n \in DOMAIN waiting :
        /\ IsFirstWait(n, key)
        /\ waiting' = RemoveAt(waiting, n)
        /\ fate' = [fate EXCEPT ![i] = Given(waiting[n].ref, waiting[n].key)]
  /\ UNCHANGED << pending, open >>

\* An item arrives that nobody waits for.
Store(i, key) ==
  /\ open
  /\ fate[i].state = "new"
  /\ \A n \in DOMAIN waiting : ~ Accepts(waiting[n].key, key)
  /\ pending' = Append(pending, Entry(i, key))
  /\ fate' = [fate EXCEPT ![i] = Undelivered("pending")]
  /\ UNCHANGED << waiting, open >>

\* Mutant: any item that will do.
DeliverAny(to, wanted) ==
  /\ open
  /\ \E n \in DOMAIN pending :
        /\ Accepts(wanted, pending[n].key)
        /\ pending' = RemoveAt(pending, n)
        /\ fate' = [fate EXCEPT ![pending[n].ref] = Given(to, wanted)]
  /\ UNCHANGED << waiting, open >>

\* Somebody takes the first item that will do.
Deliver(to, wanted) ==
  /\ open
  /\ \E n \in DOMAIN pending :
        /\ IsFirstItem(n, wanted)
        /\ pending' = RemoveAt(pending, n)
        /\ fate' = [fate EXCEPT ![pending[n].ref] = Given(to, wanted)]
  /\ UNCHANGED << waiting, open >>

\* Somebody waits: there is nothing for it yet.
Wait(w, wanted) ==
  /\ open
  /\ \A n \in DOMAIN pending : ~ Accepts(wanted, pending[n].key)
  /\ waiting' = Append(waiting, Entry(w, wanted))
  /\ UNCHANGED << pending, fate, open >>

\* The queue goes away with all that is in it.
Close ==
  /\ open
  /\ open' = FALSE
  /\ pending' = << >>
  /\ waiting' = << >>
  /\ fate' = [i \in Item |->
                IF \E n \in DOMAIN pending : pending[n].ref = i
                THEN Undelivered("destroyed") ELSE fate[i]]

Next ==
  \/ \E i \in Item, k \in AnyKey : Hand(i, k) \/ Store(i, k)
  \/ \E w \in Waiter \cup {Taker}, k \in AnyKey : Deliver(w, k)
  \/ \E w \in Waiter, k \in AnyKey : Wait(w, k)
  \/ Close

Spec == Init /\ [][Next]_vars
=============================================================================
