------------------------------- MODULE Server -------------------------------
(***************************************************************************)
(* The whole server between its clients and its queues: the manager's      *)
(* lists of queues and wants (manager.c), the HTTP requests                *)
(* (connection-http.c), the WebSocket requests (connection-ws.c) and what  *)
(* the life of a WebSocket connection (ws.c) does to the wants made over   *)
(* it.  Everything runs in the one thread of the event loop, so a handler  *)
(* is one step; what interleaves are the requests, the close handshakes    *)
(* and the ends of the connections.                                        *)
(*                                                                         *)
(* A want is the link between a WebSocket request and its callback in a    *)
(* queue.  Nobody frees it but the callback, so it outlives its connection *)
(* and its queue; a flag tells the callback that the client is gone.       *)
(***************************************************************************)
EXTENDS QueueOps

CONSTANTS
  MQ,         \* the manager's queue objects, each allocated once
  Name,       \* the queue names that clients use
  RandomId,   \* the ids queue_new draws for queues without a name
  StoredAs,   \* StoredAs[n]: the id a queue created under name n gets
  Item,       \* the items ever put
  Want,       \* the wants, one for each WebSocket request, allocated once
  Conn,       \* the WebSocket connections, each accepted once
  Faults      \* may allocations fail inside a handler

ASSUME ServerAssumption ==
  /\ StoredAs \in [Name -> Name]
  /\ RandomId \cap Name = {}
  /\ Faults \in BOOLEAN

VARIABLES
  mqs,      \* manager_context_.queues, in order
  id,       \* id[m]: the id of queue object m, for each one created so far
  queue,    \* queue[m]: its struct queue
  wants,    \* manager_context_.wants
  want,     \* want[w]: the fields of want w, for each one created so far
  conn,     \* conn[c]: the state of connection c
  fate,     \* fate[i]: what became of item i
  frees,    \* frees[i]: how often item i was freed
  process,  \* "running", or "aborted" by the allocator
  reply     \* the last HTTP reply: the request, the status, the id it returned

managerVars == << mqs, id, queue >>
vars == << mqs, id, queue, wants, want, conn, fate, frees, process, reply >>

(***************************************************************************)
(* The states of a connection: "active"; "closing" once a close frame is   *)
(* queued, when nothing more is read and a send fails; "shut" once that    *)
(* frame has left, with active = 0; "broken" when a send failed, with      *)
(* active = 0 while reading goes on; "freed".                              *)
(***************************************************************************)
ConnState == {"none", "active", "closing", "shut", "broken", "freed"}

Ids == Name \cup RandomId

Fate == [state : {"new", "pending", "taken", "sent", "dropped", "destroyed"},
         to : SUBSET Want]

Outcome(state, to) == [state |-> state, to |-> to]

\* f with x mapped to value, whether it was before or not.
Updated(f, x, value) == [y \in DOMAIN f \cup {x} |-> IF y = x THEN value ELSE f[y]]

Init ==
  /\ mqs = << >>
  /\ id = << >>
  /\ queue = [m \in MQ |-> NewQueue]
  /\ wants = {}
  /\ want = << >>
  /\ conn = [c \in Conn |-> "none"]
  /\ fate = [i \in Item |-> Outcome("new", {})]
  /\ frees = [i \in Item |-> 0]
  /\ process = "running"
  /\ reply = [op |-> "none", code |-> 0, id |-> {}]

\* Nothing runs in a process that the allocator has aborted.
Running == process = "running"

\* manager_queue_get without create_new: the first queue of that name, if any.
Lookup(name) ==
  LET n == SelectInSeq(mqs, LAMBDA m : id[m] = name)
  IN  IF n = 0 THEN {} ELSE { mqs[n] }

Replied(op, code) == reply' = [op |-> op, code |-> code, id |-> {}]

(***************************************************************************)
(* The wants of a queue that goes away, or of a connection that does: they *)
(* are marked, not removed.                                                *)
(***************************************************************************)
Marked(ws) ==
  [w \in DOMAIN want |->
     IF w \in ws \cap wants THEN [want[w] EXCEPT !.cancelled = TRUE] ELSE want[w]]

WantsFor(m) == { w \in wants : want[w].queue = m }

\* Mutant: the client is not compared.
WantsOfAll(c) == wants

WantsOf(c) == { w \in wants : want[w].client = c }

-----------------------------------------------------------------------------
(***************************************************************************)
(* HTTP requests.                                                          *)
(***************************************************************************)
\* Queue information.  (The list of queues, too, changes nothing.)
Info(name) ==
  /\ Running
  /\ Replied("info", IF Lookup(name) # {} THEN 200 ELSE 404)
  /\ UNCHANGED << managerVars, wants, want, conn, fate, frees, process >>

\* A peek locks the item and unlocks it when the reply is written.
Peek(name, key) ==
  /\ Running
  /\ LET found == \E m \in Lookup(name) : FirstMatching(queue[m], key) # 0
     IN  Replied("peek", IF found THEN 200 ELSE 404)
  /\ UNCHANGED << managerVars, wants, want, conn, fate, frees, process >>

Create(m, newId) ==
  /\ mqs' = Append(mqs, m)
  /\ id' = Updated(id, m, newId)
  /\ queue' = [queue EXCEPT ![m] = NewQueue]
  /\ reply' = [op |-> "new", code |-> 200, id |-> {newId}]
  /\ UNCHANGED << wants, want, conn, fate, frees, process >>

\* POST /queues without a name.
NewUnnamed ==
  /\ Running
  /\ \E m \in MQ \ DOMAIN id, r \in RandomId :
        /\ \A k \in DOMAIN id : id[k] # r
        /\ Create(m, r)

\* Mutant: a queue is created without looking for one of that name.
NewNamedAlways(name) ==
  /\ Running
  /\ \E m \in MQ \ DOMAIN id : Create(m, StoredAs[name])

\* POST /queues with a name nobody has used.
NewNamed(name) ==
  /\ Running
  /\ Lookup(name) = {}
  /\ \E m \in MQ \ DOMAIN id : Create(m, StoredAs[name])

\* POST /queues with the name of a queue that exists.
NewExisting(name) ==
  /\ Running
  /\ Lookup(name) # {}
  /\ reply' = [op |-> "new", code |-> 200, id |-> {name}]
  /\ UNCHANGED << managerVars, wants, want, conn, fate, frees, process >>

\* manager_queue_free and queue_free: callbacks and items go without a word.
FreeQueue(m) ==
  /\ mqs' = RemoveFirst(mqs, m)
  /\ queue' = [queue EXCEPT ![m] = NewQueue]
  /\ LET left == { queue[m].items[n].ref : n \in DOMAIN queue[m].items }
     IN  /\ fate' = [i \in Item |-> IF i \in left THEN Outcome("destroyed", {}) ELSE fate[i]]
         /\ frees' = [i \in Item |-> IF i \in left THEN frees[i] + 1 ELSE frees[i]]
  /\ UNCHANGED << id, wants, conn, process >>

(***************************************************************************)
(* POST /queues when the reply cannot be encoded: the queue is freed,      *)
(* existing or new, and its wants are not even marked.                     *)
(***************************************************************************)
NewFails(name) ==
  /\ Running
  /\ Faults
  /\ \E m \in Lookup(name) : FreeQueue(m)
  /\ Replied("new", 500)
  /\ UNCHANGED want

\* DELETE /queue.
Delete(name) ==
  /\ Running
  /\ \E m \in Lookup(name) :
        /\ want' = Marked(WantsFor(m))
        /\ FreeQueue(m)
  /\ Replied("delete", 200)

(***************************************************************************)
(* DELETE /queue asks manager_queue_get to create the queue, so a name     *)
(* that does not exist is created and freed at once.                       *)
(***************************************************************************)
DeleteUnknown(name) ==
  /\ Running
  /\ Lookup(name) = {}
  /\ Replied("delete", 200)
  /\ UNCHANGED << managerVars, wants, want, conn, fate, frees, process >>

-----------------------------------------------------------------------------
(***************************************************************************)
(* WebSocket deliveries.                                                   *)
(***************************************************************************)
Becomes(c, state) == conn' = [conn EXCEPT ![c] = state]

(***************************************************************************)
(* What may come of a message sent over connection c: whether it leaves,   *)
(* the state of the connection after it, and whether the close callback    *)
(* was run.  wslay refuses a message that follows a close frame; a         *)
(* connection that is not active ignores it.                               *)
(***************************************************************************)
Sendings(c) ==
  { o \in [sent : BOOLEAN, state : ConnState, closed : BOOLEAN] :
      \/ /\ conn[c] # "closing"
         /\ o = [sent |-> conn[c] = "active", state |-> conn[c], closed |-> FALSE]
      \/ /\ conn[c] = "closing"
         /\ o = [sent |-> FALSE, state |-> "shut", closed |-> TRUE]
      \/ /\ conn[c] = "active" /\ Faults
         /\ o = [sent |-> FALSE, state |-> "broken", closed |-> TRUE] }

(***************************************************************************)
(* connection_queue_callback_wait_ for want w (with these fields) and item *)
(* i, followed by the queue_item_free of its caller in queue.c.  A         *)
(* cancelled want swallows the item.  Otherwise it is sent, or, when it    *)
(* cannot be encoded, an error message is.  The close callback marks this  *)
(* want, too.  Both the callback and its caller free the item, which the   *)
(* allocator notices or not.                                               *)
(***************************************************************************)
Callback(w, fields, i) ==
  LET c == fields.client
      Kept == want' = Updated(want, w, fields)
  IN  /\ \/ /\ fields.cancelled
            /\ fate' = [fate EXCEPT ![i] = Outcome("dropped", {w})]
            /\ Kept
            /\ UNCHANGED conn
         \/ /\ ~ fields.cancelled
            /\ \E o \in Sendings(c), encoded \in BOOLEAN :
                 /\ ~ encoded => Faults
                 /\ LET state == IF encoded /\ o.sent THEN "sent" ELSE "dropped"
                    IN  fate' = [fate EXCEPT ![i] = Outcome(state, {w})]
                 /\ Becomes(c, o.state)
                 /\ IF o.closed
                    THEN want' = Updated(Marked(WantsOf(c)), w, [fields EXCEPT !.cancelled = TRUE])
                    ELSE Kept
      /\ wants' = wants \ {w}
      /\ frees' = [frees EXCEPT ![i] = 2]
      /\ process' \in {"running", "aborted"}

\* POST /put: queue_put finds a callback.
PutDelivered(name, key) ==
  /\ Running
  /\ \E i \in Item, m \in Lookup(name) :
       LET n == FirstAccepting(queue[m], key)
           w == queue[m].callbacks[n].ref
       IN  /\ fate[i].state = "new"
           /\ n # 0
           /\ queue' = [queue EXCEPT ![m] = DropCallback(@, n)]
           /\ Callback(w, want[w], i)
  /\ Replied("put", 200)
  /\ UNCHANGED << mqs, id >>

\* POST /put: queue_put stores the item.
PutStored(name, key) ==
  /\ Running
  /\ \E i \in Item, m \in Lookup(name) :
       /\ fate[i].state = "new"
       /\ FirstAccepting(queue[m], key) = 0
       /\ queue' = [queue EXCEPT ![m] = AddItem(@, i, key)]
       /\ fate' = [fate EXCEPT ![i] = Outcome("pending", {})]
  /\ Replied("put", 200)
  /\ UNCHANGED << mqs, id, wants, want, conn, frees, process >>

\* Mutant: the item taken is still in the list.
TakeStaysInList(name, key) ==
  /\ Running
  /\ \E m \in Lookup(name) :
       LET n == FirstMatching(queue[m], key)
           i == queue[m].items[n].ref
       IN  /\ n # 0
           /\ frees' = [frees EXCEPT ![i] = @ + 1]
           /\ fate' = [fate EXCEPT ![i] = Outcome("taken", {})]
  /\ Replied("take", 200)
  /\ UNCHANGED << managerVars, wants, want, conn, process >>

\* POST /take: the item is in the reply, or lost when it cannot be encoded.
Take(name, key) ==
  /\ Running
  /\ \E m \in Lookup(name) :
       LET n == FirstMatching(queue[m], key)
           i == queue[m].items[n].ref
       IN  /\ n # 0
           /\ queue' = [queue EXCEPT ![m] = DropItem(@, n)]
           /\ frees' = [frees EXCEPT ![i] = @ + 1]
           /\ \/ /\ fate' = [fate EXCEPT ![i] = Outcome("taken", {})]
                 /\ Replied("take", 200)
              \/ /\ Faults
                 /\ fate' = [fate EXCEPT ![i] = Outcome("dropped", {})]
                 /\ Replied("take", 500)
  /\ UNCHANGED << mqs, id, wants, want, conn, process >>

\* POST /take finds nothing, POST /put or /take no queue.
NotFound(name, key) ==
  /\ Running
  /\ \A m \in Lookup(name) : FirstMatching(queue[m], key) = 0
  /\ Replied("take", 404)
  /\ UNCHANGED << managerVars, wants, want, conn, fate, frees, process >>

-----------------------------------------------------------------------------
(***************************************************************************)
(* WebSocket requests.  Messages are read while the connection is active,  *)
(* and also after a failed send.  (A request for a queue that does not     *)
(* exist changes nothing: an error message is its reply.)                  *)
(***************************************************************************)
Reads(c) == conn[c] \in {"active", "broken"}

Wanted(c, m) == [queue |-> m, client |-> c, cancelled |-> FALSE]

\* The want's item is there: queue_wait takes it and runs the callback.
WaitServed(c, name, key) ==
  /\ Running
  /\ Reads(c)
  /\ \E w \in Want \ DOMAIN want, m \in Lookup(name) :
       LET n == FirstMatching(queue[m], key)
       IN  /\ n # 0
           /\ queue' = [queue EXCEPT ![m] = DropItem(@, n)]
           /\ Callback(w, Wanted(c, m), queue[m].items[n].ref)
  /\ UNCHANGED << mqs, id, reply >>

\* It is not: the want stays in the manager, its callback in the queue.
WaitQueued(c, name, key) ==
  /\ Running
  /\ Reads(c)
  /\ \E w \in Want \ DOMAIN want, m \in Lookup(name) :
       /\ FirstMatching(queue[m], key) = 0
       /\ queue' = [queue EXCEPT ![m] = AddCallback(@, w, key)]
       /\ wants' = wants \cup {w}
       /\ want' = Updated(want, w, Wanted(c, m))
  /\ UNCHANGED << mqs, id, conn, fate, frees, process, reply >>

-----------------------------------------------------------------------------
(***************************************************************************)
(* The life of a connection.                                               *)
(***************************************************************************)
ConnStep == UNCHANGED << managerVars, wants, fate, frees, process, reply >>

\* The upgrade succeeds.
Open(c) ==
  /\ Running
  /\ conn[c] = "none"
  /\ Becomes(c, "active")
  /\ ConnStep
  /\ UNCHANGED want

\* A close frame arrives (or a protocol error): the reply is queued.
CloseFrame(c) ==
  /\ Running
  /\ conn[c] = "active"
  /\ Becomes(c, "closing")
  /\ ConnStep
  /\ UNCHANGED want

\* Mutant: the wants of a closed connection are removed and freed, while
\* their callbacks stay in the queues.
DrainedRemoves(c) ==
  /\ Running
  /\ conn[c] \in {"closing", "broken"}
  /\ Becomes(c, "shut")
  /\ wants' = wants \ WantsOf(c)
  /\ UNCHANGED << managerVars, want, fate, frees, process, reply >>

\* The output buffer with the close frame is empty: evws_close_.
Drained(c) ==
  /\ Running
  /\ conn[c] \in {"closing", "broken"}
  /\ Becomes(c, "shut")
  /\ want' = Marked(WantsOf(c))
  /\ ConnStep

\* A read, or the send of an error message, fails: evws_close_.
ReadOrSendFails(c) ==
  /\ Running
  /\ Faults
  /\ Reads(c)
  /\ Becomes(c, "broken") \/ Becomes(c, "shut")
  /\ want' = Marked(WantsOf(c))
  /\ ConnStep

\* Mutant: the close callback runs only before the close handshake.
EofActive(c) ==
  /\ Running
  /\ conn[c] \notin {"none", "freed"}
  /\ Becomes(c, "freed")
  /\ want' = IF conn[c] = "active" THEN Marked(WantsOf(c)) ELSE want
  /\ ConnStep

\* The client is gone.  The close callback runs only if active is still set.
Eof(c) ==
  /\ Running
  /\ conn[c] \notin {"none", "freed"}
  /\ Becomes(c, "freed")
  /\ want' = IF conn[c] \in {"active", "closing"} THEN Marked(WantsOf(c)) ELSE want
  /\ ConnStep

\* The connection fails: the error callback always runs.
ConnError(c) ==
  /\ Running
  /\ conn[c] \notin {"none", "freed"}
  /\ Becomes(c, "freed")
  /\ want' = Marked(WantsOf(c))
  /\ ConnStep

-----------------------------------------------------------------------------
Http ==
  \/ NewUnnamed
  \/ \E name \in Ids :
       \/ name \in Name /\ NewNamed(name)
       \/ Info(name) \/ NewExisting(name) \/ NewFails(name)
       \/ Delete(name) \/ DeleteUnknown(name)
       \/ \E key \in AnyKey :
            \/ PutDelivered(name, key) \/ PutStored(name, key)
            \/ Take(name, key) \/ Peek(name, key) \/ NotFound(name, key)

WebSocket ==
  \E c \in Conn :
    \/ Open(c) \/ CloseFrame(c) \/ Drained(c) \/ ReadOrSendFails(c)
    \/ Eof(c) \/ ConnError(c)
    \/ \E name \in Ids, key \in AnyKey :
         WaitServed(c, name, key) \/ WaitQueued(c, name, key)

Next == Http \/ WebSocket

Spec == Init /\ [][Next]_vars

-----------------------------------------------------------------------------
(***************************************************************************)
(* Properties.                                                             *)
(***************************************************************************)
Live == ToSet(mqs)

Waits(w) == \E m \in Live : \E n \in DOMAIN queue[m].callbacks : queue[m].callbacks[n].ref = w

(* Every variable has its type. *)
TypeOK ==
  /\ Live \subseteq DOMAIN id
  /\ DOMAIN id \subseteq MQ
  /\ \A m \in DOMAIN id : id[m] \in Ids
  /\ queue \in [MQ -> QueueType(Item, Want)]
  /\ wants \subseteq DOMAIN want
  /\ DOMAIN want \subseteq Want
  /\ \A w \in DOMAIN want :
       want[w] \in [queue : DOMAIN id, client : Conn, cancelled : BOOLEAN]
  /\ conn \in [Conn -> ConnState]
  /\ fate \in [Item -> Fate]
  /\ frees \in [Item -> 0..2]
  /\ process \in {"running", "aborted"}
  /\ reply.id \subseteq Ids

(* The pointer that queue_wait keeps for the callback is never dangling,   *)
(* and a want is never without a callback while its queue lives: the wants *)
(* of the live queues are exactly the callbacks in them, one for one,      *)
(* whatever closes or goes first (manager.c:282-312, queue.c:60-68).       *)
CallbacksAreWants ==
  \A m \in Live :
    LET list == queue[m].callbacks
    IN  /\ { list[n].ref : n \in DOMAIN list } = WantsFor(m)
        /\ Len(list) = Cardinality(WantsFor(m))

(* A want that is not cancelled has a client whose memory is still there,  *)
(* so that the callback may send to it (connection-ws.c:249): every way a  *)
(* connection can end marks the wants it leaves, "remove all wants for a   *)
(* closed connection" (manager.h:61).  Where sends can fail it is a claim  *)
(* that the code does not keep: a connection whose send failed goes on     *)
(* reading (ws.c:409), and nothing marks what it asks for from then on.    *)
UncancelledClientExists ==
  \A w \in wants : ~ want[w].cancelled => conn[want[w].client] # "freed"

(* While nothing fails, an item that was handed to a request is thrown     *)
(* away only if the client had begun to leave (connection-ws.c:208), and   *)
(* the request of a connected client has been answered with an item or     *)
(* waits for one, unless its queue was deleted (queue.c:66).               *)
AnsweredUnlessGone ==
  ~ Faults =>
    /\ \A i \in Item : fate[i].state = "dropped" =>
         \E w \in fate[i].to : conn[want[w].client] # "active"
    /\ \A w \in DOMAIN want : conn[want[w].client] = "active" =>
         \/ Waits(w) \/ want[w].queue \notin Live
         \/ \E i \in Item : fate[i] = Outcome("sent", {w})

(* In no queue does an item lie while a want for it, dead or alive, waits, *)
(* and all the counters are exact.                                         *)
QueuesConsistent ==
  \A m \in Live : CountersExact(queue[m]) /\ NothingStranded(queue[m])

(* An item is in one place: pending exactly when one queue of the manager  *)
(* holds it, and there once.                                               *)
ItemInOnePlace ==
  \A i \in Item :
    LET at(m) == { n \in DOMAIN queue[m].items : queue[m].items[n].ref = i }
        places == UNION { {m} \X at(m) : m \in Live }
    IN  Cardinality(places) = IF fate[i].state = "pending" THEN 1 ELSE 0

(* One request is answered with one item at most, and not while it still   *)
(* waits for one.                                                          *)
OneItemPerWant ==
  \A w \in DOMAIN want :
    LET answers == { i \in Item : w \in fate[i].to }
    IN  Cardinality(answers) <= 1 /\ (answers # {} => ~ Waits(w))

(* Two queues share an id, so that every request means the older of them,  *)
(* only where the conversion of names (manager.c:153-170) has made that id *)
(* of another name; where it leaves names alone, never: the look-up of     *)
(* manager.c:129-147 finds every queue that is there, however many were    *)
(* deleted or failed to be created in between.                             *)
IdsAreUnique ==
  \A m, k \in DOMAIN mqs : id[mqs[m]] = id[mqs[k]] =>
     m = k \/ \E name \in Name : StoredAs[name] = id[mqs[m]] /\ name # id[mqs[m]]

(* The positions of list whose entries are not in next. *)
Departed(list, next) ==
  { n \in DOMAIN list : \A k \in DOMAIN next : next[k].ref # list[n].ref }

(* Nobody is overtaken in a queue that lives on: an item leaves it only    *)
(* after every older one that it could stand in for, one with its key, or  *)
(* any if it has none, and a want is served only after every older one     *)
(* that asks for as much, whichever of the short cuts of queue.c:105, 154  *)
(* and 158 led to it and whether or not the clients are still there.       *)
FirstComeFirstServed ==
  [][\A m \in Live \cap Live' :
       /\ \A n \in Departed(queue[m].items, queue'[m].items) :
            \A k \in 1..(n - 1) :
              ~ Accepts(queue[m].items[n].key, queue[m].items[k].key)
       /\ \A n \in Departed(queue[m].callbacks, queue'[m].callbacks) :
            \A k \in 1..(n - 1) :
              ~ Accepts(queue[m].callbacks[k].key, queue[m].callbacks[n].key)]_vars

(* What has ended stays ended, whoever else closes, deletes or asks: an    *)
(* item that was sent, taken, dropped or destroyed with its queue never    *)
(* comes back or goes to somebody else (queue.c:114, 207), and a want that *)
(* was cancelled stays so until its callback swallows an item              *)
(* (connection-ws.c:208, manager.c:282-312).                               *)
OutcomesAreFinal ==
  [][/\ \A i \in Item : fate[i].state \notin {"new", "pending"} => fate'[i] = fate[i]
     /\ \A w \in DOMAIN want : want[w].cancelled => want'[w].cancelled]_vars

-----------------------------------------------------------------------------
(***************************************************************************)
(* Claims of the documentation and the headers.                            *)
(***************************************************************************)
(* "free an item. this should only be called on items that have been       *)
(* taken" (queue.h:76), and queue.c frees the item it gives a callback: no *)
(* item is freed twice.                                                    *)
ItemFreedOnce == \A i \in Item : frees[i] <= 1

(* "name - optional, name of the new queue to create" (API.md:50): the     *)
(* queue is found under the name it was created with.                      *)
NamedQueueIsFound ==
  [][\A name \in Name : NewNamed(name) => Lookup(name)' # {}]_vars

(* "The queue handler will be called whenever an item matching the         *)
(* specified queue and key arrives" (disqueue.py:81-82): an item that      *)
(* arrives in a queue where the request of a connected client, for any     *)
(* item, waits is sent to that client or to another.                       *)
ArrivalIsNotified ==
  [][\A i \in Item, w \in wants :
       LET m == want[w].queue
       IN  /\ fate[i].state = "new" /\ fate'[i].state # "new" /\ queue'[m] # queue[m]
           /\ conn[want[w].client] = "active"
           /\ \E n \in DOMAIN queue[m].callbacks : queue[m].callbacks[n] = Entry(w, NoKey)
           => fate'[i].state = "sent"]_vars
=============================================================================
