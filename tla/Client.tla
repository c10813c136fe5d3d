------------------------------- MODULE Client -------------------------------
(***************************************************************************)
(* A client program, Python (disqueue.py, protocol.py) or TypeScript       *)
(* (disqueue.ts), with handlers for the items of one queue, its WebSocket  *)
(* connection, and the queue behind the server, which is that of           *)
(* QueueSpec.  Each handler has its request answered with an item, runs,   *)
(* and asks again under a new identifier: in Python from a thread of its   *)
(* own, in TypeScript from within the event loop.                          *)
(***************************************************************************)
EXTENDS Matching, Naturals

CONSTANTS
  Handler,  \* the handlers, each registered once
  KeyOf,    \* KeyOf[h]: the key that handler h asks for, or NoKey
  MaxItem,  \* bound: items put in the queue, numbered in the order they are put
  MaxId,    \* bound: identifiers, numbered in the order they are made
  NoOne, Taker

Item == 1..MaxItem
Id == 1..MaxId

ASSUME ClientAssumption ==
  /\ KeyOf \in [Handler -> AnyKey]
  /\ MaxItem \in Nat
  /\ MaxId \in Nat
  /\ NoOne \notin Id /\ Taker \notin Id

VARIABLES
  language,             \* of the client program
  waiting_handlers,     \* registered and not asked for, in order
  waiting_identifiers,  \* waiting_identifiers[id]: the handler a request is for
  running,              \* handlers that run, and threads about to ask again
  last_id,              \* the identifiers made so far are 1..last_id
  connection,           \* "none", "open", "closed", or the program has "ended"
  up, down,             \* the requests and the replies on their way
  pending, waiting, fate, open,  \* the queue at the server
  handled,              \* handled[h]: the items that handler h was called with
  asked,                \* the handlers whose first request has been sent
  failed                \* the handlers that have raised an exception

client == << language, waiting_handlers, waiting_identifiers, running, last_id >>
channel == << connection, up, down >>
queue == << pending, waiting, fate, open >>
history == << handled, asked, failed >>
vars == << client, channel, queue, history >>

Q == INSTANCE QueueSpec WITH Waiter <- Id

Request(id, h) == [id |-> id, key |-> KeyOf[h]]

\* An error has no identifier (connection-ws.c:184).
Error == [id |-> 0, item |-> 0]

Init ==
  /\ language \in {"python", "typescript"}
  /\ waiting_handlers = << >>
  /\ waiting_identifiers = << >>
  /\ running = {}
  /\ last_id = 0
  /\ connection = "none"
  /\ up = << >> /\ down = << >>
  /\ Q!Init
  /\ handled = [h \in Handler |-> << >>]
  /\ asked = {} /\ failed = {}

-----------------------------------------------------------------------------
(***************************************************************************)
(* The server.  An item for a request goes to its connection while there   *)
(* is one, and nowhere otherwise.                                          *)
(***************************************************************************)
\* Mutant: a reply that has not left yet is overwritten.
ReplyOverwrites(i, id) ==
  down' = IF connection = "open" THEN << [id |-> id, item |-> i] >> ELSE down

Reply(i, id) ==
  down' = IF connection = "open" THEN Append(down, [id |-> id, item |-> i]) ELSE down

\* Some program puts an item in the queue, takes one, or deletes the queue.
Put(i, key) ==
  /\ \A j \in 1..(i-1) : fate[j].state # "new"
  /\ \/ Q!Hand(i, key) /\ Reply(i, fate'[i].to)
     \/ Q!Store(i, key) /\ UNCHANGED down
  /\ UNCHANGED << client, connection, up, history >>

Take(key) == Q!Deliver(Taker, key) /\ UNCHANGED << client, channel, history >>

Delete == Q!Close /\ UNCHANGED << client, channel, history >>

ReadRequest ==
  /\ connection = "open"
  /\ up # << >>
  /\ up' = Tail(up)
  /\ LET r == Head(up)
     IN  \/ Q!Deliver(r.id, r.key) /\ \E i \in Item : fate'[i].to = r.id /\ Reply(i, r.id)
         \/ Q!Wait(r.id, r.key) /\ UNCHANGED down
         \/ ~ open /\ down' = Append(down, Error) /\ UNCHANGED queue
  /\ UNCHANGED << client, connection, history >>

\* The connection goes with all that is on its way.
Close(state) ==
  /\ connection' = state
  /\ up' = << >> /\ down' = << >>

Disconnect ==
  /\ connection = "open"
  /\ Close("closed")
  /\ UNCHANGED << client, queue, history >>

-----------------------------------------------------------------------------
(***************************************************************************)
(* The client.                                                             *)
(***************************************************************************)
\* In TypeScript nothing else happens while a handler runs.
LoopIsFree == language = "python" \/ running = {}

\* The decorator, which may also be used after run().
QueueHandler(h) ==
  /\ h \notin asked
  /\ \A n \in DOMAIN waiting_handlers : waiting_handlers[n] # h
  /\ LoopIsFree
  /\ connection # "ended"
  /\ waiting_handlers' = Append(waiting_handlers, h)
  /\ UNCHANGED << language, waiting_identifiers, running, last_id, channel, queue, history >>

\* The connection opens: all that are registered are asked for and forgotten.
NotifyOpen ==
  LET first(n) == last_id + n
      new == DOMAIN waiting_handlers
  IN  /\ connection = "none"
      /\ last_id + Len(waiting_handlers) <= MaxId
      /\ connection' = "open"
      /\ waiting_identifiers' = [id \in { first(n) : n \in new } |->
                                    waiting_handlers[id - last_id]]
      /\ last_id' = last_id + Len(waiting_handlers)
      /\ up' = [n \in new |-> Request(first(n), waiting_handlers[n])]
      /\ waiting_handlers' = << >>
      /\ asked' = ToSet(waiting_handlers)
      /\ UNCHANGED << language, running, down, queue, handled, failed >>

\* Mutant: the identifier is kept.
NotifyMessageKeeps ==
  /\ connection = "open"
  /\ LoopIsFree
  /\ down # << >>
  /\ LET m == Head(down)
     IN  /\ m.id \in DOMAIN waiting_identifiers
         /\ running' = running \cup
              { [handler |-> waiting_identifiers[m.id], item |-> m.item, id |-> 0] }
         /\ handled' = [handled EXCEPT ![waiting_identifiers[m.id]] = Append(@, m.item)]
  /\ down' = Tail(down)
  /\ UNCHANGED << language, waiting_handlers, waiting_identifiers, last_id, connection, up,
                  queue, asked, failed >>

\* An item arrives: its handler starts to run.
NotifyMessage ==
  /\ connection = "open"
  /\ LoopIsFree
  /\ down # << >>
  /\ LET m == Head(down)
     IN  /\ m.id \in DOMAIN waiting_identifiers
         /\ waiting_identifiers' = RestrictDomain(waiting_identifiers, LAMBDA id : id # m.id)
         /\ running' = running \cup
              { [handler |-> waiting_identifiers[m.id], item |-> m.item, id |-> 0] }
         /\ handled' = [handled EXCEPT ![waiting_identifiers[m.id]] = Append(@, m.item)]
  /\ down' = Tail(down)
  /\ UNCHANGED << language, waiting_handlers, last_id, connection, up, queue, asked, failed >>

\* Mutant: an error is not thrown, and a handler is called without an item.
NotifyErrorRuns ==
  /\ connection = "open"
  /\ LoopIsFree
  /\ down # << >>
  /\ Head(down) = Error
  /\ \E h \in asked : running' = running \cup { [handler |-> h, item |-> 0, id |-> 0] }
  /\ down' = Tail(down)
  /\ UNCHANGED << language, waiting_handlers, waiting_identifiers, last_id, connection, up,
                  queue, history >>

\* An error arrives and is thrown: it ends a program in TypeScript; in Python
\* whatever the library makes of it.  A loop that stops reading on an open
\* connection comes to the same as a closed one: errors tell of a queue that
\* is gone, and from then on nothing but errors is on its way.
NotifyError ==
  /\ connection = "open"
  /\ LoopIsFree
  /\ down # << >>
  /\ Head(down) = Error
  /\ \/ language = "python" /\ down' = Tail(down) /\ UNCHANGED << connection, up >>
     \/ language = "python" /\ Close("closed")
     \/ language = "typescript" /\ Close("ended")
  /\ UNCHANGED << client, queue, history >>

\* Mutant: the request is sent and its identifier forgotten.
HandlerReturnsUnnoted(h) ==
  /\ last_id < MaxId
  /\ \E t \in running :
        /\ t.handler = h /\ t.id = 0
        /\ last_id' = last_id + 1
        /\ up' = IF connection = "open" THEN Append(up, Request(last_id', h)) ELSE up
        /\ running' = running \ {t}
  /\ UNCHANGED << language, waiting_handlers, waiting_identifiers, connection, down, queue,
                  history >>

\* Mutant: the handler is not asked for again.
HandlerReturnsOnce(h) ==
  /\ \E t \in running : t.handler = h /\ t.id = 0 /\ running' = running \ {t}
  /\ UNCHANGED << language, waiting_handlers, waiting_identifiers, last_id, channel, queue,
                  history >>

\* The handler returns and a new identifier is noted for it.
HandlerReturns(h) ==
  /\ last_id < MaxId
  /\ \E t \in running :
        /\ t.handler = h /\ t.id = 0
        /\ last_id' = last_id + 1
        /\ waiting_identifiers' = [id \in DOMAIN waiting_identifiers \cup {last_id'} |->
                                      IF id = last_id' THEN h ELSE waiting_identifiers[id]]
        /\ running' = (running \ {t}) \cup { [t EXCEPT !.id = last_id'] }
  /\ UNCHANGED << language, waiting_handlers, channel, queue, history >>

\* The handler is asked for again; after the end of the connection, in vain.
ResendWant(h) ==
  /\ \E t \in running :
        /\ t.handler = h /\ t.id # 0
        /\ running' = running \ {t}
        /\ up' = IF connection = "open" THEN Append(up, Request(t.id, h)) ELSE up
  /\ UNCHANGED << language, waiting_handlers, waiting_identifiers, last_id, connection,
                  down, queue, history >>

\* The handler raises an exception: its thread ends, or its program.
HandlerRaises(h) ==
  /\ \E t \in running :
        /\ t.handler = h /\ t.id = 0
        /\ running' = running \ {t}
  /\ failed' = failed \cup {h}
  /\ IF language = "python" THEN UNCHANGED channel ELSE Close("ended")
  /\ UNCHANGED << language, waiting_handlers, waiting_identifiers, last_id, queue,
                  handled, asked >>

-----------------------------------------------------------------------------
Others ==
  \/ \E key \in AnyKey : Take(key) \/ \E i \in Item : Put(i, key)
  \/ Delete

Program(h) == HandlerReturns(h) \/ HandlerRaises(h) \/ ResendWant(h)

Next ==
  \/ Others
  \/ ReadRequest \/ Disconnect
  \/ NotifyOpen \/ NotifyMessage \/ NotifyError
  \/ \E h \in Handler : QueueHandler(h) \/ Program(h)

\* The server and the client's loop do what there is to do, and handlers return.
Spec ==
  /\ Init /\ [][Next]_vars
  /\ WF_vars(ReadRequest)
  /\ WF_vars(NotifyMessage \/ NotifyError)
  /\ \A h \in Handler : WF_vars(Program(h))

-----------------------------------------------------------------------------
(***************************************************************************)
(* Properties.                                                             *)
(***************************************************************************)
(* Every variable has its type. *)
TypeOK ==
  /\ language \in {"python", "typescript"}
  /\ waiting_handlers \in Seq(Handler)
  /\ DOMAIN waiting_identifiers \subseteq 1..last_id
  /\ ToSet(waiting_identifiers) \subseteq Handler
  /\ running \subseteq [handler : Handler, item : Item, id : 0..last_id]
  /\ last_id \in 0..MaxId
  /\ connection \in {"none", "open", "closed", "ended"}
  /\ up \in Seq([id : 1..last_id, key : AnyKey])
  /\ down \in Seq([id : 0..last_id, item : 0..MaxItem])
  /\ pending \in ListOf(Item) /\ waiting \in ListOf(Id)
  /\ fate \in [Item -> Q!Fate] /\ open \in BOOLEAN
  /\ handled \in [Handler -> Seq(Item)]
  /\ asked \subseteq Handler /\ failed \subseteq asked

Identifiers(h) == { id \in DOMAIN waiting_identifiers : waiting_identifiers[id] = h }
Threads(h) == { t \in running : t.handler = h /\ t.id = 0 }

(* A handler that was asked for and has not raised an exception runs or    *)
(* has one request of its own outstanding, never two and never none,       *)
(* whatever becomes of the connection (disqueue.py:121-126).  One that has *)
(* raised, or was registered after the connection opened, has none.        *)
OneRequestPerHandler ==
  \A h \in Handler :
    Cardinality(Identifiers(h)) + Cardinality(Threads(h)) =
      IF h \in asked \ failed THEN 1 ELSE 0

Ids(list) == { list[n].id : n \in DOMAIN list }
Waits == { waiting[n].ref : n \in DOMAIN waiting }
Unsent == { t.id : t \in running } \ {0}
Answers == Ids(down) \ {0}
Places == << Unsent, Ids(up), Waits, Answers >>

(* While the connection is open and the queue exists, an identifier that   *)
(* the client knows is in one place: with a thread that is about to send   *)
(* it, on its way to the server, in the queue, or on its way back; and no  *)
(* others are anywhere, so that pop finds what it looks for                *)
(* (disqueue.py:121, :140, disqueue.ts:87).                                *)
RequestIsSomewhere ==
  connection = "open" =>
    /\ UNION ToSet(Places) \subseteq DOMAIN waiting_identifiers
    /\ open => \A id \in DOMAIN waiting_identifiers :
         Quantify(DOMAIN Places, LAMBDA n : id \in Places[n]) = 1

(* An item that the queue gave to a request reaches one handler, once,     *)
(* while the connection lasts.                                             *)
GivenIsHandled ==
  \A i \in Item :
    fate[i].to \in Id /\ connection = "open" =>
      (\E n \in DOMAIN down : down[n].item = i)
        # \E h \in Handler : i \in ToSet(handled[h])

(* A handler only ever sees items that were given for the key it was       *)
(* registered with, and each of them after those put before it, also when  *)
(* items pile up while it runs (disqueue.py:130).                          *)
HandledInOrder ==
  \A h \in Handler :
    /\ \A i \in ToSet(handled[h]) : fate[i].key = KeyOf[h]
    /\ \A m, n \in DOMAIN handled[h] : m < n => handled[h][m] < handled[h][n]

Wanted(i, h) ==
  /\ connection = "open" /\ h \in asked \ failed
  /\ \E n \in DOMAIN pending : pending[n].ref = i /\ Accepts(KeyOf[h], pending[n].key)

(* An item that is stored while a handler for it runs does not stay: some  *)
(* handler is called with it or another program takes it, unless the       *)
(* connection, the queue or the handler comes to an end ("The queue        *)
(* handler will be called whenever an item matching the specified queue    *)
(* and key arrives", disqueue.py:81-83).                                   *)
ItemsAreHandled ==
  \A i \in Item, h \in Handler :
    Wanted(i, h) ~> \/ \E g \in Handler : i \in ToSet(handled[g])
                    \/ fate[i].to = Taker
                    \/ connection # "open" \/ ~ open \/ h \in failed
=============================================================================
