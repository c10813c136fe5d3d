# A TLA+ model of disqueue

disqueue is a queue server in C. Clients create queues, put items in them and
take items out over HTTP; over a WebSocket they ask for an item and get it when
it comes. This directory holds TLA+ modules that model the program, TLC
configurations that check them on small instances, and proofs that TLAPS checks
for every value of the constants. File names below are relative to `src/src/`
of the repository unless they start with another directory.

    tlc -config MCQueue.cfg MCQueue      (and the other .cfg files)
    tlapm QueueProofs.tla

## The system

The server is one process with one thread: libevent calls a handler for each
event, and a handler runs to its end. What interleaves is therefore whole
handlers: HTTP requests, WebSocket messages, close handshakes, ends of
connections. Inside a handler the calls nest deeply: a put runs a waiting
client's callback, which sends over that client's connection, which may fail and
close it, which walks the list of all wants.

| Component | State | Operations | Interacts with |
|---|---|---|---|
| queue (`queue.c`) | list of items, list of callbacks, four counters; per item a lock count and a flag `inserted` | put, take, peek, wait, lock, unlock, free an item, free the queue | runs callbacks given to `queue_wait` |
| manager (`manager.c`) | lists of queues, wants and servers | get or create a queue, free it, create and free a want, mark the wants of a queue or of a connection, add a server, shut down | owns the queues; a want points to a queue and to a connection, and a callback in the queue points to the want |
| HTTP handlers (`connection-http.c`) | none | list, new, info, delete, take, peek, put; authentication | manager, queue, protocol, auth |
| WebSocket handlers (`connection-ws.c`) | none | wait request, delivery callback, close and error callbacks; authentication | manager, queue, ws |
| WebSocket library (`ws.c`) | connections: `active`, the wslay context, the buffered socket | upgrade, receive, send, close handshake, end and error of the socket | libevent and wslay (external), the callbacks above |
| protocol (`protocol.c`) | none | encode replies and items as JSON | json-c (external) |
| auth (`auth.c`, `auth-plaintext.c`) | list of user names and passwords, time of the file last read | verify a header, reload the file when it changed | file system |
| config (`config.c`) | servers and authentications of the configuration file, both newest first | load, look up an authentication, iterate | file system, auth |
| main (`main.c`), ssl (`ssl.c`) | the event base; one SSL context for the process | start the servers one by one, run, shut down | all the above |
| clients (`clients/python`, `clients/typescript`) | handlers by queue, outstanding requests by identifier | register a handler, open, handle a message, ask again | the server |

### What is hard, and what makes each part correct

* **queue.** Two short cuts read counters instead of lists (`queue.c:105`, `:158`);
  they are right only if each of the six places that change a list changes the
  right counters. Keyed and unkeyed waits and items mix in one list each. An
  item is freed by whichever of take, unlock, wait or `queue_free` comes last.
  Correct means: items go first come first served to the waits that accept them,
  nothing is stranded, nothing is delivered twice, nothing leaks and nothing
  freed stays in a list.
* **manager and wants.** A want is pointed to by its callback and points to its
  queue and connection, and all three go in any order. Correct means: what can
  still be followed exists; what is gone is marked.
* **handlers.** A step in the middle of a handler can fail after the state
  changed. Correct means: items are neither duplicated nor mislaid, and a
  request is answered.
* **ws.** Six ways to end a connection; `active` is cleared by some of them, read
  by others. Correct means: the callbacks that clean up run before the memory
  goes, whichever end comes first.
* **auth.** The file changes under the program, also while it is read; a reading
  fails half way. Correct means: the list in memory never loses an entry of the
  last complete version, holds none that the file never had, and catches up with
  the next version; and after a reload the file's entries and no others count.
* **config, main, ssl.** Failures half way, several servers on one context,
  authentications found by name, one address for two servers. Correct means: startup ends, and a server that
  runs is guarded as its entry says and finds a complete certificate and key.
* **protocol and replies.** A reply is made of up to eight JSON objects, pointed
  to by variables that are used for several of them in turn, and any allocation may
  fail. Correct means: each is released once, and there is one reply, whose status is
  true; only an upgrade whose connection cannot be made takes a second.
* **clients.** Asking again after each item, from another thread, over a
  connection that may be gone. Correct means: a handler keeps exactly one request
  alive, no item is lost on the way, and none that it is for stays in the queue.

`PROJECT.json` lists each of these hazards at its line.

## The modules

| Module | Models | Built on |
|---|---|---|
| `Matching` | when an item satisfies a request | |
| `QueueOps` | `struct queue` and what `queue.c` does to its lists and counters | `Matching` |
| `QueueSpec` | the abstract queue: two sequences and a record of who got what | `Matching` |
| `Queue` | one queue behind `queue.h`, with the memory of its items, locks and takers | `QueueOps`, `QueueSpec` |
| `Server` | all queues, wants, HTTP and WebSocket requests, connections | `QueueOps` |
| `Auth` | the password file and the list in memory that answers for it | |
| `Startup` | the command line, the configuration file, the SSL context, the servers and the callbacks they register | |
| `Reply` | a handler from its entry to its reply, with the JSON objects it makes | |
| `Frontend` | requests: dispatch, authentication, upgrade, handler, reply | `Startup`, `Reply` |
| `Client` | a client program with its handlers, its connection, and the queue behind the server | `QueueSpec` |
| `QueueOpsProofs`, `QueueProofs` | lemmas about the operators; theorems about `Queue` | `Queue` |
| `AuthProofs` | theorems about `Auth` | `Auth` |
| `ServerProofs` | theorems about `Server` | `Server`, `QueueOpsProofs` |
| `StartupProofs`, `ReplyProofs`, `FrontendProofs` | lemmas about `Startup` and about `Reply`; theorems about all three | `Frontend` |
| `ClientProofs` | theorems about `Client` | `Client`, `QueueOpsProofs` |
| `MCQueue`, `MCServer`, `MCAuth`, `MCFrontend`, `MCClient` | values for the constants | the module of that name |

### Queue

`q` is the struct. Its lists are sequences in TAILQ order whose entries name the
item or callback and its key. `item[i]` is the heap cell of item `i`: unused, live
or freed, `inserted`, `lockcount`. `taken` holds the items that a caller got from
`queue_take` and has not yet given to `queue_item_free`. `fate` records, for the
properties only, where each item went. An action is one call from start to end:
`queue_put` is `PutConsumed` or `PutStored`, `queue_wait` is `WaitServed` or
`WaitQueued`, `queue_peek` with the lock that `queue.h:46-49` demands is
`PeekAndLock`. A call that finds nothing or cannot allocate changes nothing.
The model's callbacks do not call back into the queue, as the program's do not,
and do not free the item they are given; what the program's own callback does
is in `Server`.

The header permits a lock to be held from one call to another; the program never holds
one longer than a handler, which for the queue is as if there were none. `MaxLocks` bounds
the locks on one item.

### Server

`mqs`, `id` and `queue` are the manager's queues: `manager_queue` objects in order,
the id and the struct of each. An object is allocated once, so that a pointer to
a freed one is told from a pointer to its successor. `wants` is the manager's
list, `want[w]` the fields of a want (which stay known after it is freed), `conn[c]`
the state of a connection: `active`; `closing` when a close frame is queued, so
nothing more is read and wslay refuses messages; `shut` when that frame has left
and `active` is 0; `broken` when a read or a send failed, `active` is 0 and reading
goes on; `freed`. `reply` keeps the last HTTP reply.

An action is a handler with all it calls. `Callback` is the delivery callback with
the sending of the item, the closing of the connection when the send fails, the
want freed, the item freed by the callback and again by `queue.c`. What the
allocator does with the second free is left open: the process ends or goes on.
Ids are equal up to letter case in `manager_queue_get`, so the names in the model
stand for ids up to letter case. `Sendings` are the outcomes of sending a message
over a connection in each state. `StoredAs` says which id a queue has that was
created under a name: the name itself where `unsigned long` has four bytes, and a
name with its second and third group zero where it has eight (`manager.c:167`).
Random ids are assumed never to repeat. `Faults` says whether allocations, sends
and receives may fail inside a handler.

wslay and libevent are modelled by how `ws.c` relies on them: a close frame
queues its reply, a message queued after it is refused, the write callback runs
when the buffer is empty, an end or an error of the socket is reported once.

### Auth

`connection_http_authenticated` and its WebSocket counterpart ask `auth_verify` before
every request, and the only method there is, `auth-plaintext.c`, looks at its file
each time. `file` is that file: `there` for `stat`, `readable` for `fopen`, its lines and
its time stamp in seconds. `passwords` and `source_last_read` are the fields of
`struct auth_plaintext`; a line is one of the credentials or `Malformed`, which
stands for everything `auth_entry_plaintext_add_` turns down, an empty line included,
and for a header that has nothing behind `Basic `: `auth_skip_basic` reads on past its
end, so that it is taken for anything (`Decoded`). The other variables are for the
properties: what the last complete reading saw (`loaded`), what the file ever had
(`listed`), the last answer (`verdict`).

The server runs in one thread, but the file belongs to someone else, so a request
that reads the file takes two steps: `Modified` is the `stat`, and `OpenFails`,
`ReadEnds(n)` or `ReadStops(n)` is the rest, with the file possibly another by then.
`ReadEnds(n)` with `n` less than the length of the file is a line that could not be
allocated, which `auth_read_line` reports like the end of the file. The other
actions are those of the administrator: `Write` replaces the file, at the time of now
or with an older time stamp, `Protect` removes it or changes its permissions.

A file is replaced as a whole and not while it is being read. The list is a set,
because the order of its entries decides nothing; that each reload adds the same
entries again is not visible in the model.

### Startup

`file` is the configuration file that `-c` names, or none: two lists of entries,
from the set `File`. `phase` is the place in `main()`: command line, authentications,
servers, the beginning of the loop, the loop that creates servers, then running,
exited or crashed. `authentications` and `servers` are the lists of
`global_config_context_`, newest first, as indices of the file's entries; `iter` is
`current_iter`; `ssl` is `ssl_global_context_` with the two files it has loaded;
`callbacks[n]` is what `manager_add_server` registered for entry `n`: for each path
whether credentials are checked, and against which authentication.

An action is one entry of the file processed, or one server created; each has a
counterpart that fails. Two servers cannot have one host and port (`Starts`);
whether other addresses exclude each other is up to the system, and
`CreateServerFails` may always happen. `CreateServerCrashes` is the call of `config_server_get_authentication` for a
server that has none. A set of at most one element stands for a pointer that may
be NULL. OpenSSL is external: it loads the files of the set `Pem`, and takes a key
with the certificate of the same name only.

### Reply

One handler at a time runs from its entry to its reply. `held` is what the variables
of the C functions point to: `base`, `key` and `value` of `protocol_encode_item`, `msg`,
`status`, `container` and `payload` of `protocol_create_base`, `response` and `detail` of the
delivery, and so on. A function that builds objects is a sequence of statements, `New`,
`Add`, `Set` (an assignment, of NULL too) and `Puts`, as the code has them; `todo` holds
those to be executed, one a step. A `New` or an `Add` may fail, and then what is done is
what `ErrorLabel` says of the variable that failed. `heap` records which
objects were made, which are directly inside which, which were released and which of
them twice. `json_object_put` releases what a variable points to and what is inside
that, three levels deep: a key is in an item, that in a response, that in a reply. A
variable that was not set to NULL when its object was added elsewhere, or is not put
where it should be, shows in `ReleasedOnce`, which looks at the heap when the
handler returns. `botched` remembers the calls of `protocol_create_base` that failed:
it tests the message and releases the payload (`protocol.c:85-90`), so that the message
is left behind, and both it and its caller release the payload; these are the two
exceptions `ReleasedOnce` makes. `HandlerRefuses` is every refusal before an object is
made. What the operations do to queues and items is in `Server`; here they only
succeed or fail.

### Frontend

The two composed: when the loop runs, requests come for any server, path, method
and credentials. `accepted` is the set of authentications that accept the credentials
of a request: what `auth_verify` says, which is the subject of `Auth`. `request` is the
request whose handler has been entered, `upgraded` the one that became the open
connection, whose messages reach the handlers without being checked again. There
is one client at a time: HTTP requests come while no connection is open, which the
handlers, having no state of their own, cannot tell from the general case.

`ParamsMissing` is a callback whose parameters could not be allocated when its
server was created; `UpgradeWithoutHeaders` copies a header that is not there. Both
end the process. An upgrade is answered by a page of libevent's with status 400 or 500
(`UpgradeRejected`, `UpgradeFails`), by the callback's refusal (`UpgradeRefused`), or by
101 (`Switch`), after which the connection is made (`ConnectionNew`) or a second
reply follows the first (`ConnectionNewFails`, `ws.c:199-204`). `replies` is what was sent
in answer to the last request.

### Client

`language` chooses between the two programs: in Python a handler runs in a thread of
its own, in TypeScript inside the event loop, where nothing else happens
meanwhile (`LoopIsFree`) and an exception ends the program. `waiting_handlers` and
`waiting_identifiers` are the dictionaries of that name; `running` holds the calls of
handlers, from the message that started them to the request that follows;
`HandlerReturns` notes the new identifier and `ResendWant` sends it, two steps, because
the loop runs between them in Python. `up` and `down` are what is on its way. The
queue is that of `QueueSpec`, used through `INSTANCE`, with the identifiers as its
waiters; that `queue.c` implements it is proved in `QueueProofs`. Other programs put
and take items and delete the queue. An item for a connection that has closed is
given and dropped, as in `Server`.

An error ends a program in TypeScript. In Python it may close the connection or be
ignored; that autobahn stops reading on an open connection is no third case, since
errors tell of a queue that is gone and nothing but errors would follow.

Identifiers are numbers up to `MaxId`; `NotifyOpen` asks for all registered handlers at
once, if there are numbers left for all of them. There is one client, one queue and
one connection, opened once, because neither
program connects again. `sendMessage` is called from a handler's thread; the model
takes it as one step, although autobahn does not promise that.

## The runs

| Run | Constants | What it shows |
|---|---|---|
| `MCQueue` | 3 items, 2 waiters, keys a, A, b, up to 2 locks | `NoStrandedItem`, `NoLeak`, `ListsMatchMemory`, `Counters`, `TypeOK`, `UnlockedTakenStays`, `FateIsFinal` for every use of the interface, and that `Queue` implements `QueueSpec` |
| `MCServer` | 2 queue objects, one named, 2 items, 2 wants, 2 connections, key a or none | `UncancelledClientExists`, `AnsweredUnlessGone` without failures |
| `MCServer_faults` | one connection, three names of which one is stored as another, failures anywhere | `CallbacksAreWants`, `QueuesConsistent`, `ItemInOnePlace`, `OneItemPerWant`, `IdsAreUnique`, `TypeOK`; `FirstComeFirstServed`, `OutcomesAreFinal` |
| `MCAuth` | 2 credentials, files of up to 2 lines, 3 seconds, failures anywhere | `OnlyListedAdmitted`, `ListedAdmitted`, `OnlyLateChangesMissed`, `TypeOK` |
| `MCFrontend` | files of up to 2 authentications and 2 servers, 2 certificates, failures anywhere | `ServesAsConfigured`, `ContextReady`, `HandlersAreGuarded`, `AnsweredTruthfully`, `ReleasedOnce`, `TypeOK`; `StartupEnds`, `HandlersFinish` |
| `MCClient` | 2 handlers, for key a and for any item, keys a and b, 3 items, 5 identifiers | `OneRequestPerHandler`, `RequestIsSomewhere`, `GivenIsHandled`, `HandledInOrder`, `TypeOK`; `ItemsAreHandled` |

Bounds. Keys a and A are equal up to case, b is not, and there are waits and items
without a key: every outcome of `Accepts` occurs, at the head of a list and behind
an entry that does not match. Three items and two waiters let a list hold an
entry before, at and after the one removed. Two locks on one item tell the last
unlock from another. Two queue objects let a queue be deleted and created again
under its name while old wants still point to the old one; two wants let one be
cancelled in front of another. Items, waiters, wants, queues and connections are
each used once, which is what bounds the runs; a state in which all are used up is
the end of a run, so deadlock is not checked. In `MCAuth`, two lines let the reading
stop before, between and after two entries, and three seconds let a version be
older than, as old as and newer than the one read, with a third one after it;
credentials are interchangeable. In `MCFrontend` two names differ in letter case
only, and the entries of servers are those that start (plain, with a certificate,
with another) and one for each way to fail: no authentication, an unknown one, a
port above `SHRT_MAX`, no key, a key that does not fit, a file that cannot be loaded, no
host, another host with the same port; an entry that fails is tried alone and after
one that starts. `Lossy` bounds which callbacks may lack their parameters, one HTTP path and the WebSocket one, and one
callback lacks them at a time. A list of queues has up to two names, so that one can
fail behind another. The run has 795,091 states and takes two minutes. In `MCClient`
identifiers never run out: there are as many as handlers and items together. Three items let one be handled, one on its
way and one stored. Symmetry is used only where all properties are invariants or
say what a single step may do, as the refinement does, whose abstract queue treats
items and waiters alike.

Fairness. `Frontend` assumes weak fairness of startup and of the handler that runs:
one thread that does not wait for anything goes on. Nothing is assumed of the
clients; requests need not come. `Client` assumes weak fairness of the server reading
a request that has arrived, of the client's loop handling a message that has
arrived, and of each handler, which returns or raises and then sends: the
operating system schedules both programs and TCP delivers while the connection
lasts. It is not assumed that items are put, that connections stay open or that
handlers succeed. A handler that never returns would void `ItemsAreHandled`. Under the
same assumptions `StartupEnds` says less than it may seem: that no loop of `main()` runs
for ever. The runs of the other modules assume no fairness.

### Where the code and its documentation part

Each of these runs checks one statement and TLC finds it violated.

| Run | Statement | What happens |
|---|---|---|
| `MCQueue_TakenItemIsLive` | an item is always available to whoever took it (`queue.h:69-71`) | peek and lock, another takes, unlock: `queue.c:271` frees the item under its taker |
| `MCServer_ItemFreedOnce` | only taken items are given to `queue_item_free` (`queue.h:76`) | every delivery to a want frees the item in the callback and in `queue.c` |
| `MCServer_NamedQueueIsFound` | a queue may be given a name (`API.md:50`) | where `unsigned long` has eight bytes the id stored is another |
| `MCServer_ArrivalIsNotified` | a handler is called whenever an item for it arrives (`disqueue.py:81-82`) | the want of a client that has closed takes the item (`connection-ws.c:208`), while another client waits behind it |
| `MCAuth_OnlyValidAdmitted` | credentials are accepted when valid (`auth.h:39`) | reading a changed file adds its entries to the old ones, and an entry that was removed stays accepted |
| `MCFrontend_NothingPutTwice` | who puts an object when a function fails (`protocol.h:31-33`) | `protocol_create_base` puts the payload, and so do both its callers |

The program itself holds no lock past a handler, so the first of these does not
happen to it; `UnlockedTakenStays` is what remains true of the interface.

Some statements of the documentation that the code does not keep have no run of their
own.

* "An example configuration is provided in `src/config.json`" (`README.md:20`): its server
  names no authentication, and `config.c:138` follows a NULL pointer for it
  (`CreateServerCrashes`).
* "Remove all wants for a closed connection" (`manager.h:61`) fails when sends may fail:
  with `Faults` TRUE, `UncancelledClientExists` is violated, because a failed send clears
  `active` (`ws.c:409`), the connection reads one more request, and its end then skips the
  close callback (`ws.c:380`), so that the new want keeps a pointer to freed memory.
* "SSL is enabled in the configuration file, per server" (`Security.md:6-9`), but the
  context is loaded once, and the certificate of the last secured entry of the file is
  that of all (`ssl.c:65`). `ContextReady` says what the shared context does guarantee.
* `auth_verify` "returns 1 if credentials are valid" (`auth.h:39`), but a line of the
  password file that cannot be allocated ends the reading as if the file ended there
  (`auth-plaintext.c:412`): who is listed below it is refused until the file changes.
  `ListedAdmitted` and `OnlyLateChangesMissed` are about what was read.
* "The queue handler will be called whenever an item matching the specified queue and
  key arrives" (`disqueue.py:81-82`) fails also when the connection ends with an item on
  its way (`Disconnect`); `GivenIsHandled` holds while it lasts.

"Remove all wants for this queue" (`manager.h:58`) only marks them, and `queue_free`
drops the callbacks that would free them. "One to one response to requests" (`API.md:173`) does
not hold for a request whose queue is deleted, nor when a cancelled want is first in
line: `AnsweredUnlessGone` states what is left of it. `usage()` names a default
configuration that runs a server on 127.0.0.1:3682, while without `-c` the program ends
with "no servers to run on" (`main.c:99`, `BeginFails`). Others a single line contradicts:
`queue_free` ignores the lock under which an item "will not be deleted"
(`queue-internal.h:47-48`, `queue.c:72`); `DELETE /queue` of an unknown queue
creates it, deletes it and succeeds (`connection-http.c:474`), where `API.md:94` says
404 (`DeleteUnknown` in `Server`); `protocol.c:86` releases the payload where the
message is meant, which leaks the message (`ErrorLabel`).

## What is proved

`QueueProofs` proves of `Queue`, for every set of items, waiters and keys (with
`NoKey` not a key), every `Fold`, and every bound on locks:

* `TypeCorrect`, `CountersCorrect`, `NoItemIsStranded`, `ListsAgreeWithMemory`,
  `NoItemLeaks`: `Spec` implies always `TypeOK`, `Counters`, `NoStrandedItem`,
  `ListsMatchMemory`, `NoLeak`;
* `UnlockedTakenItemsStay`, `DeliveredAtMostOnce`: the action properties
  `UnlockedTakenStays` and `FateIsFinal`, with or without locks held;
* `QueueImplementsQueueSpec`: every behaviour of `Queue` is one of `QueueSpec` under
  the mapping pending = `q.items`, waiting = `q.callbacks`, open = `exists`.

The argument has two layers. `ListInv`, the types with the counters, is inductive
by itself: `QueueOpsProofs` shows for each operator on the struct that it keeps both,
the number of keyed entries of a sequence with one removed being the only hard
part (`KeyedRemove`). With exact counters the short cuts are harmless:
`FirstAcceptingProperties` and `FirstMatchingProperties` say that each function
returns the first entry that matches and 0 only when none does. The second layer,
`IInv`, adds what `NoLeak` and `NoStrandedItem` need to be inductive: an item is
unused in memory exactly as long as it is new in the record, a listed item is
live, inserted and pending, it is listed once, an inserted live item is listed,
and a taken item has left the list. `Init => IInv` and `IInv /\ [Next]_vars => IInv'`
are proved action by action; the theorems follow, the refinement from the
properties of the two functions.

`AuthProofs` proves of `Auth`, for all credentials, lengths of the file and clocks, and
with or without failing allocations: `AuthTypeCorrect`, `NobodyElseAdmitted`,
`EverybodyListedAdmitted` and `LaterVersionsAreRead`, which say that `TypeOK`,
`OnlyListedAdmitted`, `ListedAdmitted` and `OnlyLateChangesMissed` always hold. The
inductive invariant bounds the list in memory from both sides: it holds at least
the entries of the last complete reading and at most those the file ever had. The
first needs that a reading that stops half way only adds; the second that what is
added was in the file at the time it was opened, whatever `stat` saw.

`ServerProofs` proves of `Server`, for all sets of queue objects, items, wants,
connections, keys and names:

* `ServerTypeCorrect`, `QueuesStayConsistent`, `CallbacksHaveTheirWants`,
  `ItemsInOnePlace`, `WantsGetOneItem`: always `TypeOK`, `QueuesConsistent`,
  `CallbacksAreWants`, `ItemInOnePlace`, `OneItemPerWant`, whatever fails;
* `NobodyIsOvertaken`, `OutcomesStayFinal`: the action properties
  `FirstComeFirstServed` and `OutcomesAreFinal`, whatever fails;
* `ClientsAreThere`, `RequestsAreAnswered`: always `UncancelledClientExists`,
  `AnsweredUnlessGone`, assuming `~ Faults`: with failing sends the first is false (see
  above);
* `IdsStayUnique`: always `IdsAreUnique`, for every `StoredAs`: two queues of the manager
  have one id only where a name that is stored as that id is another than it, as
  happens where `unsigned long` has eight bytes.

The inductive invariant has a part for each list and for what ties them together.
`ManagerInv`: the struct of every queue object is `Sound`, that is typed, with exact
counters, each item and callback in it once and none stranded, and one that the
manager does not list is empty. `WantInv` ties callbacks to wants in both directions:
it is what makes it safe for a callback to follow its pointer, and it is disturbed
by put (the callback leaves the queue and the want is freed in the same step), by
delete (the callbacks go, the wants stay and are marked) and by wait. `ItemInv` and
`FateInv` tie the items in the queues to the record of what became of each. The
lemmas of `QueueOpsProofs` say what each operation of `queue.c` does to the set of
names in a list (`Refs`), so that the proofs about the server never look inside one.
`FirstComeFirstServed` alone does: as each name is in a list once, the only entry to
leave is the one the scan found (`OneDeparts`), the counters being exact the scan found
the first that matches (`DropItemInTurn`, `DropCallbackInTurn`), and an older entry that
would do as well for the one that left would have matched too, since `Accepts` is
transitive (`AcceptsTransitive`). `OutcomesAreFinal` rests on `ItemInv`: what a handler
gives away is new or pending.
`ClientInv`, inductive only while nothing fails, says why a want that is not
cancelled may be sent to: its connection is active or closing, because each of the
ways to leave those two states marks the wants of the connection first.

`FrontendProofs` proves of `Frontend`, for every set of configuration files and
certificates: `FrontendTypeCorrect`, `ServersAreConfigured`, `ContextStaysReady`,
`HandlersStayGuarded` and `RepliesAreTrue`, which say that `TypeOK`,
`ServesAsConfigured`, `ContextReady`, `HandlersAreGuarded` and `AnsweredTruthfully` always
hold. `StartupInv` (in `StartupProofs`) follows the lists through the loops of
`main()`: they hold the entries read so far in reverse, those of them that have
become servers are the ones before `iter`, each of these has its callbacks as its
entry says, and the context has what the last secured one among them named. That
requests leave all this alone is one lemma. `GuardInv` says of the request in a
handler and of the one that was upgraded that it has passed the check; a message
over the upgraded connection is not checked again, so the second part is needed for
the first. `ReplyInv` (in `ReplyProofs`) has three
parts. `TypeInv` says of each step which statements may still be in `todo`
(`Allowed`): only those of `protocol_create_base` touch `container`, and which object they
put there depends on whether a success or a failure is made. `StatusInv` therefore has
the status before it is sent: what is in `container` agrees with `code`, and on the way
to an error reply that is never 200. `SentInv` says how much was sent, by step.
`AnswerInv` (in `FrontendProofs`) adds the replies of `ws.c`: after a 101 the handler is still
switching, the connection is open, or a second reply was sent.

`ClientProofs` proves of `Client`, for all handlers, keys, numbers of items and of
identifiers, and for both languages: `ClientTypeCorrect`, `HandlersHaveOneRequest`,
`RequestsAreSomewhere`, `GivenIsAlwaysHandled` and `ItemsComeInOrder`, which say that
`TypeOK`, `OneRequestPerHandler`, `RequestIsSomewhere`, `GivenIsHandled` and
`HandledInOrder` always hold. `HandledInOrder` is the last of a chain: a handler sees
items in order because the item in a reply on its way is younger than those the
handler has seen and older than the pending ones it would take (`NextInv`); that
because the queue gives the first that matches, items are pending in the order they
were put and no item is pending that a waiting request would take (`QueueInv`); and
that only one reply for the handler is on its way because an identifier is in one
place, and there once (`PlacesInv`), and a handler has one identifier or one thread
(`HandlerInv`). `SeenInv` adds that what was seen was given to requests that are done
with, without which the item of a reply could not be told from an earlier one.

Assumed: `KeyAssumption`, `QueueAssumption`, `AuthAssumption`, `ServerAssumption`,
`StartupAssumption` and `ClientAssumption`, all of which TLC evaluates on the runs.
Those of `Startup` say that the lists of a configuration file are finite and that
`None`, for no file and no path, is neither; those of `Client` that the other
programs are none of its identifiers.

Every invariant and action property that a passing run checks is proved, and so is
the refinement, except `ReleasedOnce`. What it says is about a finite part of the model,
the variables, objects and statements of one handler, which no constant enlarges and
which `Return` brings back to where it began; `MCFrontend` explores it exhaustively,
every operation with a failure at every statement. Out of the prover's reach and left to TLC: liveness under fairness
(`StartupEnds`, `HandlersFinish`, `ItemsAreHandled`), enabledness, and what recursive
definitions compute. The models declare no recursive operator.

## Not modelled

* Allocation failures in `queue.c` (each returns before it changes anything).
* libevent, wslay, OpenSSL, json-c, autobahn and the `ws` package beyond what is
  said above; the texts of replies; the options of the command line; the build.
* `manager_shutdown` and the end of the process: `event_base_dispatch` does not return
  while a server listens, and nothing stops it. (If it did, `manager.c:104` would
  loop for ever, as it removes no server from its list.)
* The conversion between names and the bytes of an id (`manager.c:153-170`): names
  stand for ids, and `StoredAs` says which id a name becomes. `sscanf`'s leniency with
  short groups is left out.
* In `ws.c`: messages that a callback keeps, closing from the server's side, and
  `evws_free` of a server with connections, none of which the program uses; the
  accept key of the upgrade.
* In the clients: `client.py` and `client.ts`, which make one HTTP request per call and
  keep nothing; the cache in `queue()`; several clients in one Python process, which
  share the dictionaries of the class (`disqueue.py:28`); the choice of the port
  (`disqueue.py:171` takes 443 for every URL that is not `http`).

## The plan

Done: `Matching`, `QueueOps`, `QueueSpec`, `Queue`, `Server`, `Auth`, `Startup`, `Reply`,
`Frontend`, `Client`, and the proofs about each of them.

That `queue.c` implements `QueueSpec` is proved of one queue behind its interface. Of the
queues of `Server`, whose record of an item does not say which queue it was in,
`QueuesConsistent`, `ItemInOnePlace`, `FirstComeFirstServed` and `OutcomesAreFinal` say
the same in parts.

Left, as a model: `Uuid`, the conversion of names as functions on groups of digits for
both widths of `unsigned long`, checked against the identity.
