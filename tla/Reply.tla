------------------------------- MODULE Reply -------------------------------
(***************************************************************************)
(* From the entry of a handler to its reply (protocol.c, and the second    *)
(* half of connection-http.c and connection-ws.c): the JSON objects that a *)
(* handler builds, wraps, sends and releases through its variables, when   *)
(* any allocation on the way may fail.  One reply is built at a time.      *)
(***************************************************************************)
EXTENDS Integers, Sequences

CONSTANT MemoryFails  \* may allocations fail

VARIABLES
  op,       \* the operation that is being answered
  step,     \* where its handler is
  todo,     \* the statements to be executed before the next step
  failed,   \* has one of them failed, and sent control to the error label
  held,     \* what the variables of the functions that run point to
  heap,     \* the objects made for the operation
  code,     \* the status of the reply
  replies,  \* what has been sent in answer to it
  botched   \* the calls of protocol_create_base that failed

jsonVars == << todo, failed, held, heap, botched >>
replyVars == << op, step, jsonVars, code, replies >>

\* "ask" is a WebSocket request, "wait" the delivery of an item to one; a request
\* that is refused before its handler is called is for none.
Op == {"none", "take", "peek", "list", "new", "info", "put", "delete", "ask", "wait"}

-----------------------------------------------------------------------------
(***************************************************************************)
(* Objects and variables.  An object has one reference: json_object_put    *)
(* releases it and what was added to it.  A variable that still points to  *)
(* it, or to what has been added elsewhere, does not know.                 *)
(***************************************************************************)
Object == {"item", "key", "value", "list", "first", "second", "name", "info",
           "response", "id", "status", "reply", "message", "failure_status", "failure"}

Var == {"base", "key", "value", "object", "list", "str", "name", "info", "response",
        "detail", "msg", "status", "container", "payload"}

\* The objects of protocol_create_base.
Wrapping == {"status", "reply", "message", "failure_status", "failure"}

NULL == "NULL"
Points == Object \cup {NULL}

NoObjects == [made |-> {}, inside |-> [o \in Object |-> {}], released |-> {}, twice |-> {}]

\* These objects and those directly inside them.
Opened(h, objects) == objects \cup UNION { h.inside[o] : o \in objects }

\* An object and all that is inside it: at the deepest the key, in an item, in
\* a response, in a reply.
Whole(h, o) == Opened(h, Opened(h, Opened(h, {o})))

json_object_put(h, o) ==
  IF o = NULL THEN h
  ELSE [h EXCEPT !.released = @ \cup Whole(h, o),
                 !.twice = @ \cup (Whole(h, o) \cap h.released)]

\* What becomes of the heap when o is added to container c.
Added(h, o, c) == [h EXCEPT !.inside[c] = @ \cup ({o} \ {NULL})]

-----------------------------------------------------------------------------
(***************************************************************************)
(* Statements.                                                             *)
(***************************************************************************)
Statement ==
  [do : {"new"}, var : Var, arg : Object] \cup [do : {"add"}, var : Var, arg : Var]
    \cup [do : {"set"}, var : Var, arg : Var \cup {NULL}]
    \cup [do : {"put"}, var : Var, arg : {NULL}]

New(v, o) == [do |-> "new", var |-> v, arg |-> o]  \* v = json_object_new_...()
Add(v, c) == [do |-> "add", var |-> v, arg |-> c]  \* json_object_object_add_ex(c, ..., v)
Set(v, w) == [do |-> "set", var |-> v, arg |-> w]  \* v = w
Puts(vs) == [k \in DOMAIN vs |-> [do |-> "put", var |-> vs[k], arg |-> NULL]]

\* Mutant: the key still has its variable when it has been added.
EncodeItemKeepsKey(key) ==
  << New("base", "item") >>
    \o (IF key THEN << New("key", "key") >> ELSE << Set("key", NULL) >>)
    \o << Add("key", "base"), New("value", "value"), Add("value", "base") >>

protocol_encode_item(key) ==
  << New("base", "item") >>
    \o (IF key THEN << New("key", "key") >> ELSE << Set("key", NULL) >>)
    \o << Add("key", "base"), Set("key", NULL),
          New("value", "value"), Add("value", "base") >>

list_foreach_callback(o) ==
  << New("str", o), Add("str", "list"), Set("str", NULL) >>

\* What a handler does up to the call of connection_http_payload_ or
\* connection_ws_payload_; a list of up to two names.
Builds(o) ==
  CASE o \in {"take", "peek"} ->
         { protocol_encode_item(key) \o << Set("object", "base") >> : key \in BOOLEAN }
    [] o = "list" ->
         { << New("list", "list") >> \o names :
             names \in { << >>, list_foreach_callback("first"),
                         list_foreach_callback("first") \o list_foreach_callback("second") } }
    [] o = "new"  -> { << New("name", "name") >> }
    [] o = "info" -> { << New("detail", "name"), New("info", "info"), Add("detail", "info") >> }
    [] o = "wait" ->
         { << New("response", "response"), New("detail", "id"), Add("detail", "response") >>
             \o protocol_encode_item(key)
             \o << Set("detail", "base"), Add("detail", "response") >> : key \in BOOLEAN }
    [] o \in {"put", "delete"} -> { << >> }
    [] o \in {"none", "ask"} -> {}

\* The variable that is then passed on.
Payload ==
  CASE op \in {"take", "peek"} -> held["object"]
    [] op \in {"list", "new", "info"} -> held[IF op = "new" THEN "name" ELSE op]
    [] op = "wait" -> held["response"]
    [] OTHER -> NULL

protocol_create_base(message, status, container, payload) ==
  (IF message = NULL THEN << >> ELSE << New("msg", message) >>)
    \o << New("status", status), New("container", container),
          Add("msg", "container"), Set("msg", NULL),
          Add("status", "container"), Set("status", NULL) >>
    \o (IF payload = NULL THEN << >>
        ELSE << Add("payload", "container"), Set("payload", NULL) >>)

(***************************************************************************)
(* Where a statement about v that fails sends control.  In                 *)
(* protocol_create_base a message that was made stands for the payload,    *)
(* which is put in its place; its caller puts the payload once more.       *)
(* protocol_encode_item returns NULL to detail.  A delivery releases what  *)
(* it has at its end, a name has nothing before it.                        *)
(***************************************************************************)
ErrorLabel(v) ==
  CASE step = "success" -> Puts(<< "payload", "status", "container", "payload" >>)
    [] step = "failure" ->
         Puts(IF held["msg"] = NULL THEN << "payload", "status", "container" >>
              ELSE << "payload", "payload", "status", "container" >>)
    [] step = "build" /\ v \in {"base", "key", "value"} ->
         Puts(<< "base", "value", "key" >>) \o << Set("detail", NULL) >>
    [] step = "build" /\ v \in {"list", "str"} -> Puts(<< "str", "list" >>)
    [] step = "build" /\ op = "info" -> Puts(<< "info", "detail" >>)
    [] OTHER -> << >>

\* The end of connection_queue_callback_wait_, after connection_ws_payload_ or an
\* error.
Cleanup ==
  IF op # "wait" THEN << >>
  ELSE (IF code = 200 \/ "success" \in botched
        THEN << Set("response", NULL), Set("detail", NULL) >> ELSE << >>)
         \o Puts(<< "response", "detail" >>)

-----------------------------------------------------------------------------
(***************************************************************************)
(* Execution.                                                              *)
(***************************************************************************)
Doing(do) == todo # << >> /\ Head(todo).do = do

The(v) == IF v = NULL THEN NULL ELSE held[v]

Allocate ==
  /\ Doing("new")
  /\ heap' = [heap EXCEPT !.made = @ \cup {Head(todo).arg}]
  /\ held' = [held EXCEPT ![Head(todo).var] = Head(todo).arg]
  /\ todo' = Tail(todo)
  /\ UNCHANGED << op, step, failed, code, replies, botched >>

ObjectAdd ==
  /\ Doing("add")
  /\ heap' = Added(heap, held[Head(todo).var], held[Head(todo).arg])
  /\ todo' = Tail(todo)
  /\ UNCHANGED << op, step, failed, held, code, replies, botched >>

Assign ==
  /\ Doing("set")
  /\ held' = [held EXCEPT ![Head(todo).var] = The(Head(todo).arg)]
  /\ todo' = Tail(todo)
  /\ UNCHANGED << op, step, failed, heap, code, replies, botched >>

Release ==
  /\ Doing("put")
  /\ heap' = json_object_put(heap, held[Head(todo).var])
  /\ todo' = Tail(todo)
  /\ UNCHANGED << op, step, failed, held, code, replies, botched >>

\* There is no memory for an object, or for the entry in its container.
StatementFails ==
  /\ MemoryFails
  /\ \/ Doing("new") /\ held' = [held EXCEPT ![Head(todo).var] = NULL]
     \/ Doing("add") /\ held' = held
  /\ failed' = TRUE
  /\ todo' = ErrorLabel(Head(todo).var)
  /\ UNCHANGED << op, step, heap, code, replies, botched >>

Execute == Allocate \/ ObjectAdd \/ Assign \/ Release \/ StatementFails

-----------------------------------------------------------------------------
ReplyInit ==
  /\ op = "none"
  /\ step = "silent"
  /\ todo = << >>
  /\ failed = FALSE
  /\ held = [v \in Var |-> NULL]
  /\ heap = NoObjects
  /\ code = 200
  /\ replies = << >>
  /\ botched = {}

\* A handler begins, after these replies to the same request.
BeginAfter(o, sent) ==
  /\ op' = o
  /\ replies' = sent
  /\ UNCHANGED jsonVars

Begin(o) == BeginAfter(o, << >>)

\* protocol_create_base is called, its variables are NULL.
Call(message, status, container, payload) ==
  /\ todo' = protocol_create_base(message, status, container, payload)
  /\ failed' = FALSE
  /\ held' = [held EXCEPT !["msg"] = NULL, !["status"] = NULL, !["container"] = NULL,
                          !["payload"] = payload]

CallFailure == Call("message", "failure_status", "failure", NULL)

\* connection_http_error_ or connection_ws_error_ is called.
Error(status) ==
  /\ code' = status
  /\ step' = "error"

\* It calls protocol_create_failure.
CreateFailure ==
  /\ step = "error"
  /\ CallFailure
  /\ step' = "failure"
  /\ UNCHANGED << op, heap, code, replies, botched >>

(***************************************************************************)
(* The body cannot be read (500); a name or a parameter is missing or has  *)
(* the wrong length (400); there is no such queue or no item (404).  A     *)
(* list has no parameters, new and delete create the queue they name.  A   *)
(* delivery is past all this.                                              *)
(***************************************************************************)
HandlerRefuses ==
  /\ step = "handler"
  /\ \/ op \notin {"list", "wait"} /\ Error(400)
     \/ op \notin {"list", "wait", "new", "delete"} /\ Error(404)
     \/ op # "wait" /\ MemoryFails /\ Error(500)
  /\ UNCHANGED << op, jsonVars, replies >>

\* The request waits; or its client has gone, and the item is dropped.
NothingToSend ==
  /\ step = "handler"
  /\ op \in {"ask", "wait"}
  /\ op' = "none"
  /\ step' = "silent"
  /\ UNCHANGED << jsonVars, code, replies >>

BuildPayload ==
  /\ step = "handler"
  /\ todo' \in Builds(op)
  /\ step' = "build"
  /\ UNCHANGED << op, failed, held, heap, code, replies, botched >>

CreateSuccess ==
  /\ step = "build" /\ todo = << >> /\ ~ failed
  /\ Call(NULL, "status", "reply", Payload)
  /\ code' = 200
  /\ step' = "success"
  /\ UNCHANGED << op, heap, replies, botched >>

BuildPayloadFailed ==
  /\ step = "build" /\ todo = << >> /\ failed
  /\ Error(500)
  /\ UNCHANGED << op, jsonVars, replies >>

CreateSuccessFailed ==
  /\ step = "success" /\ todo = << >> /\ failed
  /\ botched' = botched \cup {"success"}
  /\ Error(500)
  /\ UNCHANGED << op, todo, failed, held, heap, replies >>

\* Mutant: the failure is made again.
CreateFailureRetries ==
  /\ step = "failure" /\ todo = << >> /\ failed
  /\ step' = "error"
  /\ UNCHANGED << op, jsonVars, code, replies >>

\* The error is answered with a constant.
CreateFailureFailed ==
  /\ step = "failure" /\ todo = << >> /\ failed
  /\ botched' = botched \cup {"failure"}
  /\ held' = [held EXCEPT !["container"] = NULL]
  /\ step' = "send"
  /\ UNCHANGED << op, todo, failed, heap, code, replies >>

Created ==
  /\ step \in {"success", "failure"} /\ todo = << >> /\ ~ failed
  /\ step' = "send"
  /\ UNCHANGED << op, jsonVars, code, replies >>

Sent(status, body) == Append(replies, [code |-> status, body |-> body])

BodyOf(object) == IF object = "reply" THEN "success" ELSE "failure"

\* Mutant: the status stays as it was although the reply has no text.
SendJsonKeepsCode(object, status) ==
  \/ object # NULL /\ replies' = Sent(status, BodyOf(object))
  \/ (object = NULL \/ MemoryFails) /\ replies' = Sent(status, "failure")

\* connection_http_json_; on a WebSocket the status is not sent.
SendJson(object, status) ==
  \/ object # NULL /\ replies' = Sent(status, BodyOf(object))
  \/ (object = NULL \/ MemoryFails) /\ replies' = Sent(500, "failure")

Send ==
  /\ step = "send"
  /\ SendJson(held["container"], code)
  /\ heap' = json_object_put(heap, held["container"])
  /\ todo' = Cleanup
  /\ step' = "cleanup"
  /\ UNCHANGED << op, failed, held, code, botched >>

\* The handler is done, and its variables are gone.
Returning == step = "cleanup" /\ todo = << >>

Return ==
  /\ Returning
  /\ op' = "none"
  /\ step' = "idle"
  /\ code' = 200
  /\ failed' = FALSE
  /\ held' = [v \in Var |-> NULL]
  /\ heap' = NoObjects
  /\ botched' = {}
  /\ UNCHANGED << todo, replies >>

ReplyNext ==
  \/ Execute
  \/ HandlerRefuses \/ NothingToSend
  \/ BuildPayload \/ BuildPayloadFailed
  \/ CreateSuccess \/ CreateSuccessFailed
  \/ CreateFailure \/ CreateFailureFailed
  \/ Created \/ Send \/ Return

-----------------------------------------------------------------------------
(***************************************************************************)
(* Properties.                                                             *)
(***************************************************************************)
Done == step \in {"idle", "silent"}

Code == {101, 200, 400, 401, 403, 404, 405, 500}

(* Every variable has its type. *)
ReplyTypeOK ==
  /\ op \in Op
  /\ step \in {"switching", "handler", "build", "success", "error", "failure", "send",
               "cleanup", "idle", "silent"}
  /\ todo \in Seq(Statement)
  /\ held \in [Var -> Points]
  /\ heap \in [made : SUBSET Object, inside : [Object -> SUBSET Object],
                released : SUBSET Object, twice : SUBSET Object]
  /\ code \in Code \ {101}
  /\ replies \in Seq([code : Code, body : {"success", "failure", "page", "none"}])
  /\ failed \in BOOLEAN
  /\ botched \in SUBSET {"success", "failure"}

(* When a handler returns, every object that it made has been released,    *)
(* and once, by the variables that the code names at its error labels and  *)
(* after the reply, wherever memory ran out (protocol.c:147,               *)
(* connection-http.c:456, connection-ws.c:254).  The exceptions are those  *)
(* of protocol_create_base: when it fails with a message, the message is   *)
(* left behind (protocol.c:82), when it fails with a payload, that and     *)
(* what is inside it is put twice (protocol.c:85).                         *)
ReleasedOnce ==
  Returning =>
    /\ heap.made \ heap.released \subseteq IF "failure" \in botched THEN {"message"} ELSE {}
    /\ heap.twice \subseteq IF "success" \in botched THEN Object \ Wrapping ELSE {}

-----------------------------------------------------------------------------
(***************************************************************************)
(* Claims of the headers.                                                  *)
(***************************************************************************)
(* "If a parameter is a json_object it will either be owned by the         *)
(* returned object or json_object_put will be called if the function fails *)
(* (protocol.h:31-32)": nobody else puts it, so that nothing is put twice. *)
NothingPutTwice == heap.twice = {}
=============================================================================
