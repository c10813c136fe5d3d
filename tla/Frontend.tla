------------------------------ MODULE Frontend ------------------------------
(***************************************************************************)
(* The life of a request from the configuration file to its reply: a       *)
(* server that Startup has created dispatches it to the callback           *)
(* registered for its path, which checks the credentials (connection-http, *)
(* connection-ws) and calls the handler of the method, whose answer is     *)
(* built in Reply.  A request of /take/ws is upgraded by ws.c.             *)
(***************************************************************************)
EXTENDS Startup, Reply

VARIABLES
  request,  \* the request whose handler has been entered, if any
  upgraded  \* the request that was upgraded to the connection that is open, if any

vars == << startupVars, replyVars, request, upgraded >>

Init ==
  /\ StartupInit
  /\ ReplyInit
  /\ request = {}
  /\ upgraded = {}

Method == {"GET", "POST", "DELETE"}

\* The switches over the method.  /take, /peek and /put take any.
Operation(path, method) ==
  CASE path = "/queues" /\ method = "GET"    -> {"list"}
    [] path = "/queues" /\ method = "POST"   -> {"new"}
    [] path = "/queue"  /\ method = "POST"   -> {"info"}
    [] path = "/queue"  /\ method = "DELETE" -> {"delete"}
    [] path = "/take" -> {"take"}
    [] path = "/peek" -> {"peek"}
    [] path = "/put"  -> {"put"}
    [] OTHER -> {}

\* The event loop is free.  One client at a time: HTTP requests come while no
\* connection is open.
Idle == phase = "running" /\ Done

\* accepted: the authentications whose file lists the credentials of the
\* request, if it has any.
Credentials == { SUBSET DOMAIN f.auths : f \in file }

Quiet == UNCHANGED << startupVars, request, upgraded >>

-----------------------------------------------------------------------------
(***************************************************************************)
(* connection_http_authenticated and connection_ws_authenticated.          *)
(***************************************************************************)
\* Mutant: any credentials will do.
AdmittedAny(callback, accepted) == callback.checks => callback.auth # {}

Admitted(callback, accepted) ==
  callback.checks => callback.auth # {} /\ callback.auth \subseteq accepted

\* The parameters were not allocated when the server was created.
NullParams(callback) == callback.checks /\ callback.auth = {}

\* 401 without an Authorization header, 403 when its credentials are refused.
Unauthorised(n, path, accepted) ==
  /\ callbacks[n][path].checks
  /\ ~ NullParams(callbacks[n][path])
  /\ ~ Admitted(callbacks[n][path], accepted)
  /\ Begin("none")
  /\ Error(401) \/ Error(403)

Crashes ==
  /\ phase' = "crashed"
  /\ UNCHANGED << file, lists, iter, ssl, callbacks, replyVars, request, upgraded >>

-----------------------------------------------------------------------------
(***************************************************************************)
(* A request of one of the HTTP paths.                                     *)
(***************************************************************************)
HttpRefused(n, path, accepted) ==
  /\ Idle
  /\ Unauthorised(n, path, accepted)
  /\ Quiet

HttpBadMethod(n, path, method, accepted) ==
  /\ Idle
  /\ Admitted(callbacks[n][path], accepted)
  /\ Operation(path, method) = {}
  /\ Begin("none")
  /\ Error(405)
  /\ Quiet

HttpHandled(n, path, method, accepted) ==
  /\ Idle
  /\ Admitted(callbacks[n][path], accepted)
  /\ \E o \in Operation(path, method) : Begin(o)
  /\ step' = "handler"
  /\ request' = { [server |-> n, accepted |-> accepted] }
  /\ UNCHANGED << startupVars, code, upgraded >>

ParamsMissing(n, path) ==
  /\ Idle
  /\ NullParams(callbacks[n][path])
  /\ Crashes

-----------------------------------------------------------------------------
(***************************************************************************)
(* A request of /take/ws: evws_upgrade_http_cb_.                           *)
(***************************************************************************)
\* Without one of the headers that ask for an upgrade, NULL is copied.
UpgradeWithoutHeaders ==
  /\ Idle
  /\ DOMAIN callbacks # {}
  /\ Crashes

\* A reply of libevent's own, without JSON.
Page(status) == [code |-> status, body |-> "page"]
SwitchingProtocols == [code |-> 101, body |-> "none"]

\* A header is not the right one, or the method, or the version.
UpgradeRejected ==
  /\ Idle
  /\ upgraded = {}
  /\ DOMAIN callbacks # {}
  /\ BeginAfter("none", << Page(400) >>)
  /\ step' = "idle"
  /\ UNCHANGED << startupVars, code, request, upgraded >>

UpgradeRefused(n, accepted) ==
  /\ Idle
  /\ upgraded = {}
  /\ Unauthorised(n, "/take/ws", accepted)
  /\ Quiet

\* The key for the reply cannot be made.
UpgradeFails(n, accepted) ==
  /\ Idle
  /\ upgraded = {}
  /\ Admitted(callbacks[n]["/take/ws"], accepted)
  /\ MemoryFails
  /\ BeginAfter("none", << Page(500) >>)
  /\ step' = "idle"
  /\ UNCHANGED << startupVars, code, request, upgraded >>

\* The reply is sent before there is a connection.
Switch(n, accepted) ==
  /\ Idle
  /\ upgraded = {}
  /\ Admitted(callbacks[n]["/take/ws"], accepted)
  /\ BeginAfter("none", << SwitchingProtocols >>)
  /\ step' = "switching"
  /\ request' = { [server |-> n, accepted |-> accepted] }
  /\ UNCHANGED << startupVars, code, upgraded >>

ConnectionNew ==
  /\ step = "switching"
  /\ upgraded' = request
  /\ step' = "idle"
  /\ UNCHANGED << op, jsonVars, code, replies >>

\* Mutant: nobody is told.
ConnectionNewFailsSilently ==
  /\ step = "switching"
  /\ MemoryFails
  /\ step' = "idle"
  /\ UNCHANGED << op, jsonVars, code, replies, upgraded >>

\* A second reply follows.
ConnectionNewFails ==
  /\ step = "switching"
  /\ MemoryFails
  /\ replies' = Append(replies, Page(500))
  /\ step' = "idle"
  /\ UNCHANGED << op, jsonVars, code, upgraded >>

\* A message arrives over the connection, or an item for one that waits.
Message(o) ==
  /\ Idle
  /\ upgraded # {}
  /\ Begin(o)
  /\ step' = "handler"
  /\ request' = upgraded
  /\ UNCHANGED << startupVars, code, upgraded >>

Disconnected ==
  /\ Idle
  /\ upgraded # {}
  /\ upgraded' = {}
  /\ Begin("none")
  /\ step' = "silent"
  /\ UNCHANGED << startupVars, code, request >>

-----------------------------------------------------------------------------
\* The callback runs on.  What is known of the request is forgotten once the
\* handler decides.
Answer ==
  /\ phase = "running"
  /\ \/ ReplyNext /\ UNCHANGED upgraded
     \/ ConnectionNew \/ ConnectionNewFails
  /\ request' = {}
  /\ UNCHANGED startupVars

Http(n, path, accepted) ==
  /\ upgraded = {}
  /\ \/ HttpRefused(n, path, accepted)
     \/ \E method \in Method :
          HttpBadMethod(n, path, method, accepted) \/ HttpHandled(n, path, method, accepted)

WebSocket(n, accepted) ==
  UpgradeRefused(n, accepted) \/ UpgradeFails(n, accepted) \/ Switch(n, accepted)

RequestNext ==
  \/ \E n \in DOMAIN callbacks, accepted \in UNION Credentials :
       \/ \E path \in HttpPath : Http(n, path, accepted)
       \/ WebSocket(n, accepted)
  \/ \E n \in DOMAIN callbacks, path \in Path : ParamsMissing(n, path)
  \/ UpgradeWithoutHeaders \/ UpgradeRejected
  \/ \E o \in {"ask", "wait"} : Message(o)
  \/ Disconnected
  \/ Answer

Start == StartupNext /\ UNCHANGED << replyVars, request, upgraded >>

Next == Start \/ RequestNext

\* The one thread runs on until it waits for events.
Spec == Init /\ [][Next]_vars /\ WF_vars(Start) /\ WF_vars(Answer)

-----------------------------------------------------------------------------
(***************************************************************************)
(* Properties.                                                             *)
(***************************************************************************)
Requests(f) == [server : DOMAIN f.servers, accepted : SUBSET DOMAIN f.auths]

(* Every variable has its type. *)
TypeOK ==
  /\ StartupTypeOK
  /\ ReplyTypeOK
  /\ \A r \in request \cup upgraded : \E f \in file : r \in Requests(f)

(* From the file to the handler: whoever gets as far as a handler, over    *)
(* whatever path, method or connection, has shown credentials that the     *)
(* authentication named in the server's entry accepts                      *)
(* (connection-http.c:199, connection-ws.c:56).                            *)
HandlersAreGuarded ==
  step = "handler" =>
    \A r \in request : \E f \in file :
       Named(f, r.server) # {} /\ Named(f, r.server) \subseteq r.accepted

(* A status of 200 says what the body says, also when the text of a reply  *)
(* or the error that should replace it cannot be made                      *)
(* (connection-http.c:303, :342).  Whatever fails, a request is answered   *)
(* once, except that a 500 follows the 101 of an upgrade whose connection  *)
(* could not be made (ws.c:199, :204): nobody who was told to switch the   *)
(* protocol is left without a connection and without a further word.       *)
AnsweredTruthfully ==
  /\ \A k \in DOMAIN replies : replies[k].code = 200 <=> replies[k].body = "success"
  /\ step = "idle" => replies # << >>
  /\ \A k \in DOMAIN replies : k < Len(replies) => replies[k].code = 101
  /\ Done /\ (\E k \in DOMAIN replies : replies[k].code = 101) /\ Len(replies) = 1
       => upgraded # {}

(* What a request or a delivery sets off comes to its end, whatever fails, *)
(* and the thread is free for the next one.                                *)
HandlersFinish == ~ Done ~> Done
=============================================================================
