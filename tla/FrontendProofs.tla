--------------------------- MODULE FrontendProofs ---------------------------
(***************************************************************************)
(* Theorems about Frontend: what startup has set up is what requests find, *)
(* for any configuration file; handlers are guarded, and replies are true. *)
(***************************************************************************)
EXTENDS Frontend, StartupProofs, ReplyProofs

\* Whoever is past the check has shown credentials that the entry's
\* authentication accepts, also after the upgrade of the connection.
Guarded(r) ==
  \E f \in file : /\ r \in Requests(f)
                  /\ Named(f, r.server) # {} /\ Named(f, r.server) \subseteq r.accepted

GuardInv == \A r \in request \cup upgraded : Guarded(r)

\* How the callbacks of ws.c and of the handlers leave a request.
AnswerInv ==
  /\ step = "switching" => replies = << SwitchingProtocols >> /\ request # {}
  /\ step = "idle" =>
       /\ replies # << >>
       /\ \A k \in DOMAIN replies : k < Len(replies) => replies[k].code = 101
       /\ Len(replies) = 1 /\ replies[1].code = 101 => upgraded # {}

IInv == StartupInv /\ GuardInv /\ ReplyInv /\ AnswerInv

-----------------------------------------------------------------------------
(***************************************************************************)
(* The steps.                                                              *)
(***************************************************************************)
LEMMA IInvInit == Init => IInv
<1> SUFFICES ASSUME Init PROVE IInv
  OBVIOUS
<1>1. StartupInv
  BY StartupInvInit DEF Init
<1>2. GuardInv
  BY DEF Init, GuardInv
<1>3. ReplyInv
  <2>1. /\ op = "none" /\ step = "silent" /\ code = 200 /\ replies = << >> /\ todo = << >>
        /\ failed = FALSE /\ held = [v \in Var |-> NULL] /\ heap = NoObjects /\ botched = {}
    BY DEF Init, ReplyInit
  <2>2. /\ replies \in Seq(ReplyRecord) /\ todo \in Seq(Allowed(step))
        /\ DOMAIN replies = {}
    BY <2>1
  <2>3. heap \in Heap /\ held \in [Var -> Points]
    BY <2>1 DEF NoObjects, Heap, Points
  <2>4. op \in Op /\ step \in Step /\ code \in Code \ {101}
        /\ botched \in SUBSET {"success", "failure"}
    BY <2>1 DEF Op, Step, Code
  <2>5. TypeInv
    BY <2>1, <2>2, <2>3, <2>4 DEF TypeInv
  <2>6. StatusInv /\ SentInv
    BY <2>1, <2>2 DEF StatusInv, SentInv
  <2> QED
    BY <2>5, <2>6 DEF ReplyInv
<1>4. AnswerInv
  BY DEF Init, ReplyInit, AnswerInv
<1> QED
  BY <1>1, <1>2, <1>3, <1>4 DEF IInv

(* Credentials that pass the check of a registered callback are those of   *)
(* the authentication that the entry of the server names.                  *)
LEMMA AdmittedIsGuarded ==
  ASSUME StartupInv, phase = "running", NEW n \in DOMAIN callbacks, NEW path \in Path,
         NEW accepted \in UNION Credentials, Admitted(callbacks[n][path], accepted)
  PROVE  Guarded([server |-> n, accepted |-> accepted])
<1>1. PICK f \in File : file = {f}
  BY DEF StartupInv, Serving
<1>2. CallbacksInv(f)
  BY <1>1 DEF StartupInv
<1>3. accepted \in SUBSET DOMAIN f.auths
  BY <1>1 DEF Credentials
<1>4. /\ callbacks[n][path].checks /\ n \in DOMAIN f.servers
      /\ callbacks[n][path].auth \in {Named(f, n), {}}
  BY <1>2 DEF CallbacksInv
<1>5. callbacks[n][path].auth # {} /\ callbacks[n][path].auth \subseteq accepted
  BY <1>4 DEF Admitted
<1>6. Named(f, n) # {} /\ Named(f, n) \subseteq accepted
  BY <1>4, <1>5
<1> DEFINE r == [server |-> n, accepted |-> accepted]
<1>7. r \in Requests(f) /\ r.server = n /\ r.accepted = accepted
  BY <1>3, <1>4 DEF Requests
<1> HIDE DEF r
<1>8. Guarded(r)
  BY <1>1, <1>6, <1>7 DEF Guarded
<1> QED
  BY <1>8 DEF r

LEMMA GuardInvKept ==
  ASSUME GuardInv, file' = file,
         \A r \in request' \cup upgraded' : r \in request \cup upgraded \/ Guarded(r)
  PROVE  GuardInv'
  BY DEF GuardInv, Guarded

LEMMA NoReply == << >> \in Seq(ReplyRecord) /\ DOMAIN << >> = {}
  OBVIOUS

LEMMA OneReply ==
  ASSUME NEW r \in ReplyRecord
  PROVE  /\ << r >> \in Seq(ReplyRecord) /\ << r >> # << >>
         /\ Len(<< r >>) = 1 /\ DOMAIN << r >> = {1} /\ << r >>[1] = r
  OBVIOUS

LEMMA TwoReplies ==
  ASSUME NEW r \in ReplyRecord, NEW t \in ReplyRecord
  PROVE  LET both == Append(<< r >>, t)
         IN  /\ both \in Seq(ReplyRecord) /\ both # << >> /\ Len(both) = 2
             /\ DOMAIN both = {1, 2} /\ both[1] = r /\ both[2] = t
<1> DEFINE both == Append(<< r >>, t)
<1>1. both \in Seq(ReplyRecord) /\ Len(both) = 2 /\ both[1] = r /\ both[2] = t
  BY OneReply, AppendProperties
<1> HIDE DEF both
<1>2. DOMAIN both = {1, 2} /\ both # << >>
  <2>1. DOMAIN both = 1..2
    BY <1>1
  <2>2. both # << >>
    BY <1>1, EmptySeq
  <2> QED
    BY <2>1, <2>2
<1> QED
  BY <1>1, <1>2 DEF both

LEMMA ReplyCount ==
  ASSUME NEW s \in Seq(ReplyRecord)
  PROVE  /\ Len(s) \in Nat /\ DOMAIN s = 1..Len(s)
         /\ Len(s) = 1 => DOMAIN s = {1} /\ s # << >>
         /\ s = << >> <=> Len(s) = 0
<1>1. Len(s) \in Nat /\ DOMAIN s = 1..Len(s)
  OBVIOUS
<1>2. s = << >> <=> Len(s) = 0
  BY EmptySeq
<1> QED
  BY <1>1, <1>2

LEMMA Pages ==
  /\ \A status \in {400, 500} : /\ Page(status) \in ReplyRecord
                                /\ Page(status).code = status /\ Page(status).body = "page"
  /\ SwitchingProtocols \in ReplyRecord
  /\ SwitchingProtocols.code = 101 /\ SwitchingProtocols.body = "none"
  BY DEF Page, SwitchingProtocols, ReplyRecord, Code

(* At the event loop nothing is left to be executed, and a callback that   *)
(* replies, or calls connection_http_error_ or a handler, fits in.         *)
LEMMA BeginsWell ==
  ASSUME IInv, Idle, NEW o \in Op, NEW sent \in Seq(ReplyRecord), BeginAfter(o, sent),
         step' \in {"error", "handler", "idle", "silent", "switching"},
         code' \in Code \ {101}, step' = "error" => code' # 200,
         \A k \in DOMAIN sent : sent[k].code = 200 <=> sent[k].body = "success",
         step' \in {"error", "handler", "silent"} => sent = << >>
  PROVE  ReplyInv'
<1>1. todo = << >> /\ UNCHANGED jsonVars /\ op' = o /\ replies' = sent
  BY DEF IInv, ReplyInv, TypeInv, Idle, Done, BeginAfter
<1>2. StatusInv' /\ SentInv'
  BY <1>1 DEF StatusInv, SentInv
<1> QED
  BY <1>1, <1>2, BeginStep DEF IInv, Step

LEMMA BeginsSilently ==
  ASSUME IInv, Idle, NEW o \in Op, Begin(o), step' \in {"error", "handler", "silent"},
         code' \in Code \ {101}, step' = "error" => code' # 200
  PROVE  ReplyInv'
  BY NoReply, BeginsWell DEF Begin

LEMMA IInvNext == IInv /\ [Next]_vars => IInv'
<1> SUFFICES ASSUME IInv, [Next]_vars PROVE IInv'
  OBVIOUS
<1>1. StartupInv /\ GuardInv /\ ReplyInv /\ AnswerInv
  BY DEF IInv
<1>2. ASSUME UNCHANGED startupVars
      PROVE  StartupInv' /\ file' = file
  BY <1>1, <1>2, StartupInvKept DEF startupVars
<1>3. ASSUME UNCHANGED replyVars
      PROVE  ReplyInv'
  BY <1>1, <1>3 DEF replyVars, jsonVars, ReplyInv, TypeInv, StatusInv, SentInv
<1>4. ASSUME UNCHANGED << request, upgraded >>, file' = file
      PROVE  GuardInv'
  BY <1>1, <1>4, GuardInvKept
<1>5. ASSUME UNCHANGED replyVars, UNCHANGED << request, upgraded >>
      PROVE  AnswerInv'
  BY <1>1, <1>5 DEF replyVars, AnswerInv
<1>6. << >> \in Seq(ReplyRecord) /\ code \in Code \ {101}
  BY <1>1 DEF ReplyInv, TypeInv
<1>7. CASE Start
  <2>1. StartupInv' /\ file' = file
    <3>1. StartupInv'
      BY <1>1, <1>7, StartupInvNext DEF Start
    <3>2. file' = file
      BY <1>7 DEF Start, StartupNext, CommandLine, CommandLineEnds, ProcessAuthentication,
         ProcessAuthenticationFails, AuthenticationsProcessed, ProcessServer,
         ProcessServerFails, ServersProcessed, ConfigIterServerBegin, BeginFails,
         CreateServer, CreateServerFails, CreateServerCrashes, EventBaseDispatch
    <3> QED
      BY <3>1, <3>2
  <2> QED
    BY <1>3, <1>4, <1>5, <1>7, <2>1 DEF Start, IInv
<1>8. ASSUME Crashes
      PROVE  IInv'
  <2>1. UNCHANGED << file, lists, iter, callbacks >> /\ phase' \in {"exited", "crashed"}
    BY <1>8 DEF Crashes
  <2>2. ssl' \in { Loaded(pem) : pem \in Pem } \cup {NoSsl}
    BY <1>1, <1>8 DEF Crashes, StartupInv
  <2>3. StartupInv'
    BY <1>1, <2>1, <2>2, StartupInvEnds
  <2> QED
    BY <1>3, <1>4, <1>5, <1>8, <2>3 DEF Crashes, IInv
<1>9. ASSUME NEW status \in Code \ {101, 200}, Idle, Begin("none"), Error(status), Quiet
      PROVE  IInv'
  <2>1. ReplyInv'
    BY <1>9, BeginsSilently DEF Error, Op
  <2>2. AnswerInv'
    BY <1>9 DEF Error, AnswerInv
  <2> QED
    BY <1>2, <1>4, <1>9, <2>1, <2>2 DEF Quiet, IInv
<1>10. ASSUME NEW n, NEW path, NEW accepted, Idle, Unauthorised(n, path, accepted), Quiet
       PROVE  IInv'
  <2>1. Begin("none") /\ \E status \in {401, 403} : Error(status)
    BY <1>10 DEF Unauthorised
  <2> QED
    BY <1>9, <1>10, <2>1 DEF Code
<1>11. ASSUME NEW n \in DOMAIN callbacks, NEW accepted \in UNION Credentials,
              NEW path \in HttpPath, Http(n, path, accepted)
       PROVE  IInv'
  <2>1. CASE HttpRefused(n, path, accepted)
    BY <1>10, <2>1 DEF HttpRefused
  <2>2. ASSUME NEW method \in Method, HttpBadMethod(n, path, method, accepted)
        PROVE  IInv'
    BY <1>9, <2>2 DEF HttpBadMethod, Code
  <2>3. ASSUME NEW method \in Method, HttpHandled(n, path, method, accepted)
        PROVE  IInv'
    <3>1. /\ Idle /\ phase = "running" /\ Admitted(callbacks[n][path], accepted)
          /\ request' = { [server |-> n, accepted |-> accepted] } /\ upgraded' = upgraded
          /\ step' = "handler" /\ code' = code
      BY <2>3 DEF HttpHandled, Idle
    <3>2. UNCHANGED startupVars
      BY <2>3 DEF HttpHandled
    <3>3. PICK o \in Op : Begin(o)
      BY <2>3 DEF HttpHandled, Operation, Op
    <3>4. ReplyInv'
      BY <1>6, <3>1, <3>3, BeginsSilently
    <3>5. Guarded([server |-> n, accepted |-> accepted])
      BY <1>1, <3>1, AdmittedIsGuarded DEF Path
    <3>6. StartupInv' /\ file' = file
      BY <1>2, <3>2
    <3>7. GuardInv'
      BY <1>1, <3>1, <3>5, <3>6, GuardInvKept
    <3>8. AnswerInv'
      BY <3>1 DEF AnswerInv
    <3> QED
      BY <3>4, <3>6, <3>7, <3>8 DEF IInv
  <2> QED
    BY <1>11, <2>1, <2>2, <2>3 DEF Http
\* A page of libevent's is the whole reply.
<1>12. ASSUME NEW status \in {400, 500}, Idle, BeginAfter("none", << Page(status) >>),
              step' = "idle", UNCHANGED << startupVars, code, request, upgraded >>
       PROVE  IInv'
  <2> DEFINE sent == << Page(status) >>
  <2>1. /\ sent \in Seq(ReplyRecord) /\ DOMAIN sent = {1} /\ Len(sent) = 1 /\ sent # << >>
        /\ sent[1].code = status /\ sent[1].body = "page"
    BY Pages, OneReply
  <2>2. replies' = sent /\ BeginAfter("none", sent)
    BY <1>12 DEF BeginAfter
  <2> HIDE DEF sent
  <2>3. ReplyInv'
    BY <1>6, <1>12, <2>1, <2>2, BeginsWell DEF Op
  <2>4. AnswerInv'
    <3>1. \A k \in DOMAIN replies' : ~ k < Len(replies')
      <4>1. \A k \in DOMAIN sent : ~ k < Len(sent)
        BY <2>1
      <4> QED
        BY <2>2, <4>1
    <3>2. replies' # << >> /\ replies'[1].code # 101
      BY <2>1, <2>2
    <3>3. step' = "idle"
      BY <1>12
    <3> QED
      BY <3>1, <3>2, <3>3 DEF AnswerInv
  <2> QED
    BY <1>2, <1>4, <1>12, <2>3, <2>4 DEF IInv
<1>13. ASSUME NEW n \in DOMAIN callbacks, NEW accepted \in UNION Credentials,
              WebSocket(n, accepted)
       PROVE  IInv'
  <2>1. CASE UpgradeRefused(n, accepted)
    BY <1>10, <2>1 DEF UpgradeRefused
  <2>2. CASE UpgradeFails(n, accepted)
    BY <1>12, <2>2 DEF UpgradeFails
  <2>3. CASE Switch(n, accepted)
    <3> DEFINE sent == << SwitchingProtocols >>
               r == [server |-> n, accepted |-> accepted]
    <3>1. /\ Idle /\ phase = "running" /\ Admitted(callbacks[n]["/take/ws"], accepted)
          /\ request' = {r} /\ upgraded' = upgraded /\ step' = "switching" /\ code' = code
          /\ BeginAfter("none", sent) /\ replies' = sent
      BY <2>3 DEF Switch, Idle, BeginAfter
    <3>2. UNCHANGED startupVars
      BY <2>3 DEF Switch
    <3>3. Guarded(r)
      BY <1>1, <3>1, AdmittedIsGuarded DEF Path
    <3>4. StartupInv' /\ file' = file
      BY <1>2, <3>2
    <3>5. GuardInv'
      BY <1>1, <3>1, <3>3, <3>4, GuardInvKept
    <3>6. /\ sent \in Seq(ReplyRecord) /\ DOMAIN sent = {1}
          /\ sent[1].code = 101 /\ sent[1].body = "none"
      BY Pages, OneReply
    <3>7. AnswerInv'
      BY <3>1 DEF AnswerInv
    <3> HIDE DEF sent, r
    <3>8. ReplyInv'
      BY <1>6, <3>1, <3>6, BeginsWell DEF Op
    <3> QED
      BY <3>4, <3>5, <3>7, <3>8 DEF IInv
  <2> QED
    BY <1>13, <2>1, <2>2, <2>3 DEF WebSocket
<1>14. CASE UpgradeRejected
  BY <1>12, <1>14 DEF UpgradeRejected
<1>15. ASSUME NEW o \in {"ask", "wait"}, Message(o)
       PROVE  IInv'
  <2>1. /\ Idle /\ Begin(o) /\ step' = "handler" /\ code' = code
        /\ request' = upgraded /\ upgraded' = upgraded
    BY <1>15 DEF Message
  <2>2. UNCHANGED startupVars
    BY <1>15 DEF Message
  <2>3. ReplyInv'
    BY <1>6, <2>1, BeginsSilently DEF Op
  <2>4. StartupInv' /\ file' = file
    BY <1>2, <2>2
  <2>5. GuardInv'
    BY <1>1, <2>1, <2>4, GuardInvKept
  <2>6. AnswerInv'
    BY <2>1 DEF AnswerInv
  <2> QED
    BY <2>3, <2>4, <2>5, <2>6 DEF IInv
<1>16. CASE Disconnected
  <2>1. /\ Idle /\ Begin("none") /\ step' = "silent" /\ code' = code
        /\ request' = request /\ upgraded' = {}
    BY <1>16 DEF Disconnected
  <2>2. StartupInv' /\ file' = file
    BY <1>2, <1>16 DEF Disconnected
  <2>3. ReplyInv'
    BY <1>6, <2>1, BeginsSilently DEF Op
  <2>4. GuardInv'
    BY <1>1, <2>1, <2>2, GuardInvKept
  <2>5. AnswerInv'
    BY <2>1 DEF AnswerInv
  <2> QED
    BY <2>2, <2>3, <2>4, <2>5 DEF IInv
<1>17. CASE Answer
  <2>1. request' = {} /\ UNCHANGED startupVars
    BY <1>17 DEF Answer
  <2>2. StartupInv' /\ file' = file
    BY <1>2, <2>1
  <2>3. CASE ReplyNext /\ UNCHANGED upgraded
    <3>1. ReplyInv'
      BY <1>1, <2>3, ReplyStep
    <3>2. GuardInv'
      BY <1>1, <2>1, <2>2, <2>3, GuardInvKept
    <3>3. CASE Return
      <4>1. /\ Len(replies) = 1 /\ replies[1].code # 101 /\ replies' = replies
            /\ step' = "idle"
        BY <1>1, <3>3 DEF Return, Returning, ReplyInv, SentInv
      <4>2. DOMAIN replies = {1} /\ replies # << >>
        BY <1>1, <4>1, ReplyCount DEF ReplyInv, TypeInv
      <4>3. \A k \in DOMAIN replies : ~ k < Len(replies)
        BY <4>1, <4>2
      <4>4. AnswerInv'
        BY <4>1, <4>2, <4>3 DEF AnswerInv
      <4> QED
        BY <2>2, <3>1, <3>2, <4>4 DEF IInv
    <3>4. CASE ~ Return
      <4>1. step' \notin {"idle", "switching"}
        <5>1. step \in {"handler", "build", "success", "error", "failure", "send", "cleanup"}
          BY <1>1, <2>3 DEF ReplyInv, TypeInv, Step, ReplyNext, Execute, Allocate, ObjectAdd,
             Assign, Release, StatementFails, Doing, HandlerRefuses, NothingToSend,
             BuildPayload, BuildPayloadFailed, CreateSuccess, CreateSuccessFailed,
             CreateFailure, CreateFailureFailed, Created, Send, Return, Returning
        <5>2. step' = step \/ step' \in {"silent", "build", "success", "error", "failure",
                                        "send", "cleanup"}
          BY <2>3, <3>4 DEF ReplyNext, Execute, Allocate, ObjectAdd, Assign, Release,
             StatementFails, HandlerRefuses, Error, NothingToSend, BuildPayload,
             BuildPayloadFailed, CreateSuccess, CreateSuccessFailed, CreateFailure,
             CreateFailureFailed, Created, Send
        <5> QED
          BY <5>1, <5>2
      <4>2. AnswerInv'
        BY <4>1 DEF AnswerInv
      <4> QED
        BY <2>2, <3>1, <3>2, <4>2 DEF IInv
    <3> QED
      BY <3>3, <3>4
  <2>4. CASE ConnectionNew \/ ConnectionNewFails
    <3>1. /\ step = "switching" /\ step' = "idle" /\ UNCHANGED << op, code >>
          /\ UNCHANGED jsonVars /\ upgraded' \in {upgraded, request}
      BY <2>4 DEF ConnectionNew, ConnectionNewFails
    <3>2. replies = << SwitchingProtocols >> /\ request # {} /\ todo = << >> /\ op \in Op
      BY <1>1, <3>1 DEF AnswerInv, ReplyInv, TypeInv
    <3>3. GuardInv'
      BY <1>1, <2>1, <2>2, <3>1, GuardInvKept
    <3>4. /\ replies' \in Seq(ReplyRecord) /\ replies' # << >>
          /\ \A k \in DOMAIN replies' : replies'[k].code \in {101, 500}
                                        /\ replies'[k].body \in {"none", "page"}
          /\ \A k \in DOMAIN replies' : k < Len(replies') => replies'[k].code = 101
          /\ Len(replies') = 1 => upgraded' # {}
      <4>1. CASE ConnectionNew
        <5>1. replies' = << SwitchingProtocols >> /\ upgraded' # {}
          BY <3>2, <4>1 DEF ConnectionNew
        <5> QED
          BY <5>1, Pages, OneReply
      <4>2. CASE ConnectionNewFails
        <5>1. replies' = Append(<< SwitchingProtocols >>, Page(500))
          BY <3>2, <4>2 DEF ConnectionNewFails
        <5> QED
          BY <5>1, Pages, TwoReplies
      <4> QED
        BY <2>4, <4>1, <4>2
    <3>5. StatusInv' /\ SentInv'
      BY <3>1, <3>4 DEF StatusInv, SentInv
    <3>6. ReplyInv'
      BY <1>1, <1>6, <3>1, <3>2, <3>4, <3>5, BeginStep DEF Step
    <3>7. AnswerInv'
      BY <3>1, <3>4 DEF AnswerInv
    <3> QED
      BY <2>2, <3>3, <3>6, <3>7 DEF IInv
  <2> QED
    BY <1>17, <2>3, <2>4 DEF Answer
<1>18. CASE UNCHANGED vars
  <2>1. UNCHANGED startupVars /\ UNCHANGED replyVars /\ UNCHANGED << request, upgraded >>
    BY <1>18 DEF vars
  <2> QED
    BY <1>2, <1>3, <1>4, <1>5, <2>1 DEF IInv
<1>19. ASSUME RequestNext
       PROVE  IInv'
  BY <1>8, <1>11, <1>13, <1>14, <1>15, <1>16, <1>17, <1>19
     DEF RequestNext, ParamsMissing, UpgradeWithoutHeaders
<1> QED
  BY <1>7, <1>18, <1>19 DEF Next

-----------------------------------------------------------------------------
(* Every variable keeps its type, from the command line on, whatever file  *)
(* is read and whatever fails.                                             *)
THEOREM FrontendTypeCorrect == Spec => []TypeOK
<1>1. IInv => TypeOK
  <2> SUFFICES ASSUME IInv PROVE TypeOK
    OBVIOUS
  <2>1. StartupTypeOK
    BY StartupInvType DEF IInv
  <2>2. ReplyTypeOK
    <3>1. todo \in Seq(Statement)
      BY DEF IInv, ReplyInv, TypeInv, Allowed
    <3> QED
      BY <3>1 DEF IInv, ReplyInv, TypeInv, Step, Heap, ReplyRecord, ReplyTypeOK
  <2>3. \A r \in request \cup upgraded : \E f \in file : r \in Requests(f)
    BY DEF IInv, GuardInv, Guarded
  <2> QED
    BY <2>1, <2>2, <2>3 DEF TypeOK
<1> QED
  BY IInvInit, IInvNext, <1>1, PTL DEF Spec

(* Once the loop of main.c runs, every entry of the file has its server,   *)
(* and each path of it asks for the authentication that the entry names.   *)
THEOREM ServersAreConfigured == Spec => []ServesAsConfigured
<1>1. IInv => ServesAsConfigured
  BY StartupInvServes DEF IInv
<1> QED
  BY IInvInit, IInvNext, <1>1, PTL DEF Spec

(* The SSL context is never half loaded between two servers, and while     *)
(* secured servers run it holds a certificate with its key (ssl.c:65, :81).*)
THEOREM ContextStaysReady == Spec => []ContextReady
<1>1. IInv => ContextReady
  BY StartupInvContext DEF IInv
<1> QED
  BY IInvInit, IInvNext, <1>1, PTL DEF Spec

(* Nobody gets as far as a handler, over HTTP or over an upgraded          *)
(* connection, without credentials that the authentication named in the    *)
(* entry of the server accepts (connection-http.c:199, connection-ws.c:56).*)
THEOREM HandlersStayGuarded == Spec => []HandlersAreGuarded
<1>1. IInv => HandlersAreGuarded
  BY DEF IInv, GuardInv, Guarded, HandlersAreGuarded
<1> QED
  BY IInvInit, IInvNext, <1>1, PTL DEF Spec

(* Wherever memory runs out, a request is answered once, or with a 500     *)
(* after the 101 of an upgrade (ws.c:199, :204), which is the only reply   *)
(* that leaves a connection behind, and with the status 200 exactly when   *)
(* the body reports success (connection-http.c:303, :342).                 *)
THEOREM RepliesAreTrue == Spec => []AnsweredTruthfully
<1>1. IInv => AnsweredTruthfully
  <2> SUFFICES ASSUME IInv PROVE AnsweredTruthfully
    OBVIOUS
  <2>1. replies \in Seq(ReplyRecord)
    BY DEF IInv, ReplyInv, TypeInv
  <2>2. \A k \in DOMAIN replies : replies[k].code = 200 <=> replies[k].body = "success"
    BY DEF IInv, ReplyInv, SentInv
  <2>3. step = "idle" => /\ replies # << >>
                         /\ \A k \in DOMAIN replies : k < Len(replies) => replies[k].code = 101
                         /\ Len(replies) = 1 /\ replies[1].code = 101 => upgraded # {}
    BY DEF IInv, AnswerInv
  <2>4. step = "silent" => DOMAIN replies = {}
    BY DEF IInv, ReplyInv, SentInv
  <2>5. step \notin {"idle", "silent"} => Len(replies) \in {0, 1}
    <3>1. step = "switching" => Len(replies) = 1
      BY Pages, OneReply DEF IInv, AnswerInv
    <3>2. step \notin {"idle", "silent", "switching"} => replies = << >> \/ Len(replies) = 1
      BY DEF IInv, ReplyInv, SentInv, TypeInv, Step
    <3>3. replies = << >> => Len(replies) = 0
      BY <2>1, ReplyCount
    <3> QED
      BY <3>1, <3>2, <3>3
  <2>6. \A k \in DOMAIN replies : k < Len(replies) => replies[k].code = 101
    <3>1. ASSUME Len(replies) \in {0, 1}, NEW k \in DOMAIN replies
          PROVE  ~ k < Len(replies)
      BY <2>1, <3>1, ReplyCount
    <3> QED
      BY <2>3, <2>4, <2>5, <3>1
  <2>7. Done /\ (\E k \in DOMAIN replies : replies[k].code = 101) /\ Len(replies) = 1
          => upgraded # {}
    BY <2>1, <2>3, <2>4 DEF Done
  <2> QED
    BY <2>2, <2>3, <2>6, <2>7 DEF AnsweredTruthfully
<1> QED
  BY IInvInit, IInvNext, <1>1, PTL DEF Spec
=============================================================================
