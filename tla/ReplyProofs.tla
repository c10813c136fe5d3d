---------------------------- MODULE ReplyProofs ----------------------------
(***************************************************************************)
(* What holds of every handler on its way to its reply: the programs that  *)
(* are executed are made of the statements they may be made of, and what   *)
(* is sent is what was made.                                               *)
(***************************************************************************)
EXTENDS Reply, SequenceTheorems, TLAPS

Step == {"switching", "handler", "build", "success", "error", "failure", "send",
         "cleanup", "idle", "silent"}

Heap == [made : SUBSET Object, inside : [Object -> SUBSET Object],
         released : SUBSET Object, twice : SUBSET Object]

ReplyRecord == [code : Code, body : {"success", "failure", "page", "none"}]

\* What protocol_create_base wraps in.
Wrapped(s) == IF s = "success" THEN "reply" ELSE "failure"

\* The statements that may be executed: where something is wrapped, only that
\* is called container.
Allowed(s) ==
  { st \in Statement :
      s \in {"success", "failure"} /\ st.var = "container"
        => st.do = "put" \/ st = New("container", Wrapped(s)) }

TypeInv ==
  /\ op \in Op
  /\ step \in Step
  /\ todo \in Seq(Allowed(step))
  /\ step \notin {"build", "success", "failure", "cleanup"} => todo = << >>
  /\ held \in [Var -> Points]
  /\ heap \in Heap
  /\ code \in Code \ {101}
  /\ replies \in Seq(ReplyRecord)
  /\ failed \in BOOLEAN
  /\ botched \in SUBSET {"success", "failure"}

\* The reply that is made is that of the status that goes with it.
StatusInv ==
  /\ step = "success" => held["container"] \in {NULL, "reply"} /\ code = 200
  /\ step = "failure" => held["container"] \in {NULL, "failure"} /\ code # 200
  /\ step = "error" => code # 200
  /\ step = "send" => \/ held["container"] \in {NULL, "reply"} /\ code = 200
                      \/ held["container"] \in {NULL, "failure"} /\ code # 200

\* How much has been sent, by what has been done.
SentInv ==
  /\ \A k \in DOMAIN replies : replies[k].code = 200 <=> replies[k].body = "success"
  /\ step \in {"handler", "build", "success", "error", "failure", "send", "silent"}
       => replies = << >>
  /\ step = "cleanup" => Len(replies) = 1 /\ replies[1].code # 101

ReplyInv == TypeInv /\ StatusInv /\ SentInv

-----------------------------------------------------------------------------
(***************************************************************************)
(* Programs.                                                               *)
(***************************************************************************)
LEMMA StatementsAllowed ==
  ASSUME NEW s
  PROVE  /\ \A v \in Var \ {"container"}, o \in Object : New(v, o) \in Allowed(s)
         /\ \A v \in Var \ {"container"}, c \in Var : Add(v, c) \in Allowed(s)
         /\ \A v \in Var \ {"container"}, w \in Var \cup {NULL} : Set(v, w) \in Allowed(s)
         /\ \A v \in Var : [do |-> "put", var |-> v, arg |-> NULL] \in Allowed(s)
         /\ New("container", Wrapped(s)) \in Allowed(s)
  BY DEF Allowed, Statement, New, Add, Set, Wrapped, Var, Object

LEMMA PutsAllowed ==
  ASSUME NEW s, NEW vs \in Seq(Var)
  PROVE  Puts(vs) \in Seq(Allowed(s))
<1>1. DOMAIN Puts(vs) = 1..Len(vs) /\ Len(vs) \in Nat
  BY DEF Puts
<1>2. \A k \in 1..Len(vs) : Puts(vs)[k] \in Allowed(s)
  BY StatementsAllowed DEF Puts
<1>3. Puts(vs) = [k \in 1..Len(vs) |-> Puts(vs)[k]]
  BY DEF Puts
<1> HIDE DEF Puts
<1> DEFINE F(k) == Puts(vs)[k]
<1>4. [k \in 1..Len(vs) |-> F(k)] \in [1..Len(vs) -> Allowed(s)]
  BY <1>2
<1>5. Puts(vs) \in [1..Len(vs) -> Allowed(s)]
  BY <1>3, <1>4
<1> QED
  BY <1>1, <1>5, IsASeq

LEMMA Joined ==
  ASSUME NEW s, NEW p \in Seq(Allowed(s)), NEW q \in Seq(Allowed(s))
  PROVE  p \o q \in Seq(Allowed(s))
  BY ConcatProperties

LEMMA EncodeItemAllowed ==
  ASSUME NEW s, NEW key \in BOOLEAN
  PROVE  protocol_encode_item(key) \in Seq(Allowed(s))
<1> DEFINE S == Allowed(s)
<1>1. /\ New("base", "item") \in S /\ New("key", "key") \in S /\ Set("key", NULL) \in S
      /\ Add("key", "base") \in S /\ New("value", "value") \in S /\ Add("value", "base") \in S
  BY StatementsAllowed DEF Var, Object
<1> HIDE DEF S
<1>2. << New("base", "item") >> \in Seq(S)
  BY <1>1
<1>3. (IF key THEN << New("key", "key") >> ELSE << Set("key", NULL) >>) \in Seq(S)
  BY <1>1
<1>4. << Add("key", "base"), Set("key", NULL),
         New("value", "value"), Add("value", "base") >> \in Seq(S)
  BY <1>1
<1> QED
  BY <1>2, <1>3, <1>4, Joined DEF S, protocol_encode_item

LEMMA ListAllowed ==
  ASSUME NEW s, NEW o \in Object
  PROVE  list_foreach_callback(o) \in Seq(Allowed(s))
<1> DEFINE S == Allowed(s)
<1>1. New("str", o) \in S /\ Add("str", "list") \in S /\ Set("str", NULL) \in S
  BY StatementsAllowed DEF Var
<1> HIDE DEF S
<1>2. << New("str", o), Add("str", "list"), Set("str", NULL) >> \in Seq(S)
  BY <1>1
<1> QED
  BY <1>2 DEF S, list_foreach_callback

LEMMA BuildsAllowed ==
  ASSUME NEW s, NEW o \in Op, NEW program \in Builds(o)
  PROVE  program \in Seq(Allowed(s))
<1> DEFINE S == Allowed(s)
<1>1. /\ Set("object", "base") \in S /\ New("list", "list") \in S
      /\ New("name", "name") \in S /\ New("detail", "name") \in S /\ New("info", "info") \in S
      /\ Add("detail", "info") \in S /\ New("response", "response") \in S
      /\ New("detail", "id") \in S /\ Add("detail", "response") \in S
      /\ Set("detail", "base") \in S
  BY StatementsAllowed DEF Var, Object
<1>2. \A key \in BOOLEAN : protocol_encode_item(key) \in Seq(S)
  BY EncodeItemAllowed
<1>3. list_foreach_callback("first") \in Seq(S) /\ list_foreach_callback("second") \in Seq(S)
  BY ListAllowed DEF Object
<1>4. \A p, q \in Seq(S) : p \o q \in Seq(S)
  BY Joined
<1> HIDE DEF S
<1>5. CASE o \in {"take", "peek"}
  <2>1. PICK key \in BOOLEAN : program = protocol_encode_item(key) \o << Set("object", "base") >>
    BY <1>5 DEF Builds
  <2>2. << Set("object", "base") >> \in Seq(S)
    BY <1>1
  <2> QED
    BY <1>2, <1>4, <2>1, <2>2 DEF S
<1>6. CASE o = "list"
  <2>1. PICK names \in { << >>, list_foreach_callback("first"),
                         list_foreach_callback("first") \o list_foreach_callback("second") } :
          program = << New("list", "list") >> \o names
    BY <1>6 DEF Builds
  <2>2. << New("list", "list") >> \in Seq(S) /\ << >> \in Seq(S)
    BY <1>1
  <2>3. names \in Seq(S)
    BY <1>3, <1>4, <2>1, <2>2
  <2> QED
    BY <1>4, <2>1, <2>2, <2>3 DEF S
<1>7. CASE o = "new"
  <2>1. << New("name", "name") >> \in Seq(S)
    BY <1>1
  <2> QED
    BY <1>7, <2>1 DEF Builds, S
<1>8. CASE o = "info"
  <2>1. << New("detail", "name"), New("info", "info"), Add("detail", "info") >> \in Seq(S)
    BY <1>1
  <2> QED
    BY <1>8, <2>1 DEF Builds, S
<1>9. CASE o = "wait"
  <2> DEFINE p == << New("response", "response"), New("detail", "id"),
                     Add("detail", "response") >>
             q == << Set("detail", "base"), Add("detail", "response") >>
  <2>1. PICK key \in BOOLEAN : program = p \o protocol_encode_item(key) \o q
    BY <1>9 DEF Builds
  <2>2. p \in Seq(S) /\ q \in Seq(S)
    BY <1>1
  <2> HIDE DEF p, q
  <2>3. p \o protocol_encode_item(key) \in Seq(S)
    BY <1>2, <1>4, <2>2
  <2> QED
    BY <1>4, <2>1, <2>2, <2>3 DEF S
<1>10. CASE o \in {"put", "delete"}
  <2>1. program = << >>
    BY <1>10 DEF Builds
  <2> QED
    BY <2>1
<1>11. CASE o \in {"none", "ask"}
  BY <1>11 DEF Builds
<1> QED
  BY <1>5, <1>6, <1>7, <1>8, <1>9, <1>10, <1>11 DEF Op

\* protocol_create_base makes what it is asked to make.
LEMMA CreateBaseAllowed ==
  ASSUME NEW s \in {"success", "failure"}, NEW message \in Points, NEW status \in Object,
         NEW payload \in Points
  PROVE  protocol_create_base(message, status, Wrapped(s), payload) \in Seq(Allowed(s))
<1> DEFINE S == Allowed(s)
           a == IF message = NULL THEN << >> ELSE << New("msg", message) >>
           b == << New("status", status), New("container", Wrapped(s)),
                   Add("msg", "container"), Set("msg", NULL),
                   Add("status", "container"), Set("status", NULL) >>
           c == IF payload = NULL THEN << >>
                ELSE << Add("payload", "container"), Set("payload", NULL) >>
<1>1. /\ message # NULL => New("msg", message) \in S
      /\ New("status", status) \in S /\ New("container", Wrapped(s)) \in S
      /\ Add("msg", "container") \in S /\ Set("msg", NULL) \in S
      /\ Add("status", "container") \in S /\ Set("status", NULL) \in S
      /\ Add("payload", "container") \in S /\ Set("payload", NULL) \in S
  BY StatementsAllowed DEF Var, Points
<1> HIDE DEF S
<1>2. a \in Seq(S)
  BY <1>1
<1>3. b \in Seq(S)
  BY <1>1
<1>4. c \in Seq(S)
  BY <1>1
<1>5. a \o b \in Seq(S)
  BY <1>2, <1>3, Joined DEF S
<1>6. protocol_create_base(message, status, Wrapped(s), payload) = a \o b \o c
  BY DEF protocol_create_base
<1> HIDE DEF a, b, c
<1> QED
  BY <1>4, <1>5, <1>6, Joined DEF S

LEMMA ErrorLabelAllowed ==
  ASSUME NEW v
  PROVE  ErrorLabel(v) \in Seq(Allowed(step))
<1> DEFINE S == Allowed(step)
<1>1. /\ << "payload", "status", "container", "payload" >> \in Seq(Var)
      /\ << "payload", "status", "container" >> \in Seq(Var)
      /\ << "payload", "payload", "status", "container" >> \in Seq(Var)
      /\ << "base", "value", "key" >> \in Seq(Var)
      /\ << "str", "list" >> \in Seq(Var)
      /\ << "info", "detail" >> \in Seq(Var)
  BY DEF Var
<1>2. /\ Puts(<< "payload", "status", "container", "payload" >>) \in Seq(S)
      /\ Puts(<< "payload", "status", "container" >>) \in Seq(S)
      /\ Puts(<< "payload", "payload", "status", "container" >>) \in Seq(S)
      /\ Puts(<< "base", "value", "key" >>) \in Seq(S)
      /\ Puts(<< "str", "list" >>) \in Seq(S)
      /\ Puts(<< "info", "detail" >>) \in Seq(S)
  BY <1>1, PutsAllowed
<1>3. Set("detail", NULL) \in S
  BY StatementsAllowed DEF Var
<1> HIDE DEF S
<1>4. << Set("detail", NULL) >> \in Seq(S) /\ << >> \in Seq(S)
  BY <1>3
<1>5. Puts(<< "base", "value", "key" >>) \o << Set("detail", NULL) >> \in Seq(S)
  BY <1>2, <1>4, Joined DEF S
<1>6. ErrorLabel(v) \in Seq(S)
  BY <1>2, <1>4, <1>5 DEF ErrorLabel
<1> QED
  BY <1>6 DEF S

LEMMA CleanupAllowed ==
  ASSUME NEW s
  PROVE  Cleanup \in Seq(Allowed(s))
<1> DEFINE S == Allowed(s)
           unset == << Set("response", NULL), Set("detail", NULL) >>
           puts == Puts(<< "response", "detail" >>)
<1>1. << "response", "detail" >> \in Seq(Var)
  BY DEF Var
<1>2. puts \in Seq(S)
  BY <1>1, PutsAllowed
<1>3. Set("response", NULL) \in S /\ Set("detail", NULL) \in S
  BY StatementsAllowed DEF Var
<1> HIDE DEF S
<1>4. unset \in Seq(S) /\ << >> \in Seq(S)
  BY <1>3
<1>5. unset \o puts \in Seq(S) /\ << >> \o puts \in Seq(S)
  BY <1>2, <1>4, Joined DEF S
<1>6. Cleanup \in { << >>, unset \o puts, << >> \o puts }
  BY DEF Cleanup
<1> HIDE DEF unset, puts
<1> QED
  BY <1>4, <1>5, <1>6 DEF S

-----------------------------------------------------------------------------
(***************************************************************************)
(* Execution.                                                              *)
(***************************************************************************)
LEMMA PutKeepsType ==
  ASSUME NEW h \in Heap, NEW o \in Points
  PROVE  json_object_put(h, o) \in Heap
<1>1. CASE o = NULL
  BY <1>1 DEF json_object_put
<1>2. CASE o # NULL
  <2>1. \A objects \in SUBSET Object : Opened(h, objects) \in SUBSET Object
    BY DEF Opened, Heap
  <2>2. Whole(h, o) \in SUBSET Object
    BY <1>2, <2>1 DEF Whole, Points
  <2> QED
    BY <1>2, <2>2 DEF json_object_put, Heap
<1> QED
  BY <1>1, <1>2

LEMMA ExecuteStep ==
  ASSUME ReplyInv, Execute
  PROVE  ReplyInv'
<1> DEFINE st == Head(todo)
<1>1. /\ UNCHANGED << op, step, code, replies, botched >>
      /\ step \in {"build", "success", "failure", "cleanup"} /\ todo # << >>
  BY DEF Execute, Allocate, ObjectAdd, Assign, Release, StatementFails, Doing, ReplyInv, TypeInv
<1>2. st \in Allowed(step) /\ Tail(todo) \in Seq(Allowed(step))
  BY <1>1, HeadTailProperties DEF ReplyInv, TypeInv
<1>3. /\ st \in Statement
      /\ step \in {"success", "failure"} /\ st.var = "container"
           => st.do = "put" \/ st = New("container", Wrapped(step))
  BY <1>2 DEF Allowed
<1>4. /\ st.var \in Var
      /\ st.do = "new" => st.arg \in Object
      /\ st.do = "add" => st.arg \in Var
      /\ st.do = "set" => st.arg \in Var \cup {NULL}
  BY <1>3 DEF Statement
<1> HIDE DEF st
<1>5. held \in [Var -> Points] /\ heap \in Heap
  BY DEF ReplyInv, TypeInv
<1>6. /\ failed' \in BOOLEAN /\ todo' \in Seq(Allowed(step)) /\ held' \in [Var -> Points]
      /\ heap' \in Heap
  <2>1. CASE Allocate
    BY <1>2, <1>4, <1>5, <2>1 DEF Allocate, Doing, st, Heap, Points, ReplyInv, TypeInv
  <2>2. CASE ObjectAdd
    <3>1. held[st.var] \in Points
      BY <1>4, <1>5
    <3>2. Added(heap, held[st.var], held[st.arg]) \in Heap
      BY <1>5, <3>1 DEF Added, Heap, Points
    <3> QED
      BY <1>2, <1>5, <2>2, <3>2 DEF ObjectAdd, st, ReplyInv, TypeInv
  <2>3. CASE Assign
    <3>1. The(st.arg) \in Points
      BY <1>4, <1>5, <2>3 DEF Assign, Doing, The, Points, st
    <3> QED
      BY <1>2, <1>5, <2>3, <3>1 DEF Assign, st, ReplyInv, TypeInv
  <2>4. CASE Release
    <3>1. held[st.var] \in Points
      BY <1>4, <1>5
    <3> QED
      BY <1>2, <1>5, <2>4, <3>1, PutKeepsType DEF Release, st, ReplyInv, TypeInv
  <2>5. CASE StatementFails
    <3>1. ErrorLabel(st.var) \in Seq(Allowed(step))
      BY ErrorLabelAllowed
    <3>2. held' \in [Var -> Points]
      BY <1>4, <1>5, <2>5 DEF StatementFails, Points, st
    <3> QED
      BY <1>5, <2>5, <3>1, <3>2 DEF StatementFails, st
  <2> QED
    BY <2>1, <2>2, <2>3, <2>4, <2>5 DEF Execute
<1>7. TypeInv'
  BY <1>1, <1>6 DEF ReplyInv, TypeInv
<1>8. step \in {"success", "failure"} =>
        held'["container"] \in {held["container"], NULL, Wrapped(step)}
  <2> SUFFICES ASSUME step \in {"success", "failure"}
               PROVE  held'["container"] \in {held["container"], NULL, Wrapped(step)}
    OBVIOUS
  <2>1. CASE Allocate
    BY <1>3, <1>4, <1>5, <2>1 DEF Allocate, Doing, st, New, Var
  <2>2. CASE ObjectAdd \/ Release
    BY <2>2 DEF ObjectAdd, Release
  <2>3. CASE Assign
    <3>1. st.do = "set" /\ held' = [held EXCEPT ![st.var] = The(st.arg)]
      BY <2>3 DEF Assign, Doing, st
    <3>2. st.var # "container"
      BY <1>3, <3>1 DEF New
    <3> QED
      BY <1>5, <3>1, <3>2 DEF Var
  <2>4. CASE StatementFails
    BY <1>4, <1>5, <2>4 DEF StatementFails, st, Var
  <2> QED
    BY <2>1, <2>2, <2>3, <2>4 DEF Execute
<1>9. StatusInv' /\ SentInv'
  BY <1>1, <1>8 DEF ReplyInv, StatusInv, SentInv, Wrapped
<1> QED
  BY <1>7, <1>9 DEF ReplyInv

-----------------------------------------------------------------------------
(***************************************************************************)
(* The steps between the functions.                                        *)
(***************************************************************************)
LEMMA CallStep ==
  ASSUME held \in [Var -> Points], NEW s \in {"success", "failure"},
         NEW message \in Points, NEW status \in Object, NEW payload \in Points,
         Call(message, status, Wrapped(s), payload)
  PROVE  /\ todo' \in Seq(Allowed(s)) /\ failed' \in BOOLEAN
         /\ held' \in [Var -> Points] /\ held'["container"] = NULL
  BY CreateBaseAllowed DEF Call, Points, Var

LEMMA PayloadPoints ==
  ASSUME held \in [Var -> Points]
  PROVE  Payload \in Points
  BY DEF Payload, Var, Points

\* Control passes to another step, and nothing is executed.
LEMMA Passes ==
  ASSUME ReplyInv, todo = << >>, UNCHANGED << todo, failed, held, heap, replies >>,
         op' \in Op, step' \in Step, code' \in Code \ {101},
         botched' \in SUBSET {"success", "failure"}, StatusInv', SentInv'
  PROVE  ReplyInv'
<1>1. << >> \in Seq(Allowed(step'))
  OBVIOUS
<1> QED
  BY <1>1 DEF ReplyInv, TypeInv

\* A request is taken up, or something is sent without JSON.
LEMMA BeginStep ==
  ASSUME ReplyInv, todo = << >>, UNCHANGED jsonVars, op' \in Op,
         step' \in Step, code' \in Code \ {101}, replies' \in Seq(ReplyRecord),
         StatusInv', SentInv'
  PROVE  ReplyInv'
<1>1. << >> \in Seq(Allowed(step'))
  OBVIOUS
<1> QED
  BY <1>1 DEF ReplyInv, TypeInv, jsonVars

LEMMA ReplyStep ==
  ASSUME ReplyInv, ReplyNext
  PROVE  ReplyInv'
<1> USE DEF Step, Code
<1>1. TypeInv /\ StatusInv /\ SentInv
  BY DEF ReplyInv
<1>2. CASE Execute
  BY <1>2, ExecuteStep
<1>3. CASE HandlerRefuses
  <2>1. /\ step = "handler" /\ step' = "error" /\ code' \in {400, 404, 500}
        /\ UNCHANGED << op, todo, failed, held, heap, botched, replies >>
    BY <1>3 DEF HandlerRefuses, Error, jsonVars
  <2>2. StatusInv' /\ SentInv'
    BY <1>1, <2>1 DEF StatusInv, SentInv
  <2> QED
    BY <1>1, <2>1, <2>2, Passes DEF TypeInv
<1>4. CASE NothingToSend
  <2>1. /\ step = "handler" /\ step' = "silent" /\ op' = "none" /\ code' = code
        /\ UNCHANGED << todo, failed, held, heap, botched, replies >>
    BY <1>4 DEF NothingToSend, jsonVars
  <2>2. StatusInv' /\ SentInv'
    BY <1>1, <2>1 DEF StatusInv, SentInv
  <2> QED
    BY <1>1, <2>1, <2>2, Passes DEF TypeInv, Op
<1>5. CASE BuildPayload
  <2>1. /\ step = "handler" /\ step' = "build" /\ todo' \in Builds(op)
        /\ UNCHANGED << op, failed, held, heap, code, replies, botched >>
    BY <1>5 DEF BuildPayload
  <2>2. todo' \in Seq(Allowed("build"))
    BY <1>1, <2>1, BuildsAllowed DEF TypeInv
  <2>3. StatusInv' /\ SentInv'
    BY <1>1, <2>1 DEF StatusInv, SentInv
  <2> QED
    BY <1>1, <2>1, <2>2, <2>3 DEF ReplyInv, TypeInv
<1>6. CASE BuildPayloadFailed
  <2>1. /\ step = "build" /\ todo = << >> /\ step' = "error" /\ code' = 500
        /\ UNCHANGED << op, todo, failed, held, heap, botched, replies >>
    BY <1>6 DEF BuildPayloadFailed, Error, jsonVars
  <2>2. StatusInv' /\ SentInv'
    BY <1>1, <2>1 DEF StatusInv, SentInv
  <2> QED
    BY <1>1, <2>1, <2>2, Passes DEF TypeInv
<1>7. CASE CreateSuccess
  <2>1. /\ step = "build" /\ step' = "success" /\ code' = 200
        /\ Call(NULL, "status", "reply", Payload)
        /\ UNCHANGED << op, heap, replies, botched >>
    BY <1>7 DEF CreateSuccess
  <2>2. Wrapped("success") = "reply" /\ NULL \in Points /\ "status" \in Object
    BY DEF Wrapped, Points, Object
  <2>3. /\ todo' \in Seq(Allowed("success")) /\ failed' \in BOOLEAN
        /\ held' \in [Var -> Points] /\ held'["container"] = NULL
    BY <1>1, <2>1, <2>2, PayloadPoints, CallStep DEF TypeInv
  <2>4. StatusInv' /\ SentInv'
    BY <1>1, <2>1, <2>3 DEF StatusInv, SentInv
  <2> QED
    BY <1>1, <2>1, <2>3, <2>4 DEF ReplyInv, TypeInv
<1>8. CASE CreateSuccessFailed
  <2>1. /\ step = "success" /\ todo = << >> /\ step' = "error" /\ code' = 500
        /\ botched' = botched \cup {"success"}
        /\ UNCHANGED << op, todo, failed, held, heap, replies >>
    BY <1>8 DEF CreateSuccessFailed, Error
  <2>2. StatusInv' /\ SentInv'
    BY <1>1, <2>1 DEF StatusInv, SentInv
  <2>3. botched' \in SUBSET {"success", "failure"}
    BY <1>1, <2>1 DEF TypeInv
  <2> QED
    BY <1>1, <2>1, <2>2, <2>3, Passes DEF TypeInv
<1>9. CASE CreateFailure
  <2>1. /\ step = "error" /\ step' = "failure"
        /\ Call("message", "failure_status", "failure", NULL)
        /\ UNCHANGED << op, heap, code, replies, botched >>
    BY <1>9 DEF CreateFailure, CallFailure
  <2>2. /\ Wrapped("failure") = "failure" /\ NULL \in Points
        /\ "failure_status" \in Object /\ "message" \in Points
    BY DEF Wrapped, Points, Object
  <2>3. /\ todo' \in Seq(Allowed("failure")) /\ failed' \in BOOLEAN
        /\ held' \in [Var -> Points] /\ held'["container"] = NULL
    BY <1>1, <2>1, <2>2, CallStep DEF TypeInv
  <2>4. StatusInv' /\ SentInv'
    BY <1>1, <2>1, <2>3 DEF StatusInv, SentInv
  <2> QED
    BY <1>1, <2>1, <2>3, <2>4 DEF ReplyInv, TypeInv
<1>10. CASE CreateFailureFailed
  <2>1. /\ step = "failure" /\ todo = << >> /\ step' = "send"
        /\ botched' = botched \cup {"failure"}
        /\ held' = [held EXCEPT !["container"] = NULL]
        /\ UNCHANGED << op, todo, failed, heap, code, replies >>
    BY <1>10 DEF CreateFailureFailed
  <2>2. held' \in [Var -> Points] /\ held'["container"] = NULL
    BY <1>1, <2>1 DEF TypeInv, Points, Var
  <2>3. StatusInv' /\ SentInv'
    BY <1>1, <2>1, <2>2 DEF StatusInv, SentInv
  <2>4. << >> \in Seq(Allowed(step'))
    OBVIOUS
  <2>5. botched' \in SUBSET {"success", "failure"}
    BY <1>1, <2>1 DEF TypeInv
  <2> QED
    BY <1>1, <2>1, <2>2, <2>3, <2>4, <2>5 DEF ReplyInv, TypeInv
<1>11. CASE Created
  <2>1. /\ step \in {"success", "failure"} /\ todo = << >> /\ step' = "send"
        /\ UNCHANGED << op, todo, failed, held, heap, botched, code, replies >>
    BY <1>11 DEF Created, jsonVars
  <2>2. StatusInv' /\ SentInv'
    BY <1>1, <2>1 DEF StatusInv, SentInv
  <2> QED
    BY <1>1, <2>1, <2>2, Passes DEF TypeInv
<1>12. CASE Send
  <2>1. /\ step = "send" /\ step' = "cleanup" /\ todo' = Cleanup
        /\ SendJson(held["container"], code)
        /\ heap' = json_object_put(heap, held["container"])
        /\ UNCHANGED << op, failed, held, code, botched >>
    BY <1>12 DEF Send
  <2>2. held["container"] \in Points
    BY <1>1 DEF TypeInv, Var
  <2>3. heap' \in Heap
    BY <1>1, <2>1, <2>2, PutKeepsType DEF TypeInv
  <2>4. todo' \in Seq(Allowed("cleanup"))
    BY <2>1, CleanupAllowed
  <2>5. replies = << >>
    BY <1>1, <2>1 DEF SentInv
  <2> DEFINE Fits(status, body) ==
               /\ replies' = << [code |-> status, body |-> body] >>
               /\ status # 101
               /\ status = 200 <=> body = "success"
  <2>6. PICK status \in Code, body \in {"success", "failure"} : Fits(status, body)
    <3>1. ASSUME replies' = Sent(500, "failure")
          PROVE  Fits(500, "failure")
      BY <2>5, <3>1 DEF Sent
    <3>2. ASSUME held["container"] # NULL,
                 replies' = Sent(code, BodyOf(held["container"]))
          PROVE  code = 200 <=> BodyOf(held["container"]) = "success"
      BY <1>1, <2>1, <3>2 DEF StatusInv, BodyOf, NULL
    <3>3. code \in Code /\ code # 101 /\ BodyOf(held["container"]) \in {"success", "failure"}
      BY <1>1 DEF TypeInv, BodyOf
    <3> QED
      BY <2>1, <2>5, <3>1, <3>2, <3>3 DEF SendJson, Sent
  <2>7. /\ replies' \in Seq(ReplyRecord) /\ DOMAIN replies' = {1} /\ Len(replies') = 1
        /\ replies'[1].code = status /\ replies'[1].body = body
    BY <2>6 DEF ReplyRecord
  <2>8. StatusInv' /\ SentInv'
    BY <2>1, <2>6, <2>7 DEF StatusInv, SentInv
  <2> QED
    BY <1>1, <2>1, <2>3, <2>4, <2>7, <2>8 DEF ReplyInv, TypeInv
<1>13. CASE Return
  <2>1. /\ step = "cleanup" /\ todo = << >> /\ step' = "idle" /\ op' = "none"
        /\ code' = 200 /\ failed' = FALSE /\ botched' = {}
        /\ held' = [v \in Var |-> NULL] /\ heap' = NoObjects
        /\ UNCHANGED << todo, replies >>
    BY <1>13 DEF Return, Returning
  <2>2. heap' \in Heap /\ held' \in [Var -> Points]
    BY <2>1 DEF NoObjects, Heap, Points
  <2>3. StatusInv' /\ SentInv'
    BY <1>1, <2>1 DEF StatusInv, SentInv
  <2>4. << >> \in Seq(Allowed(step'))
    OBVIOUS
  <2>5. op' \in Op /\ code' \in Code \ {101} /\ botched' \in SUBSET {"success", "failure"}
    BY <2>1 DEF Op
  <2>6. todo' \in Seq(Allowed(step')) /\ todo' = << >>
    BY <2>1, <2>4
  <2>7. step' \in Step /\ failed' \in BOOLEAN
    BY <2>1
  <2>8. replies' \in Seq(ReplyRecord)
    BY <1>1, <2>1 DEF TypeInv
  <2>9. TypeInv'
    BY <2>2, <2>5, <2>6, <2>7, <2>8 DEF TypeInv
  <2> QED
    BY <2>3, <2>9 DEF ReplyInv
<1> QED
  BY <1>2, <1>3, <1>4, <1>5, <1>6, <1>7, <1>8, <1>9, <1>10, <1>11, <1>12, <1>13 DEF ReplyNext
=============================================================================
