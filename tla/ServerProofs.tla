---------------------------- MODULE ServerProofs ----------------------------
(***************************************************************************)
(* Theorems about Server, for any queues, names, items, wants, connections *)
(* and keys.                                                               *)
(*                                                                         *)
(* The invariant has a part that holds whatever fails, about the lists and *)
(* about who has which item, and a part about connections that holds       *)
(* unless something fails inside a handler.                                *)
(***************************************************************************)
EXTENDS Server, QueueOpsProofs

Once(s) == \A j, k \in DOMAIN s : s[j] = s[k] => j = k

\* Every queue object is sound, also those that are not created yet or were
\* freed, which are empty.
ManagerInv ==
  /\ mqs \in Seq(MQ)
  /\ Once(mqs)
  /\ \A m \in MQ : Sound(queue[m], Item, Want)
  /\ \A m \in MQ : m \notin Live => queue[m] = NewQueue

\* A callback in a queue has a want in the manager that points to this queue,
\* and a want that points to a live queue has its callback there.
WantInv ==
  /\ \A m \in MQ : \A w \in Refs(queue[m].callbacks) : w \in wants /\ want[w].queue = m
  /\ \A w \in wants : want[w].queue \in Live => w \in Refs(queue[want[w].queue].callbacks)

\* The items in the queues are the pending ones, and no two queues share one.
ItemInv ==
  /\ \A m \in MQ : \A i \in Refs(queue[m].items) : fate[i].state = "pending"
  /\ \A m, k \in MQ : \A i \in Refs(queue[m].items) : i \in Refs(queue[k].items) => m = k
  /\ \A i \in Item : fate[i].state = "pending" => \E m \in MQ : i \in Refs(queue[m].items)

\* An item that has not left is not freed and answers nobody.  One that has
\* answered a want did so alone, and the want has left the manager.
FateInv ==
  \A i \in Item :
    /\ fate[i].state \in {"new", "pending"} => frees[i] = 0 /\ fate[i].to = {}
    /\ \A w \in fate[i].to : w \in DOMAIN want /\ w \notin wants
    /\ \A j \in Item : \A w \in fate[i].to : w \in fate[j].to => i = j

IInv == TypeOK /\ ManagerInv /\ WantInv /\ ItemInv /\ FateInv

\* While nothing fails: a want that is not cancelled has a client that can be
\* sent to; one that is cancelled has lost its client or its queue; and every
\* want that has left the manager has left with an item.
ClientInv ==
  /\ \A c \in Conn : conn[c] # "broken"
  /\ \A w \in DOMAIN want : conn[want[w].client] # "none"
  /\ \A w \in wants : ~ want[w].cancelled => conn[want[w].client] \in {"active", "closing"}
  /\ \A w \in wants :
       want[w].cancelled /\ want[w].queue \in Live => conn[want[w].client] # "active"
  /\ \A i \in Item : fate[i].state = "dropped" =>
       \E w \in fate[i].to : conn[want[w].client] # "active"
  /\ \A w \in DOMAIN want : w \in wants \/
       \E i \in Item : fate[i].to = {w} /\ fate[i].state \in {"sent", "dropped"}

UniqueIds ==
  \A m, k \in Live : id[m] = id[k] =>
     m = k \/ \E name \in Name : StoredAs[name] = id[m] /\ name # id[m]
-----------------------------------------------------------------------------
(***************************************************************************)
(* The operators of Server.                                                *)
(***************************************************************************)
LEMMA UpdatedProperties ==
  ASSUME NEW f, NEW x, NEW value
  PROVE  /\ DOMAIN Updated(f, x, value) = DOMAIN f \cup {x}
         /\ Updated(f, x, value)[x] = value
         /\ \A y \in DOMAIN f : y # x => Updated(f, x, value)[y] = f[y]
  BY DEF Updated

LEMMA MarkedProperties ==
  ASSUME TypeOK, NEW ws
  PROVE  /\ DOMAIN Marked(ws) = DOMAIN want
         /\ \A w \in DOMAIN want :
              /\ Marked(ws)[w] \in [queue : DOMAIN id, client : Conn, cancelled : BOOLEAN]
              /\ Marked(ws)[w].queue = want[w].queue
              /\ Marked(ws)[w].client = want[w].client
              /\ Marked(ws)[w].cancelled <=> want[w].cancelled \/ w \in ws \cap wants
<1> DEFINE Fields == [queue : DOMAIN id, client : Conn, cancelled : BOOLEAN]
<1>1. \A w \in DOMAIN want : want[w] \in Fields
  BY DEF TypeOK
<1>2. DOMAIN Marked(ws) = DOMAIN want
  BY DEF Marked
<1>3. ASSUME NEW w \in DOMAIN want
      PROVE  /\ Marked(ws)[w] \in Fields
             /\ Marked(ws)[w].queue = want[w].queue
             /\ Marked(ws)[w].client = want[w].client
             /\ Marked(ws)[w].cancelled <=> want[w].cancelled \/ w \in ws \cap wants
  <2>1. Marked(ws)[w] = IF w \in ws \cap wants
                        THEN [want[w] EXCEPT !.cancelled = TRUE] ELSE want[w]
    BY DEF Marked
  <2>2. CASE w \in ws \cap wants
    BY <1>1, <2>1, <2>2
  <2>3. CASE w \notin ws \cap wants
    BY <1>1, <2>1, <2>3
  <2> QED
    BY <2>2, <2>3
<1> QED
  BY <1>2, <1>3

(* manager_queue_get finds a queue of that name if there is one.           *)
LEMMA LookupProperties ==
  ASSUME mqs \in Seq(MQ), NEW name
  PROVE  /\ Lookup(name) \subseteq Live
         /\ Lookup(name) \subseteq MQ
         /\ \A m \in Lookup(name) : id[m] = name
         /\ Lookup(name) = {} => \A m \in Live : id[m] # name
<1> DEFINE hits == { j \in 1..Len(mqs) : id[mqs[j]] = name }
           n == SelectInSeq(mqs, LAMBDA m : id[m] = name)
<1>1. /\ Len(mqs) \in Nat /\ DOMAIN mqs = 1..Len(mqs)
      /\ \A j \in 1..Len(mqs) : mqs[j] \in MQ
  BY LenProperties, ElementOfSeq
<1>2. n = IF hits # {} THEN Min(hits) ELSE 0
  BY DEF SelectInSeq
<1>3. hits \in SUBSET Nat
  OBVIOUS
<1>4. hits # {} => n \in hits
  BY <1>2, <1>3, MinIsLeast
<1>5. Lookup(name) = IF n = 0 THEN {} ELSE { mqs[n] }
  BY DEF Lookup
<1>6. Live = { mqs[j] : j \in DOMAIN mqs }
  BY DEF Live, ToSet
<1> HIDE DEF n
<1>7. CASE hits = {}
  <2>1. n = 0
    BY <1>2, <1>7
  <2> QED
    BY <1>1, <1>5, <1>6, <1>7, <2>1
<1>8. CASE hits # {}
  <2>1. n \in 1..Len(mqs) /\ id[mqs[n]] = name
    BY <1>4, <1>8
  <2> QED
    BY <1>1, <1>5, <1>6, <2>1
<1> QED
  BY <1>7, <1>8

(* A queue is appended to the manager's list, or taken out of it.          *)
LEMMA LiveAppend ==
  ASSUME mqs \in Seq(MQ), Once(mqs), NEW m \in MQ, m \notin Live, mqs' = Append(mqs, m)
  PROVE  mqs' \in Seq(MQ) /\ Once(mqs') /\ Live' = Live \cup {m}
<1>1. Len(mqs) \in Nat /\ DOMAIN mqs = 1..Len(mqs)
  BY LenProperties
<1>2. /\ mqs' \in Seq(MQ)
      /\ Len(mqs') = Len(mqs) + 1
      /\ \A j \in 1..Len(mqs) : mqs'[j] = mqs[j]
      /\ mqs'[Len(mqs) + 1] = m
  BY AppendProperties
<1>3. DOMAIN mqs' = 1..(Len(mqs) + 1)
  BY <1>2, LenProperties
<1>4. \A j \in DOMAIN mqs' : j \in DOMAIN mqs \/ j = Len(mqs) + 1
  BY <1>1, <1>3
<1>5. Live' = { mqs'[j] : j \in DOMAIN mqs' } /\ Live = { mqs[j] : j \in DOMAIN mqs }
  BY DEF Live, ToSet
<1>6. Live' = Live \cup {m}
  BY <1>1, <1>2, <1>3, <1>5
<1>7. Once(mqs')
  BY <1>1, <1>2, <1>4, <1>5 DEF Once
<1> QED
  BY <1>2, <1>6, <1>7

LEMMA LiveRemove ==
  ASSUME mqs \in Seq(MQ), Once(mqs), NEW m \in Live, mqs' = RemoveFirst(mqs, m)
  PROVE  mqs' \in Seq(MQ) /\ Once(mqs') /\ Live' = Live \ {m}
<1> DEFINE hits == { j \in 1..Len(mqs) : mqs[j] = m }
           n == IF hits # {} THEN Min(hits) ELSE 0
<1>1. Len(mqs) \in Nat /\ DOMAIN mqs = 1..Len(mqs)
  BY LenProperties
<1>2. Live' = { mqs'[j] : j \in DOMAIN mqs' } /\ Live = { mqs[j] : j \in DOMAIN mqs }
  BY DEF Live, ToSet
<1>3. \E j \in 1..Len(mqs) : mqs[j] = m
  BY <1>1, <1>2
<1>4. hits # {} /\ hits \in SUBSET Nat
  BY <1>3
<1>5. mqs' = RemoveAt(mqs, n)
  BY <1>3 DEF RemoveFirst, SelectInSeq
<1>6. n \in 1..Len(mqs) /\ mqs[n] = m
  BY <1>4, MinIsLeast
<1> HIDE DEF n
<1>7. /\ mqs' \in Seq(MQ)
      /\ Len(mqs') = Len(mqs) - 1
      /\ \A j \in 1..(Len(mqs) - 1) : mqs'[j] = IF j < n THEN mqs[j] ELSE mqs[j + 1]
  BY <1>5, <1>6, RemoveAtProperties
<1>8. DOMAIN mqs' = 1..(Len(mqs) - 1)
  BY <1>7, LenProperties
<1>9. Live' \subseteq Live \ {m}
  BY <1>1, <1>2, <1>6, <1>7, <1>8 DEF Once
<1>10. Live \ {m} \subseteq Live'
  <2> SUFFICES ASSUME NEW j \in DOMAIN mqs, mqs[j] # m
               PROVE  mqs[j] \in Live'
    BY <1>2
  <2>1. CASE j < n
    BY <1>1, <1>2, <1>6, <1>7, <1>8, <2>1
  <2>2. CASE j > n
    <3>1. j - 1 \in DOMAIN mqs' /\ mqs'[j - 1] = mqs[j]
      BY <1>1, <1>6, <1>7, <1>8, <2>2
    <3> QED
      BY <1>2, <3>1
  <2> QED
    BY <1>1, <1>6, <2>1, <2>2
<1>11. Once(mqs')
  <2> SUFFICES ASSUME NEW j \in DOMAIN mqs', NEW k \in DOMAIN mqs', mqs'[j] = mqs'[k]
               PROVE  j = k
    BY DEF Once
  <2> DEFINE old(x) == IF x < n THEN x ELSE x + 1
  <2>1. \A x \in DOMAIN mqs' : old(x) \in DOMAIN mqs /\ mqs'[x] = mqs[old(x)]
    BY <1>1, <1>6, <1>7, <1>8
  <2>2. old(j) = old(k)
    BY <2>1 DEF Once
  <2> QED
    BY <1>1, <1>6, <1>8, <2>2
<1> QED
  BY <1>7, <1>9, <1>10, <1>11
(***************************************************************************)
(* A delivery: the item is sent or dropped, the want leaves the manager,   *)
(* and the fields of the others change only in that they are cancelled.    *)
(***************************************************************************)
Fields == [queue : DOMAIN id, client : Conn, cancelled : BOOLEAN]

\* What happens to the client c of a delivery and to its other wants.
ClientKept == conn' = conn /\ \A v \in wants' : want'[v] = want[v]

ClientShut(c) ==
  /\ conn[c] = "closing"
  /\ conn' = [conn EXCEPT ![c] = "shut"]
  /\ \A v \in wants' : want'[v].cancelled <=> want[v].cancelled \/ want[v].client = c

Delivery(w, fields, i) ==
  /\ conn' \in [Conn -> ConnState]
  /\ DOMAIN want' = DOMAIN want \cup {w}
  /\ \A v \in DOMAIN want' : want'[v] \in Fields
  /\ want'[w].queue = fields.queue /\ want'[w].client = fields.client
  /\ \A v \in DOMAIN want : v # w =>
       want'[v].queue = want[v].queue /\ want'[v].client = want[v].client
  /\ \E s \in {"sent", "dropped"} :
       /\ fate' = [fate EXCEPT ![i] = Outcome(s, {w})]
       /\ ~ Faults /\ s = "dropped" => fields.cancelled \/ conn[fields.client] # "active"
  /\ ~ Faults => ClientKept \/ ClientShut(fields.client)
  /\ wants' = wants \ {w}
  /\ frees' = [frees EXCEPT ![i] = 2]
  /\ process' \in {"running", "aborted"}

LEMMA CallbackEffect ==
  ASSUME TypeOK, NEW w \in Want, NEW fields \in Fields, NEW i \in Item,
         Callback(w, fields, i)
  PROVE  Delivery(w, fields, i)
<1> DEFINE c == fields.client
<1>1. /\ c \in Conn /\ conn \in [Conn -> ConnState]
      /\ \A v \in DOMAIN want : want[v] \in Fields
      /\ wants \subseteq DOMAIN want
  BY DEF TypeOK, Fields
<1>2. /\ wants' = wants \ {w}
      /\ frees' = [frees EXCEPT ![i] = 2]
      /\ process' \in {"running", "aborted"}
  BY DEF Callback
<1>3. ASSUME want' = Updated(want, w, fields)
      PROVE  /\ DOMAIN want' = DOMAIN want \cup {w}
             /\ \A v \in DOMAIN want' : want'[v] \in Fields
             /\ want'[w].queue = fields.queue /\ want'[w].client = fields.client
             /\ \A v \in DOMAIN want : v # w => want'[v] = want[v]
  <2>1. /\ DOMAIN want' = DOMAIN want \cup {w}
        /\ want'[w] = fields
        /\ \A v \in DOMAIN want : v # w => want'[v] = want[v]
    BY <1>3 DEF Updated
  <2> QED
    BY <1>1, <2>1
<1>4. CASE fields.cancelled /\ want' = Updated(want, w, fields) /\ conn' = conn
           /\ fate' = [fate EXCEPT ![i] = Outcome("dropped", {w})]
  <2>1. ClientKept
    BY <1>1, <1>2, <1>3, <1>4 DEF ClientKept
  <2> QED
    BY <1>1, <1>2, <1>3, <1>4, <2>1 DEF Delivery
<1>5. CASE ~ (fields.cancelled /\ want' = Updated(want, w, fields) /\ conn' = conn
              /\ fate' = [fate EXCEPT ![i] = Outcome("dropped", {w})])
  <2>1. PICK o \in Sendings(c), encoded \in BOOLEAN :
           /\ ~ encoded => Faults
           /\ LET state == IF encoded /\ o.sent THEN "sent" ELSE "dropped"
              IN  fate' = [fate EXCEPT ![i] = Outcome(state, {w})]
           /\ Becomes(c, o.state)
           /\ IF o.closed
              THEN want' = Updated(Marked(WantsOf(c)), w, [fields EXCEPT !.cancelled = TRUE])
              ELSE want' = Updated(want, w, fields)
    BY <1>5 DEF Callback
  <2>2. /\ o \in [sent : BOOLEAN, state : ConnState, closed : BOOLEAN]
        /\ \/ o.state = conn[c] /\ (o.sent <=> conn[c] = "active") /\ ~ o.closed
           \/ conn[c] = "closing" /\ ~ o.sent /\ o.state = "shut" /\ o.closed
           \/ Faults
    BY DEF Sendings
  <2>3. conn' = [conn EXCEPT ![c] = o.state] /\ conn' \in [Conn -> ConnState]
    BY <1>1, <2>1, <2>2 DEF Becomes
  <2>4. \E s \in {"sent", "dropped"} :
           /\ fate' = [fate EXCEPT ![i] = Outcome(s, {w})]
           /\ ~ Faults /\ s = "dropped" => conn[c] # "active"
    <3> DEFINE s == IF encoded /\ o.sent THEN "sent" ELSE "dropped"
    <3>1. s \in {"sent", "dropped"}
      OBVIOUS
    <3>2. fate' = [fate EXCEPT ![i] = Outcome(s, {w})]
      BY <2>1
    <3>3. ~ Faults /\ s = "dropped" => conn[c] # "active"
      BY <2>1, <2>2
    <3> QED
      BY <3>1, <3>2, <3>3
  <2>5. CASE ~ o.closed
    <3>1. want' = Updated(want, w, fields)
      BY <2>1, <2>5
    <3>2. ~ Faults => conn' = conn
      BY <1>1, <2>2, <2>3, <2>5
    <3>3. ~ Faults => ClientKept
      BY <1>1, <1>2, <1>3, <3>1, <3>2 DEF ClientKept
    <3> QED
      BY <1>2, <1>3, <2>3, <2>4, <3>1, <3>3 DEF Delivery
  <2>6. CASE o.closed
    <3> DEFINE new == Marked(WantsOf(c))
               f == [fields EXCEPT !.cancelled = TRUE]
    <3>1. want' = Updated(new, w, f)
      BY <2>1, <2>6
    <3>2. /\ DOMAIN new = DOMAIN want
          /\ \A v \in DOMAIN want :
               /\ new[v] \in Fields
               /\ new[v].queue = want[v].queue
               /\ new[v].client = want[v].client
               /\ new[v].cancelled <=> want[v].cancelled \/ v \in WantsOf(c) \cap wants
      BY MarkedProperties DEF Fields
    <3>3. f \in Fields /\ f.queue = fields.queue /\ f.client = fields.client
      BY DEF Fields
    <3> HIDE DEF new, f
    <3>4. /\ DOMAIN want' = DOMAIN want \cup {w}
          /\ want'[w] = f
          /\ \A v \in DOMAIN want : v # w => want'[v] = new[v]
      BY <3>1, <3>2 DEF Updated
    <3>5. ~ Faults => ClientShut(c)
      BY <1>1, <1>2, <2>2, <2>3, <2>6, <3>2, <3>4 DEF ClientShut, WantsOf
    <3>6. \A v \in DOMAIN want' : want'[v] \in Fields
      BY <3>2, <3>3, <3>4
    <3>7. \A v \in DOMAIN want : v # w =>
             want'[v].queue = want[v].queue /\ want'[v].client = want[v].client
      BY <3>2, <3>4
    <3> QED
      BY <1>2, <2>3, <2>4, <3>3, <3>4, <3>5, <3>6, <3>7 DEF Delivery
  <2> QED
    BY <2>5, <2>6
<1> QED
  BY <1>4, <1>5
-----------------------------------------------------------------------------
(***************************************************************************)
(* The part of the invariant that holds whatever fails.                    *)
(***************************************************************************)
LEMMA IInvInit == Init => IInv
<1> SUFFICES ASSUME Init PROVE IInv
  OBVIOUS
<1>1. /\ mqs = << >> /\ queue = [m \in MQ |-> NewQueue]
      /\ wants = {} /\ DOMAIN want = {} /\ DOMAIN id = {}
      /\ conn = [c \in Conn |-> "none"]
      /\ fate = [i \in Item |-> Outcome("new", {})]
      /\ frees = [i \in Item |-> 0]
      /\ process = "running" /\ reply.id = {}
  BY DEF Init
<1>2. /\ Sound(NewQueue, Item, Want)
      /\ Refs(NewQueue.items) = {} /\ Refs(NewQueue.callbacks) = {}
  BY NewQueueSound
<1>3. Live = {} /\ mqs \in Seq(MQ) /\ Once(mqs)
  BY <1>1 DEF Live, ToSet, Once
<1>4. TypeOK
  <2>1. queue \in [MQ -> QueueType(Item, Want)]
    BY <1>1, <1>2 DEF Sound
  <2>2. conn \in [Conn -> ConnState] /\ frees \in [Item -> 0..2]
    BY <1>1 DEF ConnState
  <2>3. fate \in [Item -> Fate]
    BY <1>1 DEF Fate, Outcome
  <2> QED
    BY <1>1, <1>3, <2>1, <2>2, <2>3 DEF TypeOK
<1>5. ManagerInv
  BY <1>1, <1>2, <1>3 DEF ManagerInv
<1>6. WantInv
  BY <1>1, <1>2 DEF WantInv
<1>7. ItemInv
  BY <1>1, <1>2 DEF ItemInv, Outcome
<1>8. FateInv
  BY <1>1 DEF FateInv, Outcome
<1> QED
  BY <1>4, <1>5, <1>6, <1>7, <1>8 DEF IInv

(* A request that only gets a reply.                                       *)
LEMMA ReplyStep ==
  ASSUME IInv, reply'.id \subseteq Ids,
         UNCHANGED << managerVars, wants, want, conn, fate, frees, process >>
  PROVE  IInv'
<1>1. Live' = Live
  BY DEF managerVars, Live
<1>2. TypeOK' /\ ManagerInv'
  BY <1>1 DEF IInv, TypeOK, ManagerInv, managerVars, Fate
<1>3. WantInv' /\ ItemInv' /\ FateInv'
  BY <1>1 DEF IInv, WantInv, ItemInv, FateInv, managerVars
<1> QED
  BY <1>2, <1>3 DEF IInv

LEMMA CreateStep ==
  ASSUME IInv, NEW m \in MQ, m \notin DOMAIN id, NEW newId \in Ids, Create(m, newId)
  PROVE  IInv' /\ Live' = Live \cup {m} /\ m \notin Live /\ queue' = queue
<1>1. /\ mqs \in Seq(MQ) /\ Once(mqs) /\ Live \subseteq DOMAIN id
      /\ queue \in [MQ -> QueueType(Item, Want)]
  BY DEF IInv, ManagerInv, TypeOK
<1>2. m \notin Live /\ mqs' = Append(mqs, m)
  BY <1>1 DEF Create
<1>3. mqs' \in Seq(MQ) /\ Once(mqs') /\ Live' = Live \cup {m}
  BY <1>1, <1>2, LiveAppend
<1>4. queue[m] = NewQueue
  BY <1>2 DEF IInv, ManagerInv
<1>5. queue' = queue
  BY <1>1, <1>4 DEF Create
<1>6. DOMAIN id' = DOMAIN id \cup {m} /\ \A k \in DOMAIN id' : id'[k] \in Ids
  BY DEF Create, Updated, IInv, TypeOK
<1>7. UNCHANGED << wants, want, conn, fate, frees, process >> /\ reply'.id = {newId}
  BY DEF Create
<1>8. TypeOK'
  <2>1. \A w \in DOMAIN want : want[w] \in [queue : DOMAIN id', client : Conn, cancelled : BOOLEAN]
    BY <1>6 DEF IInv, TypeOK
  <2> QED
    BY <1>1, <1>3, <1>5, <1>6, <1>7, <2>1 DEF IInv, TypeOK
<1>9. ManagerInv'
  BY <1>3, <1>5 DEF IInv, ManagerInv
<1>10. WantInv'
  <2>1. \A w \in wants : want[w].queue # m
    BY DEF IInv, TypeOK
  <2> QED
    BY <1>3, <1>5, <1>7, <2>1 DEF IInv, WantInv
<1>11. ItemInv' /\ FateInv'
  BY <1>5, <1>7 DEF IInv, ItemInv, FateInv
<1> QED
  BY <1>2, <1>3, <1>5, <1>8, <1>9, <1>10, <1>11 DEF IInv

LEMMA FreeStep ==
  ASSUME IInv, NEW m \in Live, FreeQueue(m), reply'.id \subseteq Ids,
         want' = want \/ want' = Marked(WantsFor(m))
  PROVE  /\ IInv' /\ Live' = Live \ {m}
         /\ \A i \in Item : fate'[i] = fate[i] \/
              (fate[i].state = "pending" /\ fate'[i] = Outcome("destroyed", {}))
<1> DEFINE left == Refs(queue[m].items)
<1>1. /\ mqs \in Seq(MQ) /\ Once(mqs) /\ Live \subseteq DOMAIN id /\ m \in MQ
      /\ queue \in [MQ -> QueueType(Item, Want)]
      /\ fate \in [Item -> Fate] /\ frees \in [Item -> 0..2]
  BY DEF IInv, ManagerInv, TypeOK
<1>2. mqs' = RemoveFirst(mqs, m) /\ queue' = [queue EXCEPT ![m] = NewQueue]
  BY DEF FreeQueue
<1>3. mqs' \in Seq(MQ) /\ Once(mqs') /\ Live' = Live \ {m}
  BY <1>1, <1>2, LiveRemove
<1>4. /\ Sound(NewQueue, Item, Want)
      /\ Refs(NewQueue.items) = {} /\ Refs(NewQueue.callbacks) = {}
  BY NewQueueSound
<1>5. \A k \in MQ : queue'[k] = IF k = m THEN NewQueue ELSE queue[k]
  BY <1>1, <1>2
<1>6. /\ fate' = [i \in Item |-> IF i \in left THEN Outcome("destroyed", {}) ELSE fate[i]]
      /\ frees' = [i \in Item |-> IF i \in left THEN frees[i] + 1 ELSE frees[i]]
      /\ UNCHANGED << id, wants, conn, process >>
  BY DEF FreeQueue, Refs
<1>7. \A i \in left : i \in Item /\ fate[i].state = "pending" /\ frees[i] = 0
  BY <1>1, SoundLists DEF IInv, ManagerInv, ItemInv, FateInv
<1>8. /\ DOMAIN want' = DOMAIN want
      /\ \A w \in DOMAIN want :
           /\ want'[w] \in Fields
           /\ want'[w].queue = want[w].queue /\ want'[w].client = want[w].client
  BY MarkedProperties DEF IInv, TypeOK, Fields
<1> HIDE DEF left
<1>9. \A i \in Item :
         /\ i \in left => fate'[i] = Outcome("destroyed", {}) /\ fate'[i].state = "destroyed"
                          /\ fate'[i].to = {} /\ frees'[i] = 1
         /\ i \notin left => fate'[i] = fate[i] /\ frees'[i] = frees[i]
  BY <1>6, <1>7 DEF Outcome
<1>10. TypeOK'
  <2>1. queue' \in [MQ -> QueueType(Item, Want)]
    BY <1>1, <1>2, <1>4 DEF Sound
  <2>2. fate' \in [Item -> Fate]
    BY <1>1, <1>6 DEF Fate, Outcome
  <2>3. frees' \in [Item -> 0..2]
    BY <1>1, <1>6, <1>7
  <2> QED
    BY <1>3, <1>6, <1>8, <2>1, <2>2, <2>3 DEF IInv, TypeOK, Fields
<1>11. ManagerInv'
  BY <1>3, <1>4, <1>5 DEF IInv, ManagerInv
<1>12. WantInv'
  <2>1. wants' = wants /\ wants \subseteq DOMAIN want
    BY <1>6 DEF IInv, TypeOK
  <2>2. ASSUME NEW k \in MQ, NEW w \in Refs(queue'[k].callbacks)
        PROVE  w \in wants' /\ want'[w].queue = k
    <3>1. k # m /\ w \in Refs(queue[k].callbacks)
      BY <1>4, <1>5
    <3> QED
      BY <1>8, <2>1, <3>1 DEF IInv, WantInv
  <2>3. ASSUME NEW w \in wants', want'[w].queue \in Live'
        PROVE  w \in Refs(queue'[want'[w].queue].callbacks)
    <3>1. /\ want'[w].queue = want[w].queue /\ want[w].queue \in Live
          /\ want[w].queue # m /\ want[w].queue \in MQ
      BY <1>3, <1>8, <2>1, <2>3 DEF IInv, TypeOK
    <3> QED
      BY <1>5, <2>1, <3>1 DEF IInv, WantInv
  <2> QED
    BY <2>2, <2>3 DEF WantInv
<1>13. ItemInv'
  <2>1. ASSUME NEW k \in MQ, NEW i \in Refs(queue'[k].items)
        PROVE  k # m /\ i \in Refs(queue[k].items) /\ i \in Item /\ i \notin left
    <3>1. k # m /\ i \in Refs(queue[k].items)
      BY <1>4, <1>5
    <3>2. i \in Item
      BY <3>1, SoundLists DEF IInv, ManagerInv
    <3> QED
      BY <1>1, <3>1, <3>2 DEF IInv, ItemInv, left
  <2>2. \A k \in MQ : \A i \in Refs(queue'[k].items) : fate'[i].state = "pending"
    BY <1>9, <2>1 DEF IInv, ItemInv
  <2>3. \A k, l \in MQ : \A i \in Refs(queue'[k].items) : i \in Refs(queue'[l].items) => k = l
    BY <2>1 DEF IInv, ItemInv
  <2>4. ASSUME NEW i \in Item, fate'[i].state = "pending"
        PROVE  \E k \in MQ : i \in Refs(queue'[k].items)
    <3>1. i \notin left /\ fate[i].state = "pending"
      BY <1>9, <2>4
    <3>2. PICK k \in MQ : i \in Refs(queue[k].items)
      BY <3>1 DEF IInv, ItemInv
    <3> QED
      BY <1>5, <3>1, <3>2 DEF left
  <2> QED
    BY <2>2, <2>3, <2>4 DEF ItemInv
<1>14. FateInv'
  <2>1. \A i \in Item : fate'[i].state \in {"new", "pending"} => i \notin left
    BY <1>9
  <2> QED
    BY <1>6, <1>8, <1>9, <2>1 DEF IInv, FateInv
<1> QED
  BY <1>3, <1>7, <1>9, <1>10, <1>11, <1>12, <1>13, <1>14 DEF IInv
(***************************************************************************)
(* An item leaves, for the wants of a set that leave with it: one want, or *)
(* none when a take has it.                                                *)
(***************************************************************************)
LEMMA ItemLeaves ==
  ASSUME IInv, NEW i \in Item, fate[i].state \in {"new", "pending"},
         NEW s \in {"taken", "sent", "dropped"}, NEW T \in SUBSET Want, NEW f \in 0..2,
         fate' = [fate EXCEPT ![i] = Outcome(s, T)], frees' = [frees EXCEPT ![i] = f],
         \A m \in MQ : Refs(queue'[m].items) = Refs(queue[m].items) \ {i},
         DOMAIN want \cup T \subseteq DOMAIN want', wants' = wants \ T,
         \A j \in Item : fate[j].to \cap T = {}
  PROVE  /\ fate' \in [Item -> Fate] /\ frees' \in [Item -> 0..2]
         /\ ItemInv' /\ FateInv'
<1>1. fate \in [Item -> Fate] /\ frees \in [Item -> 0..2]
  BY DEF IInv, TypeOK
<1>2. Outcome(s, T) \in Fate /\ Outcome(s, T).state = s /\ Outcome(s, T).to = T
  BY DEF Outcome, Fate
<1>3. fate' \in [Item -> Fate] /\ frees' \in [Item -> 0..2]
  BY <1>1, <1>2
<1>4. /\ fate'[i].state = s /\ fate'[i].to = T
      /\ \A j \in Item : j # i => fate'[j] = fate[j] /\ frees'[j] = frees[j]
  BY <1>1, <1>2
<1>5. ItemInv'
  <2>1. \A m \in MQ : \A j \in Refs(queue'[m].items) : fate'[j].state = "pending"
    <3>1. \A m \in MQ : Refs(queue[m].items) \subseteq Item
      BY SoundLists DEF IInv, ManagerInv
    <3> QED
      BY <1>4, <3>1 DEF IInv, ItemInv
  <2>2. \A m, k \in MQ : \A j \in Refs(queue'[m].items) : j \in Refs(queue'[k].items) => m = k
    BY DEF IInv, ItemInv
  <2>3. ASSUME NEW j \in Item, fate'[j].state = "pending"
        PROVE  \E m \in MQ : j \in Refs(queue'[m].items)
    <3>1. j # i
      BY <1>4, <2>3
    <3>2. PICK m \in MQ : j \in Refs(queue[m].items)
      BY <1>4, <2>3, <3>1 DEF IInv, ItemInv
    <3> QED
      BY <3>1, <3>2
  <2> QED
    BY <2>1, <2>2, <2>3 DEF ItemInv
<1>6. FateInv'
  <2> SUFFICES ASSUME NEW j \in Item
               PROVE  /\ fate'[j].state \in {"new", "pending"} => frees'[j] = 0 /\ fate'[j].to = {}
                      /\ \A w \in fate'[j].to : w \in DOMAIN want' /\ w \notin wants'
                      /\ \A l \in Item : \A w \in fate'[j].to : w \in fate'[l].to => j = l
    BY DEF FateInv
  <2>1. CASE j = i
    BY <1>4, <2>1 DEF IInv, FateInv
  <2>2. CASE j # i
    BY <1>4, <2>2 DEF IInv, FateInv
  <2> QED
    BY <2>1, <2>2
<1> QED
  BY <1>3, <1>5, <1>6

LEMMA WantsLeave ==
  ASSUME IInv, NEW T, wants' = wants \ T, Live' = Live,
         \A m \in MQ : Refs(queue'[m].callbacks) = Refs(queue[m].callbacks) \ T,
         \A v \in wants' : want'[v].queue = want[v].queue
  PROVE  WantInv'
<1>1. \A w \in wants : want[w].queue \in DOMAIN id /\ DOMAIN id \subseteq MQ
  BY DEF IInv, TypeOK
<1> QED
  BY <1>1 DEF IInv, WantInv

(* One queue changes: what the manager knows of the others stays.          *)
LEMMA QueueStep ==
  ASSUME IInv, NEW m \in Live, NEW new, Sound(new, Item, Want),
         queue' = [queue EXCEPT ![m] = new], mqs' = mqs
  PROVE  /\ m \in MQ /\ Live' = Live /\ ManagerInv'
         /\ queue' \in [MQ -> QueueType(Item, Want)]
         /\ queue'[m] = new
         /\ \A k \in MQ : k # m => queue'[k] = queue[k]
<1>1. /\ m \in MQ /\ queue \in [MQ -> QueueType(Item, Want)]
  BY DEF IInv, TypeOK
<1>2. Live' = Live
  BY DEF Live
<1>3. /\ queue' \in [MQ -> QueueType(Item, Want)]
      /\ queue'[m] = new
      /\ \A k \in MQ : k # m => queue'[k] = queue[k]
  BY <1>1 DEF Sound
<1>4. ManagerInv'
  BY <1>2, <1>3 DEF IInv, ManagerInv
<1> QED
  BY <1>1, <1>2, <1>3, <1>4

LEMMA PutStoredStep ==
  ASSUME IInv, NEW i \in Item, NEW m \in Live, NEW key \in AnyKey,
         fate[i].state = "new", FirstAccepting(queue[m], key) = 0,
         queue' = [queue EXCEPT ![m] = AddItem(@, i, key)],
         fate' = [fate EXCEPT ![i] = Outcome("pending", {})],
         reply'.id \subseteq Ids,
         UNCHANGED << mqs, id, wants, want, conn, frees, process >>
  PROVE  IInv'
<1> DEFINE new == AddItem(queue[m], i, key)
<1>1. /\ m \in MQ /\ fate \in [Item -> Fate]
      /\ queue \in [MQ -> QueueType(Item, Want)]
      /\ \A k \in MQ : Refs(queue[k].items) \subseteq Item
      /\ Sound(queue[m], Item, Want)
  BY SoundLists DEF IInv, TypeOK, ManagerInv
<1>2. \A k \in MQ : i \notin Refs(queue[k].items)
  BY DEF IInv, ItemInv
<1>3. /\ Sound(new, Item, Want)
      /\ Refs(new.items) = Refs(queue[m].items) \cup {i}
      /\ Refs(new.callbacks) = Refs(queue[m].callbacks)
  <2>1. i \notin Refs(queue[m].items)
    BY <1>1, <1>2
  <2> QED
    BY <1>1, <2>1, AddItemSound
<1>4. queue' = [queue EXCEPT ![m] = new]
  BY <1>1
<1> HIDE DEF new
<1>5. /\ Live' = Live /\ ManagerInv'
      /\ queue' \in [MQ -> QueueType(Item, Want)]
      /\ queue'[m] = new
      /\ \A k \in MQ : k # m => queue'[k] = queue[k]
  BY <1>3, <1>4, QueueStep
<1>6. /\ Outcome("pending", {}) \in Fate
      /\ Outcome("pending", {}).state = "pending" /\ Outcome("pending", {}).to = {}
  BY DEF Outcome, Fate
<1>7. /\ fate' \in [Item -> Fate]
      /\ fate'[i].state = "pending" /\ fate'[i].to = {}
      /\ \A j \in Item : j # i => fate'[j] = fate[j]
  BY <1>1, <1>6
<1>8. TypeOK'
  BY <1>5, <1>7 DEF IInv, TypeOK
<1>9. WantInv'
  <2>1. \A k \in MQ : Refs(queue'[k].callbacks) = Refs(queue[k].callbacks) \ {}
    BY <1>3, <1>5
  <2> QED
    BY <1>5, <2>1, WantsLeave
<1>10. ItemInv'
  <2>1. \A k \in MQ : \A j \in Refs(queue'[k].items) :
           (k = m /\ j = i) \/ (j # i /\ j \in Item /\ j \in Refs(queue[k].items))
    BY <1>1, <1>2, <1>3, <1>5
  <2>2. \A k \in MQ : \A j \in Refs(queue[k].items) : j \in Refs(queue'[k].items)
    BY <1>3, <1>5
  <2>3. i \in Refs(queue'[m].items)
    BY <1>3, <1>5
  <2>4. \A k \in MQ : \A j \in Refs(queue'[k].items) : fate'[j].state = "pending"
    BY <1>7, <2>1 DEF IInv, ItemInv
  <2>5. \A k, l \in MQ : \A j \in Refs(queue'[k].items) : j \in Refs(queue'[l].items) => k = l
    BY <2>1 DEF IInv, ItemInv
  <2>6. \A j \in Item : fate'[j].state = "pending" => \E k \in MQ : j \in Refs(queue'[k].items)
    <3>1. \A j \in Item : j # i /\ fate'[j].state = "pending" =>
             \E k \in MQ : j \in Refs(queue[k].items)
      BY <1>7 DEF IInv, ItemInv
    <3> QED
      BY <1>1, <2>2, <2>3, <3>1
  <2> QED
    BY <2>4, <2>5, <2>6 DEF ItemInv
<1>11. FateInv'
  <2>1. frees[i] = 0
    BY DEF IInv, FateInv
  <2> QED
    BY <1>7, <2>1 DEF IInv, FateInv
<1> QED
  BY <1>5, <1>8, <1>9, <1>10, <1>11 DEF IInv

LEMMA TakeStep ==
  ASSUME IInv, NEW m \in Live, NEW key \in AnyKey, NEW s \in {"taken", "dropped"},
         FirstMatching(queue[m], key) # 0,
         LET n == FirstMatching(queue[m], key)
             i == queue[m].items[n].ref
         IN  /\ queue' = [queue EXCEPT ![m] = DropItem(@, n)]
             /\ frees' = [frees EXCEPT ![i] = @ + 1]
             /\ fate' = [fate EXCEPT ![i] = Outcome(s, {})],
         reply'.id \subseteq Ids,
         UNCHANGED << mqs, id, wants, want, conn, process >>
  PROVE  IInv'
<1> DEFINE n == FirstMatching(queue[m], key)
           i == queue[m].items[n].ref
           new == DropItem(queue[m], n)
<1>1. /\ m \in MQ /\ frees \in [Item -> 0..2]
      /\ queue \in [MQ -> QueueType(Item, Want)]
      /\ Sound(queue[m], Item, Want)
  BY DEF IInv, TypeOK, ManagerInv
<1>2. /\ i \in Refs(queue[m].items)
      /\ Sound(new, Item, Want)
      /\ Refs(new.items) = Refs(queue[m].items) \ {i}
      /\ Refs(new.callbacks) = Refs(queue[m].callbacks)
  BY <1>1, DropItemSound
<1>3. /\ queue' = [queue EXCEPT ![m] = new]
      /\ frees' = [frees EXCEPT ![i] = frees[i] + 1]
      /\ fate' = [fate EXCEPT ![i] = Outcome(s, {})]
  BY <1>1
<1> HIDE DEF n, i, new
<1>4. /\ Live' = Live /\ ManagerInv'
      /\ queue' \in [MQ -> QueueType(Item, Want)]
      /\ queue'[m] = new
      /\ \A k \in MQ : k # m => queue'[k] = queue[k]
  BY <1>2, <1>3, QueueStep
<1>5. i \in Item /\ fate[i].state = "pending" /\ frees[i] = 0
  BY <1>1, <1>2, SoundLists DEF IInv, ItemInv, FateInv
<1>6. \A k \in MQ : /\ Refs(queue'[k].items) = Refs(queue[k].items) \ {i}
                    /\ Refs(queue'[k].callbacks) = Refs(queue[k].callbacks) \ {}
  <2>1. \A k \in MQ : k # m => i \notin Refs(queue[k].items)
    BY <1>1, <1>2 DEF IInv, ItemInv
  <2> QED
    BY <1>1, <1>2, <1>4, <2>1
<1>7. frees' = [frees EXCEPT ![i] = 1]
  <2>1. frees[i] + 1 = 1
    BY <1>5
  <2> QED
    BY <1>3, <2>1
<1>8. /\ fate' \in [Item -> Fate] /\ frees' \in [Item -> 0..2]
      /\ ItemInv' /\ FateInv'
  <2>1. /\ DOMAIN want \cup {} \subseteq DOMAIN want' /\ wants' = wants \ {}
        /\ \A j \in Item : fate[j].to \cap {} = {}
        /\ 1 \in 0..2 /\ {} \in SUBSET Want
        /\ \A k \in MQ : Refs(queue'[k].items) = Refs(queue[k].items) \ {i}
        /\ fate[i].state \in {"new", "pending"}
    BY <1>5, <1>6
  <2>2. s \in {"taken", "sent", "dropped"}
    OBVIOUS
  <2> QED
    BY <1>3, <1>5, <1>7, <2>1, <2>2, ItemLeaves
<1>9. TypeOK'
  BY <1>4, <1>8 DEF IInv, TypeOK
<1>10. WantInv'
  BY <1>4, <1>6, WantsLeave
<1> QED
  BY <1>4, <1>8, <1>9, <1>10 DEF IInv
LEMMA DeliveryStep ==
  ASSUME IInv, NEW w \in Want, NEW fields \in Fields, NEW i \in Item,
         Delivery(w, fields, i), fate[i].state \in {"new", "pending"},
         \A j \in Item : w \notin fate[j].to,
         \A k \in MQ : /\ Refs(queue'[k].items) = Refs(queue[k].items) \ {i}
                       /\ Refs(queue'[k].callbacks) = Refs(queue[k].callbacks) \ {w},
         ManagerInv', Live' = Live, id' = id,
         queue' \in [MQ -> QueueType(Item, Want)], reply'.id \subseteq Ids
  PROVE  IInv'
<1>1. /\ wants' = wants \ {w} /\ frees' = [frees EXCEPT ![i] = 2]
      /\ process' \in {"running", "aborted"}
      /\ DOMAIN want' = DOMAIN want \cup {w}
      /\ \A v \in DOMAIN want' : want'[v] \in Fields
      /\ conn' \in [Conn -> ConnState]
      /\ \A v \in DOMAIN want : v # w => want'[v].queue = want[v].queue
  BY DEF Delivery
<1>2. PICK s \in {"sent", "dropped"} : fate' = [fate EXCEPT ![i] = Outcome(s, {w})]
  BY DEF Delivery
<1>3. /\ fate' \in [Item -> Fate] /\ frees' \in [Item -> 0..2]
      /\ ItemInv' /\ FateInv'
  <2>1. /\ {w} \in SUBSET Want /\ 2 \in 0..2
        /\ s \in {"taken", "sent", "dropped"}
        /\ DOMAIN want \cup {w} \subseteq DOMAIN want'
        /\ \A j \in Item : fate[j].to \cap {w} = {}
    BY <1>1
  <2> QED
    BY <1>1, <1>2, <2>1, ItemLeaves
<1>4. WantInv'
  <2>1. \A v \in wants' : want'[v].queue = want[v].queue
    BY <1>1 DEF IInv, TypeOK
  <2> QED
    BY <1>1, <2>1, WantsLeave
<1>5. TypeOK'
  BY <1>1, <1>3 DEF IInv, TypeOK, Fields
<1> QED
  BY <1>3, <1>4, <1>5 DEF IInv

LEMMA PutDeliveredStep ==
  ASSUME IInv, NEW i \in Item, NEW m \in Live, NEW key \in AnyKey,
         fate[i].state = "new", FirstAccepting(queue[m], key) # 0,
         NEW w, w = queue[m].callbacks[FirstAccepting(queue[m], key)].ref,
         queue' = [queue EXCEPT ![m] = DropCallback(@, FirstAccepting(queue[m], key))],
         Callback(w, want[w], i), reply'.id \subseteq Ids, UNCHANGED << mqs, id >>
  PROVE  /\ IInv' /\ Live' = Live
         /\ w \in wants /\ want[w].queue = m /\ want[w] \in Fields
         /\ Delivery(w, want[w], i)
<1> DEFINE n == FirstAccepting(queue[m], key)
           new == DropCallback(queue[m], n)
<1>1. /\ m \in MQ /\ queue \in [MQ -> QueueType(Item, Want)]
      /\ Sound(queue[m], Item, Want) /\ TypeOK
  BY DEF IInv, TypeOK, ManagerInv
<1>2. /\ w \in Refs(queue[m].callbacks)
      /\ Sound(new, Item, Want)
      /\ Refs(new.items) = Refs(queue[m].items)
      /\ Refs(new.callbacks) = Refs(queue[m].callbacks) \ {w}
  BY <1>1, DropCallbackSound
<1>3. queue' = [queue EXCEPT ![m] = new]
  BY <1>1
<1> HIDE DEF n, new
<1>4. /\ Live' = Live /\ ManagerInv'
      /\ queue' \in [MQ -> QueueType(Item, Want)]
      /\ queue'[m] = new
      /\ \A k \in MQ : k # m => queue'[k] = queue[k]
  BY <1>2, <1>3, QueueStep
<1>5. w \in Want /\ w \in wants /\ want[w].queue = m /\ want[w] \in Fields
  <2>1. w \in wants /\ want[w].queue = m
    BY <1>1, <1>2 DEF IInv, WantInv
  <2>2. w \in DOMAIN want /\ w \in Want
    BY <1>1, <2>1 DEF TypeOK
  <2>3. want[w] \in Fields
    BY <1>1, <2>2 DEF TypeOK, Fields
  <2> QED
    BY <2>1, <2>2, <2>3
<1>6. Delivery(w, want[w], i)
  BY <1>1, <1>5, CallbackEffect
<1>7. \A k \in MQ : /\ i \notin Refs(queue[k].items)
                    /\ k # m => w \notin Refs(queue[k].callbacks)
  BY <1>5 DEF IInv, ItemInv, WantInv
<1>8. \A k \in MQ : /\ Refs(queue'[k].items) = Refs(queue[k].items) \ {i}
                    /\ Refs(queue'[k].callbacks) = Refs(queue[k].callbacks) \ {w}
  BY <1>2, <1>4, <1>7
<1>9. \A j \in Item : w \notin fate[j].to
  BY <1>5 DEF IInv, FateInv
<1>10. fate[i].state \in {"new", "pending"} /\ id' = id
  OBVIOUS
<1>11. IInv'
  BY <1>4, <1>5, <1>6, <1>8, <1>9, <1>10, DeliveryStep
<1> QED
  BY <1>4, <1>5, <1>6, <1>11

LEMMA WaitServedStep ==
  ASSUME IInv, NEW c \in Conn, NEW m \in Live, NEW key \in AnyKey,
         NEW w \in Want, w \notin DOMAIN want, FirstMatching(queue[m], key) # 0,
         NEW i, i = queue[m].items[FirstMatching(queue[m], key)].ref,
         queue' = [queue EXCEPT ![m] = DropItem(@, FirstMatching(queue[m], key))],
         Callback(w, Wanted(c, m), i), UNCHANGED << mqs, id, reply >>
  PROVE  /\ IInv' /\ Live' = Live
         /\ Delivery(w, Wanted(c, m), i)
         /\ i \in Item /\ fate[i].state = "pending"
<1> DEFINE n == FirstMatching(queue[m], key)
           new == DropItem(queue[m], n)
<1>1. /\ m \in MQ /\ queue \in [MQ -> QueueType(Item, Want)]
      /\ Sound(queue[m], Item, Want) /\ TypeOK /\ m \in DOMAIN id
  BY DEF IInv, TypeOK, ManagerInv
<1>2. /\ i \in Refs(queue[m].items)
      /\ Sound(new, Item, Want)
      /\ Refs(new.items) = Refs(queue[m].items) \ {i}
      /\ Refs(new.callbacks) = Refs(queue[m].callbacks)
  BY <1>1, DropItemSound
<1>3. queue' = [queue EXCEPT ![m] = new]
  BY <1>1
<1> HIDE DEF n, new
<1>4. /\ Live' = Live /\ ManagerInv'
      /\ queue' \in [MQ -> QueueType(Item, Want)]
      /\ queue'[m] = new
      /\ \A k \in MQ : k # m => queue'[k] = queue[k]
  BY <1>2, <1>3, QueueStep
<1>5. i \in Item /\ fate[i].state = "pending"
  BY <1>1, <1>2, SoundLists DEF IInv, ItemInv
<1>6. Wanted(c, m) \in Fields
  BY <1>1 DEF Wanted, Fields
<1>7. Delivery(w, Wanted(c, m), i)
  BY <1>1, <1>5, <1>6, CallbackEffect
<1>8. \A k \in MQ : /\ w \notin Refs(queue[k].callbacks)
                    /\ k # m => i \notin Refs(queue[k].items)
  <2>1. \A k \in MQ : w \notin Refs(queue[k].callbacks)
    BY DEF IInv, TypeOK, WantInv
  <2>2. \A k \in MQ : k # m => i \notin Refs(queue[k].items)
    BY <1>1, <1>2 DEF IInv, ItemInv
  <2> QED
    BY <2>1, <2>2
<1>9. \A k \in MQ : /\ Refs(queue'[k].items) = Refs(queue[k].items) \ {i}
                    /\ Refs(queue'[k].callbacks) = Refs(queue[k].callbacks) \ {w}
  BY <1>2, <1>4, <1>8
<1>10. \A j \in Item : w \notin fate[j].to
  BY DEF IInv, FateInv
<1>11. reply'.id \subseteq Ids /\ fate[i].state \in {"new", "pending"} /\ id' = id
  BY <1>5 DEF IInv, TypeOK
<1>12. IInv'
  BY <1>4, <1>5, <1>6, <1>7, <1>9, <1>10, <1>11, DeliveryStep
<1> QED
  BY <1>4, <1>5, <1>7, <1>12

LEMMA WaitQueuedStep ==
  ASSUME IInv, NEW c \in Conn, NEW m \in Live, NEW key \in AnyKey,
         NEW w \in Want, w \notin DOMAIN want, FirstMatching(queue[m], key) = 0,
         queue' = [queue EXCEPT ![m] = AddCallback(@, w, key)],
         wants' = wants \cup {w}, want' = Updated(want, w, Wanted(c, m)),
         UNCHANGED << mqs, id, conn, fate, frees, process, reply >>
  PROVE  /\ IInv' /\ Live' = Live
         /\ DOMAIN want' = DOMAIN want \cup {w} /\ want'[w] = Wanted(c, m)
         /\ \A v \in DOMAIN want : v # w /\ want'[v] = want[v]
<1> DEFINE new == AddCallback(queue[m], w, key)
<1>1. /\ m \in MQ /\ queue \in [MQ -> QueueType(Item, Want)]
      /\ Sound(queue[m], Item, Want) /\ TypeOK /\ m \in DOMAIN id
  BY DEF IInv, TypeOK, ManagerInv
<1>2. \A k \in MQ : w \notin Refs(queue[k].callbacks)
  BY DEF IInv, TypeOK, WantInv
<1>3. /\ Sound(new, Item, Want)
      /\ Refs(new.items) = Refs(queue[m].items)
      /\ Refs(new.callbacks) = Refs(queue[m].callbacks) \cup {w}
  <2>1. w \notin Refs(queue[m].callbacks)
    BY <1>1, <1>2
  <2> QED
    BY <1>1, <2>1, AddCallbackSound
<1>4. queue' = [queue EXCEPT ![m] = new]
  BY <1>1
<1> HIDE DEF new
<1>5. /\ Live' = Live /\ ManagerInv'
      /\ queue' \in [MQ -> QueueType(Item, Want)]
      /\ queue'[m] = new
      /\ \A k \in MQ : k # m => queue'[k] = queue[k]
  BY <1>3, <1>4, QueueStep
<1>6. /\ DOMAIN want' = DOMAIN want \cup {w} /\ want'[w] = Wanted(c, m)
      /\ \A v \in DOMAIN want : v # w /\ want'[v] = want[v]
  BY DEF Updated
<1>7. /\ Wanted(c, m) \in [queue : DOMAIN id, client : Conn, cancelled : BOOLEAN]
      /\ Wanted(c, m).queue = m
  BY <1>1 DEF Wanted
<1>8. TypeOK'
  BY <1>5, <1>6, <1>7 DEF IInv, TypeOK
<1>9. WantInv'
  <2>1. ASSUME NEW k \in MQ, NEW v \in Refs(queue'[k].callbacks)
        PROVE  v \in wants' /\ want'[v].queue = k
    <3>1. (k = m /\ v = w) \/ v \in Refs(queue[k].callbacks)
      BY <1>3, <1>5
    <3>2. v \in Refs(queue[k].callbacks) => v \in wants /\ v \in DOMAIN want /\ want[v].queue = k
      BY DEF IInv, WantInv, TypeOK
    <3> QED
      BY <1>6, <1>7, <3>1, <3>2
  <2>2. ASSUME NEW v \in wants', want'[v].queue \in Live'
        PROVE  v \in Refs(queue'[want'[v].queue].callbacks)
    <3>1. CASE v = w
      BY <1>3, <1>5, <1>6, <1>7, <3>1
    <3>2. CASE v # w
      <4>1. v \in wants /\ v \in DOMAIN want /\ want'[v] = want[v] /\ want[v].queue \in MQ
        BY <1>6, <3>2 DEF IInv, TypeOK
      <4>2. v \in Refs(queue[want[v].queue].callbacks)
        BY <1>5, <2>2, <4>1 DEF IInv, WantInv
      <4> QED
        BY <1>3, <1>5, <4>1, <4>2
    <3> QED
      BY <3>1, <3>2
  <2> QED
    BY <2>1, <2>2 DEF WantInv
<1>10. ItemInv'
  <2>1. \A k \in MQ : Refs(queue'[k].items) = Refs(queue[k].items)
    BY <1>3, <1>5
  <2> QED
    BY <2>1 DEF IInv, ItemInv
<1>11. FateInv'
  BY <1>6 DEF IInv, FateInv
<1> QED
  BY <1>5, <1>6, <1>8, <1>9, <1>10, <1>11 DEF IInv

(* A connection opens, closes or ends: its wants are marked, or not.       *)
LEMMA ConnectionStep ==
  ASSUME IInv, NEW c \in Conn, NEW s \in ConnState, Becomes(c, s), ConnStep,
         want' = want \/ want' = Marked(WantsOf(c))
  PROVE  /\ IInv' /\ Live' = Live /\ DOMAIN want' = DOMAIN want
         /\ \A w \in DOMAIN want : /\ want'[w].queue = want[w].queue
                                   /\ want'[w].client = want[w].client
                                   /\ want[w].cancelled => want'[w].cancelled
                                   /\ want[w].client # c =>
                                        (want'[w].cancelled <=> want[w].cancelled)
<1>1. /\ DOMAIN want' = DOMAIN want
      /\ \A w \in DOMAIN want :
           /\ want'[w] \in Fields
           /\ want'[w].queue = want[w].queue /\ want'[w].client = want[w].client
           /\ want[w].cancelled => want'[w].cancelled
           /\ want[w].client # c => (want'[w].cancelled <=> want[w].cancelled)
  BY MarkedProperties DEF IInv, TypeOK, Fields, WantsOf
<1>2. /\ mqs' = mqs /\ id' = id /\ queue' = queue
      /\ UNCHANGED << wants, fate, frees, process, reply >>
  BY DEF ConnStep, managerVars
<1>3. Live' = Live
  BY <1>2 DEF Live
<1>4. conn' \in [Conn -> ConnState]
  BY DEF IInv, TypeOK, Becomes
<1>5. TypeOK' /\ ManagerInv'
  BY <1>1, <1>2, <1>3, <1>4 DEF IInv, TypeOK, ManagerInv, Fields, Fate
<1>6. WantInv'
  <2>1. wants' = wants \ {} /\ \A v \in wants' : want'[v].queue = want[v].queue
    BY <1>1, <1>2 DEF IInv, TypeOK
  <2>2. \A m \in MQ : Refs(queue'[m].callbacks) = Refs(queue[m].callbacks) \ {}
    BY <1>2
  <2> QED
    BY <1>3, <2>1, <2>2, WantsLeave
<1>7. ItemInv' /\ FateInv'
  BY <1>1, <1>2 DEF IInv, ItemInv, FateInv
<1> QED
  BY <1>1, <1>3, <1>5, <1>6, <1>7 DEF IInv
LEMMA IInvNext == IInv /\ [Next]_vars => IInv'
<1> SUFFICES ASSUME IInv, [Next]_vars PROVE IInv'
  OBVIOUS
<1>1. mqs \in Seq(MQ)
  BY DEF IInv, ManagerInv
<1>2. \A name : Lookup(name) \subseteq Live
  BY <1>1, LookupProperties
<1>3. \A op, code : Replied(op, code) => reply'.id \subseteq Ids
  BY DEF Replied
<1>4. CASE NewUnnamed
  <2>1. PICK m \in MQ \ DOMAIN id, r \in RandomId : Create(m, r)
    BY <1>4 DEF NewUnnamed
  <2> QED
    BY <2>1, CreateStep DEF Ids
<1>5. ASSUME NEW name \in Name, NewNamed(name)
      PROVE  IInv'
  <2>1. PICK m \in MQ \ DOMAIN id : Create(m, StoredAs[name])
    BY <1>5 DEF NewNamed
  <2>2. StoredAs[name] \in Ids
    BY ServerAssumption DEF ServerAssumption, Ids
  <2> QED
    BY <2>1, <2>2, CreateStep
<1>6. ASSUME NEW name \in Ids,
             Info(name) \/ NewExisting(name) \/ DeleteUnknown(name)
               \/ \E key \in AnyKey : Peek(name, key) \/ NotFound(name, key)
      PROVE  IInv'
  <2>1. UNCHANGED << managerVars, wants, want, conn, fate, frees, process >>
    BY <1>6 DEF Info, NewExisting, DeleteUnknown, Peek, NotFound
  <2>2. reply'.id \subseteq Ids
    BY <1>3, <1>6 DEF Info, NewExisting, DeleteUnknown, Peek, NotFound
  <2> QED
    BY <2>1, <2>2, ReplyStep
<1>7. ASSUME NEW name \in Ids, NewFails(name) \/ Delete(name)
      PROVE  IInv'
  <2>1. PICK m \in Lookup(name) :
           FreeQueue(m) /\ (want' = want \/ want' = Marked(WantsFor(m)))
    BY <1>7 DEF NewFails, Delete
  <2>2. reply'.id \subseteq Ids
    BY <1>3, <1>7 DEF NewFails, Delete
  <2> QED
    BY <1>2, <2>1, <2>2, FreeStep
<1>8. ASSUME NEW name \in Ids, NEW key \in AnyKey, PutDelivered(name, key)
      PROVE  IInv'
  <2>1. PICK i \in Item, m \in Lookup(name) :
           LET n == FirstAccepting(queue[m], key)
               w == queue[m].callbacks[n].ref
           IN  /\ fate[i].state = "new"
               /\ n # 0
               /\ queue' = [queue EXCEPT ![m] = DropCallback(@, n)]
               /\ Callback(w, want[w], i)
    BY <1>8 DEF PutDelivered
  <2>2. reply'.id \subseteq Ids /\ UNCHANGED << mqs, id >>
    BY <1>3, <1>8 DEF PutDelivered
  <2> QED
    BY <1>2, <2>1, <2>2, PutDeliveredStep
<1>9. ASSUME NEW name \in Ids, NEW key \in AnyKey, PutStored(name, key)
      PROVE  IInv'
  <2>1. PICK i \in Item, m \in Lookup(name) :
           /\ fate[i].state = "new"
           /\ FirstAccepting(queue[m], key) = 0
           /\ queue' = [queue EXCEPT ![m] = AddItem(@, i, key)]
           /\ fate' = [fate EXCEPT ![i] = Outcome("pending", {})]
    BY <1>9 DEF PutStored
  <2>2. reply'.id \subseteq Ids /\ UNCHANGED << mqs, id, wants, want, conn, frees, process >>
    BY <1>3, <1>9 DEF PutStored
  <2> QED
    BY <1>2, <2>1, <2>2, PutStoredStep
<1>10. ASSUME NEW name \in Ids, NEW key \in AnyKey, Take(name, key)
       PROVE  IInv'
  <2>1. PICK m \in Lookup(name), s \in {"taken", "dropped"} :
           LET n == FirstMatching(queue[m], key)
               i == queue[m].items[n].ref
           IN  /\ n # 0
               /\ queue' = [queue EXCEPT ![m] = DropItem(@, n)]
               /\ frees' = [frees EXCEPT ![i] = @ + 1]
               /\ fate' = [fate EXCEPT ![i] = Outcome(s, {})]
    BY <1>10 DEF Take
  <2>2. reply'.id \subseteq Ids /\ UNCHANGED << mqs, id, wants, want, conn, process >>
    BY <1>3, <1>10 DEF Take
  <2> QED
    BY <1>2, <2>1, <2>2, TakeStep
<1>11. ASSUME NEW c \in Conn, NEW name \in Ids, NEW key \in AnyKey, WaitServed(c, name, key)
       PROVE  IInv'
  <2>1. PICK w \in Want \ DOMAIN want, m \in Lookup(name) :
           LET n == FirstMatching(queue[m], key)
           IN  /\ n # 0
               /\ queue' = [queue EXCEPT ![m] = DropItem(@, n)]
               /\ Callback(w, Wanted(c, m), queue[m].items[n].ref)
    BY <1>11 DEF WaitServed
  <2>2. UNCHANGED << mqs, id, reply >>
    BY <1>11 DEF WaitServed
  <2> QED
    BY <1>2, <2>1, <2>2, WaitServedStep
<1>12. ASSUME NEW c \in Conn, NEW name \in Ids, NEW key \in AnyKey, WaitQueued(c, name, key)
       PROVE  IInv'
  <2>1. PICK w \in Want \ DOMAIN want, m \in Lookup(name) :
           /\ FirstMatching(queue[m], key) = 0
           /\ queue' = [queue EXCEPT ![m] = AddCallback(@, w, key)]
           /\ wants' = wants \cup {w}
           /\ want' = Updated(want, w, Wanted(c, m))
    BY <1>12 DEF WaitQueued
  <2>2. UNCHANGED << mqs, id, conn, fate, frees, process, reply >>
    BY <1>12 DEF WaitQueued
  <2> QED
    BY <1>2, <2>1, <2>2, WaitQueuedStep
<1>13. ASSUME NEW c \in Conn,
              Open(c) \/ CloseFrame(c) \/ Drained(c) \/ ReadOrSendFails(c)
                \/ Eof(c) \/ ConnError(c)
       PROVE  IInv'
  <2>1. ConnStep /\ (want' = want \/ want' = Marked(WantsOf(c)))
    BY <1>13 DEF Open, CloseFrame, Drained, ReadOrSendFails, Eof, ConnError
  <2>2. \E s \in ConnState : Becomes(c, s)
    BY <1>13 DEF Open, CloseFrame, Drained, ReadOrSendFails, Eof, ConnError, ConnState
  <2> QED
    BY <2>1, <2>2, ConnectionStep
<1>14. CASE UNCHANGED vars
  <2>1. reply'.id \subseteq Ids
    BY <1>14 DEF vars, IInv, TypeOK
  <2> QED
    BY <1>14, <2>1, ReplyStep DEF vars, managerVars
<1> QED
  BY <1>4, <1>5, <1>6, <1>7, <1>8, <1>9, <1>10, <1>11, <1>12, <1>13, <1>14
     DEF Next, Http, WebSocket

-----------------------------------------------------------------------------
(***************************************************************************)
(* What follows, whatever fails.                                           *)
(***************************************************************************)
(* Every variable of the server has its type in every reachable state.     *)
THEOREM ServerTypeCorrect == Spec => []TypeOK
<1>1. IInv => TypeOK
  BY DEF IInv
<1> QED
  BY IInvInit, IInvNext, <1>1, PTL DEF Spec

(* In every queue of the server the counters are exact and no item lies    *)
(* while a want for it waits, cancelled or not.                            *)
THEOREM QueuesStayConsistent == Spec => []QueuesConsistent
<1>1. IInv => QueuesConsistent
  BY DEF IInv, TypeOK, ManagerInv, Sound, QueuesConsistent
<1> QED
  BY IInvInit, IInvNext, <1>1, PTL DEF Spec

(* A list with distinct entries is as long as the set of what it refers to *)
(* is large.                                                               *)
LEMMA DistinctLength ==
  ASSUME NEW R, NEW list \in ListOf(R), Distinct(list)
  PROVE  Len(list) = Cardinality(Refs(list))
<1> DEFINE f == [n \in 1..Len(list) |-> list[n].ref]
<1>1. Len(list) \in Nat /\ DOMAIN list = 1..Len(list)
  BY LenProperties DEF ListOf
<1>2. f \in Bijection(1..Len(list), Refs(list))
  BY <1>1 DEF Bijection, Injection, IsInjective, Surjection, Refs, Distinct
<1>3. IsFiniteSet(1..Len(list)) /\ Cardinality(1..Len(list)) = Len(list)
  <2> DEFINE L == Len(list)
  <2>1. L \in Nat
    BY <1>1
  <2> HIDE DEF L
  <2>2. IsFiniteSet(1..L) /\ Cardinality(1..L) = IF 1 > L THEN 0 ELSE L - 1 + 1
    BY <2>1, FS_Interval
  <2> QED
    BY <2>1, <2>2 DEF L
<1> QED
  BY <1>2, <1>3, FS_Bijection DEF ExistsBijection

(* The wants of a live queue are exactly the callbacks in it, one for one: *)
(* no callback holds a pointer to a want that was freed.                   *)
THEOREM CallbacksHaveTheirWants == Spec => []CallbacksAreWants
<1>1. IInv => CallbacksAreWants
  <2> SUFFICES ASSUME IInv, NEW m \in Live
               PROVE  LET list == queue[m].callbacks
                      IN  /\ { list[n].ref : n \in DOMAIN list } = WantsFor(m)
                          /\ Len(list) = Cardinality(WantsFor(m))
    BY DEF CallbacksAreWants
  <2> DEFINE list == queue[m].callbacks
  <2>1. m \in MQ /\ Sound(queue[m], Item, Want)
    BY DEF IInv, TypeOK, ManagerInv
  <2>2. Refs(list) = WantsFor(m)
    BY <2>1 DEF IInv, WantInv, WantsFor
  <2>3. Len(list) = Cardinality(Refs(list))
    BY <2>1, SoundLists, DistinctLength DEF Sound
  <2> QED
    BY <2>2, <2>3 DEF Refs
<1> QED
  BY IInvInit, IInvNext, <1>1, PTL DEF Spec

(* A pending item is in one queue of the manager, and there once; any      *)
(* other is in none.                                                       *)
THEOREM ItemsInOnePlace == Spec => []ItemInOnePlace
<1>1. IInv => ItemInOnePlace
  <2> SUFFICES ASSUME IInv, NEW i \in Item
               PROVE  LET at(m) == { n \in DOMAIN queue[m].items : queue[m].items[n].ref = i }
                          places == UNION { {m} \X at(m) : m \in Live }
                      IN  Cardinality(places) = IF fate[i].state = "pending" THEN 1 ELSE 0
    BY DEF ItemInOnePlace
  <2> DEFINE at(m) == { n \in DOMAIN queue[m].items : queue[m].items[n].ref = i }
             places == UNION { {m} \X at(m) : m \in Live }
  <2>1. \A m \in Live : m \in MQ /\ (at(m) # {} => i \in Refs(queue[m].items))
    BY DEF IInv, TypeOK, Refs
  <2>2. CASE fate[i].state # "pending"
    <3>1. \A m \in Live : at(m) = {}
      BY <2>1, <2>2 DEF IInv, ItemInv
    <3> HIDE DEF at
    <3>2. places = {}
      BY <3>1
    <3> QED
      BY <2>2, <3>2, FS_EmptySet DEF at
  <2>3. CASE fate[i].state = "pending"
    <3>1. PICK m \in MQ : i \in Refs(queue[m].items)
      BY <2>3 DEF IInv, ItemInv
    <3>2. m \in Live
      BY <3>1, NewQueueSound DEF IInv, ManagerInv
    <3>3. \A k \in Live : k # m => at(k) = {}
      BY <2>1, <3>1 DEF IInv, ItemInv
    <3>4. PICK n \in DOMAIN queue[m].items : queue[m].items[n].ref = i
      BY <3>1 DEF Refs
    <3>5. at(m) = {n}
      BY <3>2, <3>4 DEF IInv, TypeOK, ManagerInv, Sound, Distinct
    <3> HIDE DEF at
    <3>6. places = { << m, n >> }
      BY <3>2, <3>3, <3>5
    <3>7. Cardinality(places) = 1
      BY <3>6, FS_Singleton
    <3> QED
      BY <2>3, <3>7 DEF at
  <2> QED
    BY <2>2, <2>3
<1> QED
  BY IInvInit, IInvNext, <1>1, PTL DEF Spec

(* No request is answered with two items, and one that was answered does   *)
(* not wait any more.                                                      *)
THEOREM WantsGetOneItem == Spec => []OneItemPerWant
<1>1. IInv => OneItemPerWant
  <2> SUFFICES ASSUME IInv, NEW w \in DOMAIN want
               PROVE  LET answers == { i \in Item : w \in fate[i].to }
                      IN  Cardinality(answers) <= 1 /\ (answers # {} => ~ Waits(w))
    BY DEF OneItemPerWant
  <2> DEFINE answers == { i \in Item : w \in fate[i].to }
  <2>1. CASE answers = {}
    <3>1. Cardinality(answers) = 0
      BY <2>1, FS_EmptySet
    <3> QED
      BY <2>1, <3>1
  <2>2. CASE answers # {}
    <3>1. PICK i \in Item : w \in fate[i].to
      BY <2>2
    <3>2. answers = {i}
      BY <3>1 DEF IInv, FateInv
    <3>3. Cardinality(answers) = 1
      BY <3>2, FS_Singleton
    <3>4. w \notin wants
      BY <3>1 DEF IInv, FateInv
    <3>5. ~ Waits(w)
      BY <3>4 DEF Waits, IInv, WantInv, TypeOK, Refs
    <3> QED
      BY <3>3, <3>5
  <2> QED
    BY <2>1, <2>2
<1> QED
  BY IInvInit, IInvNext, <1>1, PTL DEF Spec
-----------------------------------------------------------------------------
(***************************************************************************)
(* What holds while nothing fails inside a handler.                        *)
(***************************************************************************)
LEMMA ClientInvInit == Init => ClientInv
  BY DEF Init, ClientInv, Outcome

(* Steps that leave the connections and the record of the items alone.     *)
LEMMA ClientInvKept ==
  ASSUME IInv, ClientInv, UNCHANGED << wants, want, conn, fate >>,
         \A w \in wants : want[w].queue \in Live' <=> want[w].queue \in Live
  PROVE  ClientInv'
  BY DEF ClientInv

LEMMA ClientInvFree ==
  ASSUME IInv, ClientInv, NEW m \in Live, want' = Marked(WantsFor(m)),
         Live' = Live \ {m}, wants' = wants, conn' = conn,
         \A i \in Item : fate'[i] = fate[i] \/
            (fate[i].state = "pending" /\ fate'[i] = Outcome("destroyed", {}))
  PROVE  ClientInv'
<1>1. /\ DOMAIN want' = DOMAIN want /\ wants \subseteq DOMAIN want
      /\ \A w \in DOMAIN want :
           /\ want'[w].queue = want[w].queue
           /\ want'[w].client = want[w].client
           /\ want'[w].cancelled <=> want[w].cancelled \/ (w \in wants /\ want[w].queue = m)
  BY MarkedProperties DEF IInv, TypeOK, WantsFor
<1>2. \A i \in Item : \A w \in fate[i].to : w \in DOMAIN want
  BY DEF IInv, FateInv
<1>3. \A i \in Item : fate[i].state \in {"sent", "dropped"} => fate'[i] = fate[i]
  OBVIOUS
<1>4. \A i \in Item : fate'[i].state = "dropped" => fate'[i] = fate[i]
  BY DEF Outcome
<1>6. \A w \in wants :
         want'[w].cancelled /\ want'[w].queue \in Live' => conn[want'[w].client] # "active"
  BY <1>1 DEF ClientInv
<1>7. \A i \in Item : fate'[i].state = "dropped" =>
         \E w \in fate'[i].to : conn[want'[w].client] # "active"
  BY <1>1, <1>2, <1>4 DEF ClientInv
<1>8. \A w \in DOMAIN want' : w \in wants \/
         \E i \in Item : fate'[i].to = {w} /\ fate'[i].state \in {"sent", "dropped"}
  <2> SUFFICES ASSUME NEW w \in DOMAIN want, w \notin wants
               PROVE  \E i \in Item : fate'[i].to = {w} /\ fate'[i].state \in {"sent", "dropped"}
    BY <1>1
  <2>1. PICK i \in Item : fate[i].to = {w} /\ fate[i].state \in {"sent", "dropped"}
    BY DEF ClientInv
  <2> QED
    BY <1>3, <2>1
<1>9. \A w \in wants : ~ want'[w].cancelled => conn[want'[w].client] \in {"active", "closing"}
  BY <1>1 DEF ClientInv
<1>10. \A w \in DOMAIN want' : conn[want'[w].client] # "none"
  BY <1>1 DEF ClientInv
<1> QED
  BY <1>6, <1>7, <1>8, <1>9, <1>10 DEF ClientInv

LEMMA ClientInvDelivery ==
  ASSUME IInv, ClientInv, ~ Faults, NEW w \in Want, NEW fields \in Fields, NEW i \in Item,
         fate[i].state \in {"new", "pending"}, Delivery(w, fields, i), Live' = Live,
         \A j \in Item : w \notin fate[j].to, conn[fields.client] # "none",
         fields.cancelled => conn[fields.client] # "active"
  PROVE  ClientInv'
<1> DEFINE c == fields.client
<1>1. /\ wants' = wants \ {w}
      /\ DOMAIN want' = DOMAIN want \cup {w}
      /\ want'[w].client = c
      /\ \A v \in DOMAIN want : v # w =>
           want'[v].queue = want[v].queue /\ want'[v].client = want[v].client
      /\ ClientKept \/ ClientShut(c)
  BY DEF Delivery
<1>2. PICK s \in {"sent", "dropped"} :
         /\ fate' = [fate EXCEPT ![i] = Outcome(s, {w})]
         /\ s = "dropped" => conn[c] # "active"
  BY DEF Delivery
<1>3. /\ fate'[i].state = s /\ fate'[i].to = {w}
      /\ \A j \in Item : j # i => fate'[j] = fate[j]
  BY <1>2 DEF IInv, TypeOK, Outcome
<1>4. /\ wants \subseteq DOMAIN want /\ c \in Conn
      /\ conn \in [Conn -> ConnState]
      /\ \A v \in DOMAIN want : want[v].client \in Conn
      /\ \A j \in Item : \A v \in fate[j].to : v \in DOMAIN want
  BY DEF IInv, TypeOK, FateInv, Fields
<1>5. /\ \A d \in Conn : conn'[d] # "broken"
      /\ \A d \in Conn : conn[d] # "active" => conn'[d] # "active"
      /\ \A d \in Conn : conn[d] \in {"active", "closing"} =>
           conn'[d] \in {"active", "closing"} \/ (ClientShut(c) /\ d = c)
      /\ \A d \in Conn : conn[d] # "none" => conn'[d] # "none"
  BY <1>1, <1>4 DEF ClientInv, ClientKept, ClientShut
<1>6. ASSUME NEW v \in wants'
      PROVE  /\ v \in wants /\ v \in DOMAIN want /\ v # w
             /\ want'[v].queue = want[v].queue /\ want'[v].client = want[v].client
             /\ want[v].cancelled => want'[v].cancelled
             /\ want'[v].cancelled => want[v].cancelled \/ (ClientShut(c) /\ want[v].client = c)
             /\ ClientShut(c) /\ want[v].client = c => want'[v].cancelled
  BY <1>1, <1>4 DEF ClientKept, ClientShut
<1>7. \A v \in wants' : ~ want'[v].cancelled => conn'[want'[v].client] \in {"active", "closing"}
  BY <1>4, <1>5, <1>6 DEF ClientInv
<1>9. \A v \in wants' :
         want'[v].cancelled /\ want'[v].queue \in Live' => conn'[want'[v].client] # "active"
  <2>1. ClientShut(c) => conn'[c] # "active"
    BY <1>4 DEF ClientShut
  <2> QED
    BY <1>4, <1>5, <1>6, <2>1 DEF ClientInv
<1>10. ASSUME NEW j \in Item, fate'[j].state = "dropped"
       PROVE  \E v \in fate'[j].to : conn'[want'[v].client] # "active"
  <2>1. CASE j = i
    <3>1. s = "dropped" /\ fate'[j].to = {w}
      BY <1>3, <1>10, <2>1
    <3>2. conn[c] # "active" /\ want'[w].client = c
      BY <1>1, <1>2, <3>1
    <3>3. conn'[c] # "active"
      BY <1>4, <1>5, <3>2
    <3> QED
      BY <3>1, <3>2, <3>3
  <2>2. CASE j # i
    <3>1. PICK v \in fate[j].to : conn[want[v].client] # "active"
      BY <1>3, <1>10, <2>2 DEF ClientInv
    <3>2. v \in DOMAIN want /\ v # w
      BY <1>4, <3>1
    <3> QED
      BY <1>1, <1>3, <1>4, <1>5, <2>2, <3>1, <3>2
  <2> QED
    BY <2>1, <2>2
<1>11. ASSUME NEW v \in DOMAIN want', v \notin wants'
       PROVE  \E j \in Item : fate'[j].to = {v} /\ fate'[j].state \in {"sent", "dropped"}
  <2>1. CASE v = w
    BY <1>3, <2>1
  <2>2. CASE v # w
    <3>1. v \in DOMAIN want /\ v \notin wants
      BY <1>1, <1>11, <2>2
    <3>2. PICK j \in Item : fate[j].to = {v} /\ fate[j].state \in {"sent", "dropped"}
      BY <3>1 DEF ClientInv
    <3> QED
      BY <1>3, <3>2
  <2> QED
    BY <2>1, <2>2
<1>12. \A v \in DOMAIN want' : conn'[want'[v].client] # "none"
  BY <1>1, <1>4, <1>5 DEF ClientInv
<1> QED
  BY <1>5, <1>7, <1>9, <1>10, <1>11, <1>12 DEF ClientInv

LEMMA ClientInvQueued ==
  ASSUME IInv, ClientInv, NEW c \in Conn, conn[c] = "active", NEW m \in Live,
         NEW w \in Want, w \notin DOMAIN want,
         wants' = wants \cup {w}, DOMAIN want' = DOMAIN want \cup {w},
         want'[w] = Wanted(c, m), \A v \in DOMAIN want : v # w /\ want'[v] = want[v],
         Live' = Live, conn' = conn, fate' = fate
  PROVE  ClientInv'
<1>1. /\ want'[w].queue = m /\ want'[w].client = c /\ ~ want'[w].cancelled
      /\ wants \subseteq DOMAIN want
      /\ \A j \in Item : \A v \in fate[j].to : v \in DOMAIN want
  BY DEF Wanted, IInv, TypeOK, FateInv
<1>2. \A v \in wants' : v = w \/ (v \in wants /\ want'[v] = want[v])
  BY <1>1
<1>3. /\ \A v \in wants' :
           ~ want'[v].cancelled => conn'[want'[v].client] \in {"active", "closing"}
      /\ \A v \in wants' : want'[v].cancelled /\ want'[v].queue \in Live' =>
           conn'[want'[v].client] # "active"
  BY <1>1, <1>2 DEF ClientInv
<1>4. \A j \in Item : fate'[j].state = "dropped" =>
         \E v \in fate'[j].to : conn'[want'[v].client] # "active"
  BY <1>1 DEF ClientInv
<1>5. \A v \in DOMAIN want' : v \in wants' \/
         \E j \in Item : fate'[j].to = {v} /\ fate'[j].state \in {"sent", "dropped"}
  BY DEF ClientInv
<1>6. \A v \in DOMAIN want' : conn'[want'[v].client] # "none"
  BY <1>1 DEF ClientInv
<1> QED
  BY <1>3, <1>4, <1>5, <1>6 DEF ClientInv

(* A connection changes its state for one that is further on, and marks    *)
(* its wants unless they are marked or can still be sent to.               *)
LEMMA ClientInvConnection ==
  ASSUME IInv, ClientInv, NEW c \in Conn, NEW s \in ConnState, Becomes(c, s), ConnStep,
         want' = want \/ want' = Marked(WantsOf(c)),
         s \notin {"none", "broken"}, s = "active" => conn[c] = "none",
         s \in {"active", "closing"} => want' = want,
         s \notin {"active", "closing"} =>
            want' = Marked(WantsOf(c)) \/ conn[c] \notin {"active", "closing"}
  PROVE  ClientInv'
<1>1. /\ Live' = Live /\ DOMAIN want' = DOMAIN want
      /\ \A w \in DOMAIN want : /\ want'[w].queue = want[w].queue
                                /\ want'[w].client = want[w].client
                                /\ want[w].cancelled => want'[w].cancelled
                                /\ want[w].client # c =>
                                     (want'[w].cancelled <=> want[w].cancelled)
  BY ConnectionStep
<1>2. /\ wants' = wants /\ fate' = fate /\ wants \subseteq DOMAIN want
      /\ conn \in [Conn -> ConnState]
      /\ \A w \in DOMAIN want : want[w].client \in Conn
      /\ \A j \in Item : \A v \in fate[j].to : v \in DOMAIN want
  BY DEF ConnStep, IInv, TypeOK, FateInv
<1>3. conn'[c] = s /\ \A d \in Conn : d # c => conn'[d] = conn[d]
  BY <1>2 DEF Becomes
<1>4. \A w \in DOMAIN want : want[w].client = c => s # "active"
  BY DEF ClientInv
<1>5. ASSUME NEW w \in wants, ~ want'[w].cancelled
      PROVE  conn'[want'[w].client] \in {"active", "closing"}
  <2>1. ~ want[w].cancelled /\ conn[want[w].client] \in {"active", "closing"}
    BY <1>1, <1>2, <1>5 DEF ClientInv
  <2>2. CASE want[w].client = c
    <3>1. want' # Marked(WantsOf(c)) \/ s \in {"active", "closing"}
      BY <1>2, <1>5, <2>2, MarkedProperties DEF IInv, WantsOf
    <3> QED
      BY <1>1, <1>2, <1>3, <2>1, <2>2, <3>1
  <2>3. CASE want[w].client # c
    BY <1>1, <1>2, <1>3, <2>1, <2>3
  <2> QED
    BY <2>2, <2>3
<1>7. ASSUME NEW w \in wants, want'[w].cancelled, want'[w].queue \in Live'
      PROVE  conn'[want'[w].client] # "active"
  <2>1. CASE want[w].client = c
    BY <1>1, <1>2, <1>3, <1>4, <2>1
  <2>2. CASE want[w].client # c
    BY <1>1, <1>2, <1>3, <1>7, <2>2 DEF ClientInv
  <2> QED
    BY <2>1, <2>2
<1>8. \A j \in Item : fate'[j].state = "dropped" =>
         \E w \in fate'[j].to : conn'[want'[w].client] # "active"
  <2>1. \A w \in DOMAIN want : conn[want[w].client] # "active" =>
                                conn'[want'[w].client] # "active"
    BY <1>1, <1>2, <1>3, <1>4
  <2> QED
    BY <1>2, <2>1 DEF ClientInv
<1>9. \A w \in DOMAIN want' : w \in wants' \/
         \E j \in Item : fate'[j].to = {w} /\ fate'[j].state \in {"sent", "dropped"}
  BY <1>1, <1>2 DEF ClientInv
<1>10. \A d \in Conn : conn'[d] # "broken"
  BY <1>3 DEF ClientInv
<1>11. \A w \in DOMAIN want' : conn'[want'[w].client] # "none"
  BY <1>1, <1>2, <1>3 DEF ClientInv
<1> QED
  BY <1>2, <1>5, <1>7, <1>8, <1>9, <1>10, <1>11 DEF ClientInv
LEMMA ClientInvNext ==
  ASSUME ~ Faults
  PROVE  IInv /\ ClientInv /\ [Next]_vars => ClientInv'
<1> SUFFICES ASSUME IInv, ClientInv, [Next]_vars PROVE ClientInv'
  OBVIOUS
<1>1. mqs \in Seq(MQ) /\ TypeOK
  BY DEF IInv, ManagerInv
<1>2. \A name : Lookup(name) \subseteq Live
  BY <1>1, LookupProperties
<1>3. \A op, code : Replied(op, code) => reply'.id \subseteq Ids
  BY DEF Replied
<1>4. ASSUME NEW m \in MQ \ DOMAIN id, NEW newId \in Ids, Create(m, newId)
      PROVE  ClientInv'
  <2>1. Live' = Live \cup {m}
    BY <1>4, CreateStep
  <2>2. \A w \in wants : want[w].queue # m
    BY <1>1 DEF TypeOK
  <2>3. UNCHANGED << wants, want, conn, fate >>
    BY <1>4 DEF Create
  <2> QED
    BY <2>1, <2>2, <2>3, ClientInvKept
<1>5. CASE NewUnnamed
  BY <1>4, <1>5 DEF NewUnnamed, Ids
<1>6. ASSUME NEW name \in Name, NewNamed(name)
      PROVE  ClientInv'
  <2>1. StoredAs[name] \in Ids
    BY ServerAssumption DEF ServerAssumption, Ids
  <2> QED
    BY <1>4, <1>6, <2>1 DEF NewNamed
<1>7. ASSUME NEW name \in Ids,
             Info(name) \/ NewExisting(name) \/ DeleteUnknown(name)
               \/ \E key \in AnyKey : Peek(name, key) \/ NotFound(name, key)
      PROVE  ClientInv'
  <2>1. UNCHANGED << managerVars, wants, want, conn, fate >>
    BY <1>7 DEF Info, NewExisting, DeleteUnknown, Peek, NotFound
  <2>2. Live' = Live
    BY <2>1 DEF managerVars, Live
  <2> QED
    BY <2>1, <2>2, ClientInvKept
<1>8. ASSUME NEW name \in Ids, Delete(name)
      PROVE  ClientInv'
  <2>1. PICK m \in Lookup(name) : FreeQueue(m) /\ want' = Marked(WantsFor(m))
    BY <1>8 DEF Delete
  <2>2. reply'.id \subseteq Ids /\ m \in Live
    BY <1>2, <1>3, <1>8, <2>1 DEF Delete
  <2>3. /\ Live' = Live \ {m}
        /\ \A i \in Item : fate'[i] = fate[i] \/
             (fate[i].state = "pending" /\ fate'[i] = Outcome("destroyed", {}))
    BY <2>1, <2>2, FreeStep
  <2>4. wants' = wants /\ conn' = conn
    BY <2>1 DEF FreeQueue
  <2> QED
    BY <2>1, <2>2, <2>3, <2>4, ClientInvFree
<1>9. ASSUME NEW name \in Ids, NEW key \in AnyKey, PutDelivered(name, key)
      PROVE  ClientInv'
  <2>1. PICK i \in Item, m \in Lookup(name) :
           LET n == FirstAccepting(queue[m], key)
               w == queue[m].callbacks[n].ref
           IN  /\ fate[i].state = "new"
               /\ n # 0
               /\ queue' = [queue EXCEPT ![m] = DropCallback(@, n)]
               /\ Callback(w, want[w], i)
    BY <1>9 DEF PutDelivered
  <2>2. reply'.id \subseteq Ids /\ UNCHANGED << mqs, id >> /\ m \in Live
    BY <1>2, <1>3, <1>9 DEF PutDelivered
  <2> DEFINE w == queue[m].callbacks[FirstAccepting(queue[m], key)].ref
  <2>3. /\ Live' = Live /\ w \in wants /\ want[w].queue = m /\ want[w] \in Fields
        /\ Delivery(w, want[w], i)
    <3>1. /\ fate[i].state = "new" /\ FirstAccepting(queue[m], key) # 0
          /\ queue' = [queue EXCEPT ![m] = DropCallback(@, FirstAccepting(queue[m], key))]
          /\ Callback(w, want[w], i)
      BY <2>1
    <3>2. w = queue[m].callbacks[FirstAccepting(queue[m], key)].ref
      OBVIOUS
    <3>3. PICK x : x = w
      OBVIOUS
    <3>4. x = queue[m].callbacks[FirstAccepting(queue[m], key)].ref /\ Callback(x, want[x], i)
      BY <3>1, <3>2, <3>3
    <3> HIDE DEF w
    <3>5. /\ Live' = Live /\ x \in wants /\ want[x].queue = m /\ want[x] \in Fields
          /\ Delivery(x, want[x], i)
      <4>1. IInv /\ i \in Item /\ m \in Live /\ key \in AnyKey
        BY <2>2
      <4>2. Live' = Live
        BY <2>2 DEF Live
      <4>4. x \in wants /\ want[x].queue = m
        <5>1. m \in MQ /\ Sound(queue[m], Item, Want)
          BY <1>1, <4>1 DEF IInv, ManagerInv, TypeOK
        <5>2. x \in Refs(queue[m].callbacks)
          BY <3>1, <3>4, <5>1, DropCallbackSound
        <5> QED
          BY <5>1, <5>2 DEF IInv, WantInv
      <4>5. want[x] \in Fields
        BY <1>1, <4>4 DEF TypeOK, Fields
      <4>3. Delivery(x, want[x], i)
        BY ONLY <2>2, <3>1, <3>4, <4>1, PutDeliveredStep
      <4> QED
        BY <4>2, <4>3, <4>4, <4>5
    <3> QED
      BY <3>3, <3>5
  <2> HIDE DEF w
  <2>4. w \in Want /\ w \in DOMAIN want /\ \A j \in Item : w \notin fate[j].to
    BY <1>1, <2>3 DEF TypeOK, IInv, FateInv
  <2>5. /\ conn[want[w].client] # "none"
        /\ want[w].cancelled => conn[want[w].client] # "active"
    BY <2>2, <2>3, <2>4 DEF ClientInv
  <2>6. fate[i].state \in {"new", "pending"}
    BY <2>1
  <2> QED
    BY <2>3, <2>4, <2>5, <2>6, ClientInvDelivery
<1>10. ASSUME NEW name \in Ids, NEW key \in AnyKey, PutStored(name, key)
       PROVE  ClientInv'
  <2>1. PICK i \in Item : /\ fate[i].state = "new"
                          /\ fate' = [fate EXCEPT ![i] = Outcome("pending", {})]
    BY <1>10 DEF PutStored
  <2>2. UNCHANGED << mqs, wants, want, conn >> /\ Live' = Live
    BY <1>10 DEF PutStored, Live
  <2>3. /\ fate'[i].state = "pending" /\ \A j \in Item : j # i => fate'[j] = fate[j]
    BY <1>1, <2>1 DEF TypeOK, Outcome
  <2>4. \A w \in DOMAIN want : w \in wants \/
           \E j \in Item : fate'[j].to = {w} /\ fate'[j].state \in {"sent", "dropped"}
    <3> SUFFICES ASSUME NEW w \in DOMAIN want, w \notin wants
                 PROVE  \E j \in Item : fate'[j].to = {w} /\ fate'[j].state \in {"sent", "dropped"}
      OBVIOUS
    <3>1. PICK j \in Item : fate[j].to = {w} /\ fate[j].state \in {"sent", "dropped"}
      BY DEF ClientInv
    <3>2. fate'[j] = fate[j]
      BY <2>1, <2>3, <3>1
    <3> QED
      BY <3>1, <3>2
  <2>5. \A j \in Item : fate'[j].state = "dropped" =>
           \E w \in fate'[j].to : conn[want[w].client] # "active"
    BY <2>3 DEF ClientInv
  <2> QED
    BY <2>2, <2>4, <2>5 DEF ClientInv
<1>11. ASSUME NEW name \in Ids, NEW key \in AnyKey, Take(name, key)
       PROVE  ClientInv'
  <2>1. PICK m \in Lookup(name) :
           LET n == FirstMatching(queue[m], key)
               i == queue[m].items[n].ref
           IN  n # 0 /\ fate' = [fate EXCEPT ![i] = Outcome("taken", {})]
    BY <1>11 DEF Take
  <2> DEFINE i == queue[m].items[FirstMatching(queue[m], key)].ref
  <2>2. m \in MQ /\ Sound(queue[m], Item, Want)
    BY <1>1, <1>2 DEF IInv, TypeOK, ManagerInv
  <2>3. i \in Item /\ fate[i].state = "pending"
    <3>1. i \in Refs(queue[m].items)
      BY <2>1, <2>2, DropItemSound
    <3> QED
      BY <2>2, <3>1, SoundLists DEF IInv, ItemInv
  <2>4. fate' = [fate EXCEPT ![i] = Outcome("taken", {})]
    BY <2>1
  <2> HIDE DEF i
  <2>5. UNCHANGED << mqs, wants, want, conn >> /\ Live' = Live
    BY <1>11 DEF Take, Live
  <2>6. fate'[i].state = "taken" /\ \A j \in Item : j # i => fate'[j] = fate[j]
    BY <1>1, <2>3, <2>4 DEF TypeOK, Outcome
  <2> QED
    BY <2>3, <2>5, <2>6 DEF ClientInv
<1>12. ASSUME NEW c \in Conn, NEW name \in Ids, NEW key \in AnyKey, WaitServed(c, name, key)
       PROVE  ClientInv'
  <2>1. PICK w \in Want \ DOMAIN want, m \in Lookup(name) :
           LET n == FirstMatching(queue[m], key)
           IN  /\ n # 0
               /\ queue' = [queue EXCEPT ![m] = DropItem(@, n)]
               /\ Callback(w, Wanted(c, m), queue[m].items[n].ref)
    BY <1>12 DEF WaitServed
  <2>2. UNCHANGED << mqs, id, reply >> /\ m \in Live /\ conn[c] \in {"active", "broken"}
    BY <1>2, <1>12 DEF WaitServed, Reads
  <2> DEFINE i == queue[m].items[FirstMatching(queue[m], key)].ref
  <2>3. /\ Live' = Live /\ Delivery(w, Wanted(c, m), i)
        /\ i \in Item /\ fate[i].state = "pending"
    BY <2>1, <2>2, WaitServedStep
  <2> HIDE DEF i
  <2>4. \A j \in Item : w \notin fate[j].to
    BY DEF IInv, FateInv
  <2>5. /\ Wanted(c, m) \in Fields
        /\ Wanted(c, m).client = c /\ ~ Wanted(c, m).cancelled
    BY <1>1, <2>2 DEF Wanted, Fields, TypeOK
  <2>6. conn[Wanted(c, m).client] # "none" /\ fate[i].state \in {"new", "pending"}
    BY <2>2, <2>3, <2>5
  <2> QED
    BY <2>3, <2>4, <2>5, <2>6, ClientInvDelivery
<1>13. ASSUME NEW c \in Conn, NEW name \in Ids, NEW key \in AnyKey, WaitQueued(c, name, key)
       PROVE  ClientInv'
  <2>1. PICK w \in Want \ DOMAIN want, m \in Lookup(name) :
           /\ FirstMatching(queue[m], key) = 0
           /\ queue' = [queue EXCEPT ![m] = AddCallback(@, w, key)]
           /\ wants' = wants \cup {w}
           /\ want' = Updated(want, w, Wanted(c, m))
    BY <1>13 DEF WaitQueued
  <2>2. UNCHANGED << mqs, id, conn, fate, frees, process, reply >>
    BY <1>13 DEF WaitQueued
  <2>3. m \in Live /\ conn[c] = "active"
    BY <1>2, <1>13 DEF WaitQueued, Reads, ClientInv
  <2>4. /\ Live' = Live
        /\ DOMAIN want' = DOMAIN want \cup {w} /\ want'[w] = Wanted(c, m)
        /\ \A v \in DOMAIN want : v # w /\ want'[v] = want[v]
    <3>1. DOMAIN want' = DOMAIN want \cup {w} /\ want'[w] = Wanted(c, m)
      BY <2>1 DEF Updated
    <3>2. \A v \in DOMAIN want : v # w /\ want'[v] = want[v]
      BY <2>1 DEF Updated
    <3> QED
      BY <2>2, <3>1, <3>2 DEF Live
  <2> QED
    BY <2>1, <2>2, <2>3, <2>4, ClientInvQueued
<1>14. ASSUME NEW c \in Conn,
              Open(c) \/ CloseFrame(c) \/ Drained(c) \/ ReadOrSendFails(c)
                \/ Eof(c) \/ ConnError(c)
       PROVE  ClientInv'
  <2>1. ConnStep
    BY <1>14 DEF Open, CloseFrame, Drained, ReadOrSendFails, Eof, ConnError
  <2>2. PICK s \in {"active", "closing", "shut", "freed"} :
           /\ Becomes(c, s)
           /\ want' = want \/ want' = Marked(WantsOf(c))
           /\ s = "active" => conn[c] = "none"
           /\ s \in {"active", "closing"} => want' = want
           /\ s \notin {"active", "closing"} =>
                want' = Marked(WantsOf(c)) \/ conn[c] \notin {"active", "closing"}
    BY <1>14 DEF Open, CloseFrame, Drained, ReadOrSendFails, Eof, ConnError
  <2>3. s \in ConnState /\ s \notin {"none", "broken"}
    BY DEF ConnState
  <2> QED
    BY <2>1, <2>2, <2>3, ClientInvConnection
<1>15. CASE UNCHANGED vars
  <2>1. Live' = Live
    BY <1>15 DEF vars, Live
  <2> QED
    BY <1>15, <2>1, ClientInvKept DEF vars
<1>16. \A name \in Ids : ~ NewFails(name)
  BY DEF NewFails
<1> QED
  BY <1>5, <1>6, <1>7, <1>8, <1>9, <1>10, <1>11, <1>12, <1>13, <1>14, <1>15, <1>16
     DEF Next, Http, WebSocket

(* While nothing fails, a want that is not cancelled has a client whose    *)
(* memory is still there, whichever way connections end.                   *)
THEOREM ClientsAreThere ==
  ASSUME ~ Faults
  PROVE  Spec => []UncancelledClientExists
<1>1. ClientInv => UncancelledClientExists
  BY DEF ClientInv, UncancelledClientExists
<1> QED
  BY IInvInit, IInvNext, ClientInvInit, ClientInvNext, <1>1, PTL DEF Spec

(* While nothing fails, an item given to a request is thrown away only if  *)
(* the client had begun to leave, and the request of a connected client    *)
(* has been answered or waits, unless its queue was deleted.               *)
THEOREM RequestsAreAnswered ==
  ASSUME ~ Faults
  PROVE  Spec => []AnsweredUnlessGone
<1>1. IInv /\ ClientInv => AnsweredUnlessGone
  <2> SUFFICES ASSUME IInv, ClientInv
               PROVE  AnsweredUnlessGone
    OBVIOUS
  <2>1. \A i \in Item : fate[i].state = "dropped" =>
           \E w \in fate[i].to : conn[want[w].client] # "active"
    BY DEF ClientInv
  <2>2. ASSUME NEW w \in DOMAIN want, conn[want[w].client] = "active",
               ~ Waits(w), want[w].queue \in Live
        PROVE  \E i \in Item : fate[i] = Outcome("sent", {w})
    <3>1. w \notin wants
      BY <2>2 DEF IInv, WantInv, Waits, Refs
    <3>2. PICK i \in Item : fate[i].to = {w} /\ fate[i].state \in {"sent", "dropped"}
      BY <3>1 DEF ClientInv
    <3>3. fate[i].state = "sent"
      BY <2>1, <2>2, <3>2
    <3>4. fate[i] \in Fate
      BY DEF IInv, TypeOK
    <3>5. fate[i] = Outcome("sent", {w})
      BY <3>2, <3>3, <3>4 DEF Fate, Outcome
    <3> QED
      BY <3>5
  <2> QED
    BY <2>1, <2>2 DEF AnsweredUnlessGone
<1> QED
  BY IInvInit, IInvNext, ClientInvInit, ClientInvNext, <1>1, PTL DEF Spec

-----------------------------------------------------------------------------
(***************************************************************************)
(* Ids.  A queue is created only if none has the name as its id; if it     *)
(* then gets an id that another has, the conversion has made it of the     *)
(* name.                                                                   *)
(***************************************************************************)
LEMMA UniqueIdsNext == IInv /\ UniqueIds /\ [Next]_vars => UniqueIds'
<1> SUFFICES ASSUME IInv, UniqueIds, [Next]_vars PROVE UniqueIds'
  OBVIOUS
<1>1. /\ mqs \in Seq(MQ) /\ Live \subseteq DOMAIN id
  BY DEF IInv, ManagerInv, TypeOK
<1>2. ASSUME NEW m \in MQ \ DOMAIN id, NEW newId \in Ids, Create(m, newId),
             \/ \A k \in Live : id[k] # newId
             \/ \E name \in Name : StoredAs[name] = newId /\ name # newId
      PROVE  UniqueIds'
  <2>1. Live' = Live \cup {m} /\ m \notin Live
    BY <1>2, CreateStep
  <2>2. id'[m] = newId /\ \A k \in Live : id'[k] = id[k]
    BY <1>1, <1>2, <2>1 DEF Create, Updated
  <2> QED
    BY <1>2, <2>1, <2>2 DEF UniqueIds
<1>3. CASE NewUnnamed
  BY <1>1, <1>2, <1>3 DEF NewUnnamed, Ids
<1>4. ASSUME NEW name \in Name, NewNamed(name)
      PROVE  UniqueIds'
  <2>1. StoredAs[name] \in Name /\ StoredAs[name] \in Ids /\ name \in Ids
    BY ServerAssumption DEF ServerAssumption, Ids
  <2>2. \A k \in Live : id[k] # name
    BY <1>1, <1>4, <2>1, LookupProperties DEF NewNamed
  <2>3. \/ \A k \in Live : id[k] # StoredAs[name]
        \/ \E other \in Name : StoredAs[other] = StoredAs[name] /\ other # StoredAs[name]
    BY <2>2
  <2> QED
    BY <1>2, <1>4, <2>1, <2>3 DEF NewNamed
<1>5. ASSUME NEW m \in Live, FreeQueue(m)
      PROVE  UniqueIds'
  <2>1. Live' = Live \ {m}
    BY <1>1, <1>5, LiveRemove DEF FreeQueue, IInv, ManagerInv
  <2> QED
    BY <1>5, <2>1 DEF UniqueIds, FreeQueue
<1>6. ASSUME NEW name \in Ids, NewFails(name) \/ Delete(name)
      PROVE  UniqueIds'
  BY <1>1, <1>5, <1>6, LookupProperties DEF NewFails, Delete
<1>7. ASSUME UNCHANGED << mqs, id >>
      PROVE  UniqueIds'
  BY <1>7 DEF UniqueIds, Live
<1>8. ASSUME NEW name \in Ids,
             Info(name) \/ NewExisting(name) \/ DeleteUnknown(name)
      PROVE  UNCHANGED << mqs, id >>
  BY <1>8 DEF Info, NewExisting, DeleteUnknown, managerVars
<1>9. ASSUME NEW name \in Ids, NEW key \in AnyKey,
             \/ Peek(name, key) \/ NotFound(name, key) \/ PutDelivered(name, key)
             \/ PutStored(name, key) \/ Take(name, key)
      PROVE  UNCHANGED << mqs, id >>
  BY <1>9 DEF Peek, NotFound, PutDelivered, PutStored, Take, managerVars
<1>10. ASSUME WebSocket
       PROVE  UNCHANGED << mqs, id >>
  BY <1>10 DEF WebSocket, WaitServed, WaitQueued, Open, CloseFrame, Drained,
               ReadOrSendFails, Eof, ConnError, ConnStep, managerVars
<1>11. CASE UNCHANGED vars
  BY <1>7, <1>11 DEF vars
<1> QED
  BY <1>3, <1>4, <1>6, <1>7, <1>8, <1>9, <1>10, <1>11 DEF Next, Http

(* Whatever the conversion of names does, two queues share an id only if   *)
(* it has made that id of another name: none that leaves names alone lets  *)
(* a second queue of a name in (manager.c:129-170).                        *)
THEOREM IdsStayUnique == Spec => []IdsAreUnique
<1>1. Init => UniqueIds
  BY DEF Init, UniqueIds, Live, ToSet
<1>2. IInv /\ UniqueIds => IdsAreUnique
  BY DEF IInv, ManagerInv, UniqueIds, IdsAreUnique, Live, ToSet, Once
<1> QED
  BY IInvInit, IInvNext, UniqueIdsNext, <1>1, <1>2, PTL DEF Spec
-----------------------------------------------------------------------------
(***************************************************************************)
(* Steps.  Which entries leave a queue is a matter of its references, and  *)
(* the scans find the first entry that will do; that the one found stands  *)
(* for all that would do as well is a property of Accepts alone.           *)
(***************************************************************************)
InTurn(old, new) ==
  /\ \A n \in Departed(old.items, new.items) : \A k \in 1..(n - 1) :
       ~ Accepts(old.items[n].key, old.items[k].key)
  /\ \A n \in Departed(old.callbacks, new.callbacks) : \A k \in 1..(n - 1) :
       ~ Accepts(old.callbacks[k].key, old.callbacks[n].key)

LEMMA DepartedRefs ==
  ASSUME NEW list, NEW next
  PROVE  Departed(list, next) = { n \in DOMAIN list : list[n].ref \notin Refs(next) }
  BY DEF Departed, Refs

LEMMA NobodyDeparts ==
  ASSUME NEW list, NEW next, Refs(list) \subseteq Refs(next)
  PROVE  Departed(list, next) = {}
<1>1. \A n \in DOMAIN list : list[n].ref \in Refs(list)
  BY DEF Refs
<1> QED
  BY <1>1, DepartedRefs

LEMMA OneDeparts ==
  ASSUME NEW list, NEW next, Distinct(list), NEW n \in DOMAIN list,
         Refs(next) = Refs(list) \ {list[n].ref}
  PROVE  Departed(list, next) = {n}
<1>1. \A m \in DOMAIN list : list[m].ref \in Refs(list)
  BY DEF Refs
<1>2. \A m \in DOMAIN list : list[m].ref = list[n].ref => m = n
  BY DEF Distinct
<1>3. \A m \in DOMAIN list : list[m].ref \notin Refs(next) <=> m = n
  BY <1>1, <1>2
<1> QED
  BY <1>3, DepartedRefs

(* What accepts less accepts nothing more.                                 *)
LEMMA AcceptsTransitive ==
  ASSUME NEW a \in AnyKey, NEW b \in AnyKey, NEW c \in AnyKey,
         Accepts(a, b), Accepts(b, c)
  PROVE  Accepts(a, c)
  BY KeyAssumption DEF KeyAssumption, AnyKey, Accepts

LEMMA DropItemInTurn ==
  ASSUME NEW qu, Sound(qu, Item, Want), NEW key \in AnyKey, FirstMatching(qu, key) # 0
  PROVE  InTurn(qu, DropItem(qu, FirstMatching(qu, key)))
<1> DEFINE n == FirstMatching(qu, key)
           new == DropItem(qu, n)
<1>1. /\ qu \in QueueType(Item, Want) /\ CountersExact(qu)
      /\ qu.items \in ListOf(Item) /\ Distinct(qu.items)
  BY SoundLists DEF Sound
<1>2. /\ n \in DOMAIN qu.items /\ Accepts(key, qu.items[n].key)
      /\ \A k \in 1..(n - 1) : ~ Accepts(key, qu.items[k].key)
  BY <1>1, FirstMatchingProperties
<1>3. /\ Refs(new.items) = Refs(qu.items) \ {qu.items[n].ref}
      /\ Refs(new.callbacks) = Refs(qu.callbacks)
  BY DropItemSound
<1> HIDE DEF n, new
<1>4. Departed(qu.items, new.items) = {n}
  BY <1>1, <1>2, <1>3, OneDeparts
<1>5. Departed(qu.callbacks, new.callbacks) = {}
  BY <1>3, NobodyDeparts
<1>6. ASSUME NEW k \in 1..(n - 1)
      PROVE  ~ Accepts(qu.items[n].key, qu.items[k].key)
  <2>1. Len(qu.items) \in Nat /\ DOMAIN qu.items = 1..Len(qu.items)
    BY <1>1, LenProperties DEF ListOf
  <2>2. k \in DOMAIN qu.items
    BY <1>2, <2>1
  <2>3. qu.items[n].key \in AnyKey /\ qu.items[k].key \in AnyKey
    BY <1>1, <1>2, <2>2, ListEntry
  <2> QED
    BY <1>2, <2>3, AcceptsTransitive
<1>7. InTurn(qu, new)
  BY <1>4, <1>5, <1>6 DEF InTurn
<1> QED
  BY <1>7 DEF new, n

LEMMA DropCallbackInTurn ==
  ASSUME NEW qu, Sound(qu, Item, Want), NEW key \in AnyKey, FirstAccepting(qu, key) # 0
  PROVE  InTurn(qu, DropCallback(qu, FirstAccepting(qu, key)))
<1> DEFINE n == FirstAccepting(qu, key)
           new == DropCallback(qu, n)
<1>1. /\ qu \in QueueType(Item, Want) /\ CountersExact(qu)
      /\ qu.callbacks \in ListOf(Want) /\ Distinct(qu.callbacks)
  BY SoundLists DEF Sound
<1>2. /\ n \in DOMAIN qu.callbacks /\ Accepts(qu.callbacks[n].key, key)
      /\ \A k \in 1..(n - 1) : ~ Accepts(qu.callbacks[k].key, key)
  BY <1>1, FirstAcceptingProperties
<1>3. /\ Refs(new.callbacks) = Refs(qu.callbacks) \ {qu.callbacks[n].ref}
      /\ Refs(new.items) = Refs(qu.items)
  BY DropCallbackSound
<1> HIDE DEF n, new
<1>4. Departed(qu.callbacks, new.callbacks) = {n}
  BY <1>1, <1>2, <1>3, OneDeparts
<1>5. Departed(qu.items, new.items) = {}
  BY <1>3, NobodyDeparts
<1>6. ASSUME NEW k \in 1..(n - 1)
      PROVE  ~ Accepts(qu.callbacks[k].key, qu.callbacks[n].key)
  <2>1. Len(qu.callbacks) \in Nat /\ DOMAIN qu.callbacks = 1..Len(qu.callbacks)
    BY <1>1, LenProperties DEF ListOf
  <2>2. k \in DOMAIN qu.callbacks
    BY <1>2, <2>1
  <2>3. qu.callbacks[n].key \in AnyKey /\ qu.callbacks[k].key \in AnyKey
    BY <1>1, <1>2, <2>2, ListEntry
  <2> QED
    BY <1>2, <2>3, AcceptsTransitive
<1>7. InTurn(qu, new)
  BY <1>4, <1>5, <1>6 DEF InTurn
<1> QED
  BY <1>7 DEF new, n

LEMMA AddInTurn ==
  ASSUME NEW qu, Sound(qu, Item, Want), NEW key \in AnyKey, NEW r
  PROVE  /\ InTurn(qu, qu)
         /\ r \in Item => InTurn(qu, AddItem(qu, r, key))
         /\ r \in Want => InTurn(qu, AddCallback(qu, r, key))
<1>1. qu \in QueueType(Item, Want) /\ qu.items \in ListOf(Item) /\ qu.callbacks \in ListOf(Want)
  BY SoundLists DEF Sound
<1>2. InTurn(qu, qu)
  BY NobodyDeparts DEF InTurn
<1>3. ASSUME r \in Item
      PROVE  InTurn(qu, AddItem(qu, r, key))
  <2>1. /\ AddItem(qu, r, key).items = Append(qu.items, Entry(r, key))
        /\ AddItem(qu, r, key).callbacks = qu.callbacks
    BY <1>1, AddLists
  <2>2. Refs(Append(qu.items, Entry(r, key))) = Refs(qu.items) \cup {r}
    BY <1>1, <1>3, AppendRefs
  <2> QED
    BY <2>1, <2>2, NobodyDeparts DEF InTurn
<1>4. ASSUME r \in Want
      PROVE  InTurn(qu, AddCallback(qu, r, key))
  <2>1. /\ AddCallback(qu, r, key).callbacks = Append(qu.callbacks, Entry(r, key))
        /\ AddCallback(qu, r, key).items = qu.items
    BY <1>1, AddLists
  <2>2. Refs(Append(qu.callbacks, Entry(r, key))) = Refs(qu.callbacks) \cup {r}
    BY <1>1, <1>4, AppendRefs
  <2> QED
    BY <2>1, <2>2, NobodyDeparts DEF InTurn
<1> QED
  BY <1>2, <1>3, <1>4

(* Nobody is overtaken, in any queue and whatever fails: in the queue that *)
(* a step changes the entry that leaves was found by a scan, and the other *)
(* queues keep theirs.                                                     *)
THEOREM NobodyIsOvertaken == Spec => FirstComeFirstServed
<1> DEFINE Served == \A m \in Live \cap Live' :
             /\ \A n \in Departed(queue[m].items, queue'[m].items) :
                  \A k \in 1..(n - 1) :
                    ~ Accepts(queue[m].items[n].key, queue[m].items[k].key)
             /\ \A n \in Departed(queue[m].callbacks, queue'[m].callbacks) :
                  \A k \in 1..(n - 1) :
                    ~ Accepts(queue[m].callbacks[k].key, queue[m].callbacks[n].key)
<1>1. ASSUME IInv, [Next]_vars
      PROVE  [Served]_vars
  <2>1. /\ mqs \in Seq(MQ) /\ Live \subseteq MQ /\ Live \subseteq DOMAIN id
        /\ queue \in [MQ -> QueueType(Item, Want)]
        /\ \A m \in MQ : Sound(queue[m], Item, Want)
    BY <1>1 DEF IInv, ManagerInv, TypeOK
  <2>2. \A name : Lookup(name) \subseteq MQ
    BY <2>1, LookupProperties
  <2>3. ASSUME \A m \in Live \cap Live' : InTurn(queue[m], queue'[m])
        PROVE  Served
    BY <2>3 DEF InTurn
  <2> HIDE DEF Served
  <2>4. \A m \in MQ : InTurn(queue[m], queue[m])
    <3> SUFFICES ASSUME NEW m \in MQ PROVE InTurn(queue[m], queue[m])
      OBVIOUS
    <3> QED
      BY <2>1, AddInTurn DEF AnyKey
  <2>5. ASSUME NEW m \in MQ, NEW new, queue' = [queue EXCEPT ![m] = new],
               m \in Live \cap Live' => InTurn(queue[m], new)
        PROVE  Served
    <3>1. \A k \in MQ : queue'[k] = IF k = m THEN new ELSE queue[k]
      BY <2>1, <2>5
    <3>2. \A k \in Live \cap Live' : InTurn(queue[k], queue'[k])
      BY <2>1, <2>4, <2>5, <3>1
    <3> QED
      BY <2>3, <3>2
  <2>6. ASSUME queue' = queue
        PROVE  Served
    <3>1. \A k \in Live \cap Live' : InTurn(queue[k], queue'[k])
      BY <2>1, <2>4, <2>6
    <3> QED
      BY <2>3, <3>1
  <2>7. ASSUME NEW m \in MQ \ DOMAIN id, NEW newId, Create(m, newId)
        PROVE  Served
    BY <2>1, <2>5, <2>7 DEF Create
  <2>8. CASE NewUnnamed
    BY <2>7, <2>8 DEF NewUnnamed
  <2>9. ASSUME NEW name \in Name, NewNamed(name)
        PROVE  Served
    BY <2>7, <2>9 DEF NewNamed
  <2>10. ASSUME NEW m \in Live, FreeQueue(m)
         PROVE  Served
    <3>1. m \notin Live' /\ queue' = [queue EXCEPT ![m] = NewQueue]
      BY <1>1, <2>10, LiveRemove DEF FreeQueue, IInv, ManagerInv
    <3> QED
      BY <2>1, <2>5, <3>1
  <2>11. ASSUME NEW name \in Ids, NewFails(name) \/ Delete(name)
         PROVE  Served
    BY <2>1, <2>10, <2>11, LookupProperties DEF NewFails, Delete
  <2>12. ASSUME NEW name \in Ids, NEW key \in AnyKey, PutDelivered(name, key)
         PROVE  Served
    <3>1. PICK m \in Lookup(name) :
             LET n == FirstAccepting(queue[m], key)
             IN  n # 0 /\ queue' = [queue EXCEPT ![m] = DropCallback(@, n)]
      BY <2>12 DEF PutDelivered
    <3>2. m \in MQ /\ Sound(queue[m], Item, Want)
      BY <2>1, <2>2
    <3>3. InTurn(queue[m], DropCallback(queue[m], FirstAccepting(queue[m], key)))
      BY <3>1, <3>2, DropCallbackInTurn
    <3>4. queue' = [queue EXCEPT ![m] = DropCallback(queue[m], FirstAccepting(queue[m], key))]
      BY <2>1, <3>1, <3>2
    <3> QED
      BY <2>5, <3>2, <3>3, <3>4
  <2>13. ASSUME NEW name, NEW key \in AnyKey, NEW m \in Lookup(name),
                FirstMatching(queue[m], key) # 0,
                queue' = [queue EXCEPT ![m] = DropItem(@, FirstMatching(queue[m], key))]
         PROVE  Served
    <3>1. m \in MQ /\ Sound(queue[m], Item, Want)
      BY <2>1, <2>2
    <3>2. InTurn(queue[m], DropItem(queue[m], FirstMatching(queue[m], key)))
      BY <2>13, <3>1, DropItemInTurn
    <3>3. queue' = [queue EXCEPT ![m] = DropItem(queue[m], FirstMatching(queue[m], key))]
      BY <2>1, <2>13, <3>1
    <3> QED
      BY <2>5, <3>1, <3>2, <3>3
  <2>14. ASSUME NEW name \in Ids, NEW key \in AnyKey, Take(name, key)
         PROVE  Served
    <3>1. PICK m \in Lookup(name) :
             LET n == FirstMatching(queue[m], key)
             IN  n # 0 /\ queue' = [queue EXCEPT ![m] = DropItem(@, n)]
      BY <2>14 DEF Take
    <3> QED
      BY <2>13, <3>1
  <2>15. ASSUME NEW c \in Conn, NEW name \in Ids, NEW key \in AnyKey, WaitServed(c, name, key)
         PROVE  Served
    <3>1. PICK m \in Lookup(name) :
             LET n == FirstMatching(queue[m], key)
             IN  n # 0 /\ queue' = [queue EXCEPT ![m] = DropItem(@, n)]
      BY <2>15 DEF WaitServed
    <3> QED
      BY <2>13, <3>1
  <2>16. ASSUME NEW name \in Ids, NEW key \in AnyKey, PutStored(name, key)
         PROVE  Served
    <3>1. PICK i \in Item, m \in Lookup(name) : queue' = [queue EXCEPT ![m] = AddItem(@, i, key)]
      BY <2>16 DEF PutStored
    <3>2. m \in MQ /\ Sound(queue[m], Item, Want)
      BY <2>1, <2>2
    <3>3. InTurn(queue[m], AddItem(queue[m], i, key))
      BY <3>2, AddInTurn
    <3>4. queue' = [queue EXCEPT ![m] = AddItem(queue[m], i, key)]
      BY <2>1, <3>1, <3>2
    <3> QED
      BY <2>5, <3>2, <3>3, <3>4
  <2>17. ASSUME NEW c \in Conn, NEW name \in Ids, NEW key \in AnyKey, WaitQueued(c, name, key)
         PROVE  Served
    <3>1. PICK w \in Want, m \in Lookup(name) : queue' = [queue EXCEPT ![m] = AddCallback(@, w, key)]
      BY <2>17 DEF WaitQueued
    <3>2. m \in MQ /\ Sound(queue[m], Item, Want)
      BY <2>1, <2>2
    <3>3. InTurn(queue[m], AddCallback(queue[m], w, key))
      BY <3>2, AddInTurn
    <3>4. queue' = [queue EXCEPT ![m] = AddCallback(queue[m], w, key)]
      BY <2>1, <3>1, <3>2
    <3> QED
      BY <2>5, <3>2, <3>3, <3>4
  <2>18. ASSUME NEW name \in Ids,
                Info(name) \/ NewExisting(name) \/ DeleteUnknown(name)
                  \/ \E key \in AnyKey : Peek(name, key) \/ NotFound(name, key)
         PROVE  Served
    BY <2>6, <2>18 DEF Info, NewExisting, DeleteUnknown, Peek, NotFound, managerVars
  <2>19. ASSUME NEW c \in Conn,
                Open(c) \/ CloseFrame(c) \/ Drained(c) \/ ReadOrSendFails(c)
                  \/ Eof(c) \/ ConnError(c)
         PROVE  Served
    BY <2>6, <2>19 DEF Open, CloseFrame, Drained, ReadOrSendFails, Eof, ConnError,
                       ConnStep, managerVars
  <2> QED
    BY <1>1, <2>8, <2>9, <2>11, <2>12, <2>14, <2>15, <2>16, <2>17, <2>18, <2>19
       DEF Next, Http, WebSocket
<1> QED
  BY <1>1, IInvInit, IInvNext, PTL DEF Spec, FirstComeFirstServed

(* A delivery cancels wants and revives none.                              *)
LEMMA CallbackCancels ==
  ASSUME TypeOK, NEW w \in Want, NEW fields \in Fields, NEW i \in Item,
         Callback(w, fields, i), w \in DOMAIN want => want[w] = fields
  PROVE  \A v \in DOMAIN want : want[v].cancelled => want'[v].cancelled
<1> DEFINE new == Marked(WantsOf(fields.client))
           f == [fields EXCEPT !.cancelled = TRUE]
<1>1. want' = Updated(want, w, fields) \/ want' = Updated(new, w, f)
  BY DEF Callback
<1>2. /\ DOMAIN new = DOMAIN want
      /\ \A v \in DOMAIN want : want[v].cancelled => new[v].cancelled
  BY MarkedProperties
<1>3. f.cancelled
  BY DEF Fields
<1> HIDE DEF new, f
<1>4. CASE want' = Updated(want, w, fields)
  <2>1. want'[w] = fields /\ \A v \in DOMAIN want : v # w => want'[v] = want[v]
    BY <1>4 DEF Updated
  <2> QED
    BY <2>1
<1>5. CASE want' = Updated(new, w, f)
  <2>1. want'[w] = f /\ \A v \in DOMAIN want : v # w => want'[v] = new[v]
    BY <1>2, <1>5 DEF Updated
  <2> QED
    BY <1>2, <1>3, <2>1
<1> QED
  BY <1>1, <1>4, <1>5

(* What became of an item is final, and so is the cancellation of a want,  *)
(* whatever fails: a handler gives away only an item that is new or in a   *)
(* queue, which the invariant says is pending, and no step clears a flag.  *)
THEOREM OutcomesStayFinal == Spec => OutcomesAreFinal
<1> DEFINE Kept == \A i \in Item :
                     fate[i].state \notin {"new", "pending"} => fate'[i] = fate[i]
           Gone == \A w \in DOMAIN want : want[w].cancelled => want'[w].cancelled
           Final == Kept /\ Gone
<1>1. ASSUME IInv, [Next]_vars
      PROVE  [Final]_vars
  <2>1. /\ mqs \in Seq(MQ) /\ Live \subseteq MQ /\ TypeOK
        /\ fate \in [Item -> Fate]
        /\ \A m \in MQ : Sound(queue[m], Item, Want)
    BY <1>1 DEF IInv, ManagerInv, TypeOK
  <2>2. \A name : Lookup(name) \subseteq Live
    BY <2>1, LookupProperties
  <2>3. \A op, code : Replied(op, code) => reply'.id \subseteq Ids
    BY DEF Replied
  <2>4. ASSUME NEW i \in Item, fate[i].state \in {"new", "pending"}, NEW f,
               fate' = [fate EXCEPT ![i] = f]
        PROVE  Kept
    BY <2>1, <2>4
  <2>5. ASSUME NEW m \in Live, NEW key \in AnyKey, FirstMatching(queue[m], key) # 0
        PROVE  LET i == queue[m].items[FirstMatching(queue[m], key)].ref
               IN  i \in Item /\ fate[i].state \in {"new", "pending"}
    <3> DEFINE i == queue[m].items[FirstMatching(queue[m], key)].ref
    <3>1. m \in MQ /\ Sound(queue[m], Item, Want)
      BY <2>1
    <3>2. i \in Refs(queue[m].items)
      BY <2>5, <3>1, DropItemSound
    <3> HIDE DEF i
    <3>3. i \in Item /\ fate[i].state = "pending"
      BY <1>1, <3>1, <3>2, SoundLists DEF IInv, ItemInv
    <3> QED
      BY <3>3 DEF i
  <2>6. ASSUME want' = want \/ \E ws : want' = Marked(ws)
        PROVE  Gone
    BY <2>1, <2>6, MarkedProperties
  <2>7. fate' = fate => Kept
    OBVIOUS
  <2> HIDE DEF Kept, Gone
  <2>8. ASSUME NewUnnamed \/ \E name \in Name : NewNamed(name)
        PROVE  Final
    BY <2>6, <2>7, <2>8 DEF NewUnnamed, NewNamed, Create
  <2>9. ASSUME NEW name \in Ids, NewFails(name) \/ Delete(name)
        PROVE  Final
    <3>1. PICK m \in Lookup(name) :
             FreeQueue(m) /\ (want' = want \/ want' = Marked(WantsFor(m)))
      BY <2>9 DEF NewFails, Delete
    <3>2. reply'.id \subseteq Ids
      BY <2>3, <2>9 DEF NewFails, Delete
    <3>3. \A i \in Item : fate'[i] = fate[i] \/ fate[i].state = "pending"
      BY <1>1, <2>2, <3>1, <3>2, FreeStep
    <3>4. Kept
      BY <3>3 DEF Kept
    <3> QED
      BY <2>6, <3>1, <3>4
  <2>10. ASSUME NEW name \in Ids, NEW key \in AnyKey, PutDelivered(name, key)
         PROVE  Final
    <3>1. PICK i \in Item, m \in Lookup(name) :
             LET n == FirstAccepting(queue[m], key)
                 w == queue[m].callbacks[n].ref
             IN  /\ fate[i].state = "new"
                 /\ n # 0
                 /\ queue' = [queue EXCEPT ![m] = DropCallback(@, n)]
                 /\ Callback(w, want[w], i)
      BY <2>10 DEF PutDelivered
    <3>2. PICK w : w = queue[m].callbacks[FirstAccepting(queue[m], key)].ref
      OBVIOUS
    <3>3. m \in Live /\ reply'.id \subseteq Ids /\ UNCHANGED << mqs, id >>
      BY <2>2, <2>3, <2>10, <3>1 DEF PutDelivered
    <3>4. w \in wants /\ want[w] \in Fields /\ Delivery(w, want[w], i)
      <4>1. /\ fate[i].state = "new" /\ FirstAccepting(queue[m], key) # 0
            /\ queue' = [queue EXCEPT ![m] = DropCallback(@, FirstAccepting(queue[m], key))]
            /\ Callback(w, want[w], i)
        BY <3>1, <3>2
      <4>2. IInv /\ i \in Item /\ key \in AnyKey
        BY <1>1
      <4> QED
        BY ONLY <3>2, <3>3, <4>1, <4>2, PutDeliveredStep
    <3>5. Kept
      BY <2>4, <3>1, <3>4 DEF Delivery
    <3>6. w \in Want
      BY <2>1, <3>4 DEF TypeOK
    <3>7. Gone
      BY <2>1, <3>1, <3>2, <3>4, <3>6, CallbackCancels DEF Gone
    <3> QED
      BY <3>5, <3>7
  <2>11. ASSUME NEW c \in Conn, NEW name \in Ids, NEW key \in AnyKey, WaitServed(c, name, key)
         PROVE  Final
    <3>1. PICK w \in Want \ DOMAIN want, m \in Lookup(name) :
             LET n == FirstMatching(queue[m], key)
             IN  /\ n # 0
                 /\ queue' = [queue EXCEPT ![m] = DropItem(@, n)]
                 /\ Callback(w, Wanted(c, m), queue[m].items[n].ref)
      BY <2>11 DEF WaitServed
    <3>2. PICK i : i = queue[m].items[FirstMatching(queue[m], key)].ref
      OBVIOUS
    <3>3. m \in Live /\ i \in Item /\ fate[i].state \in {"new", "pending"}
      BY <2>2, <2>5, <3>1, <3>2
    <3>4. Wanted(c, m) \in Fields
      BY <2>1, <3>3 DEF TypeOK, Wanted, Fields
    <3>5. Callback(w, Wanted(c, m), i)
      BY <3>1, <3>2
    <3>6. Delivery(w, Wanted(c, m), i)
      BY <2>1, <3>3, <3>4, <3>5, CallbackEffect
    <3>7. Kept
      BY <2>4, <3>3, <3>6 DEF Delivery
    <3>8. Gone
      BY <2>1, <3>3, <3>4, <3>5, CallbackCancels DEF Gone
    <3> QED
      BY <3>7, <3>8
  <2>12. ASSUME NEW name \in Ids, NEW key \in AnyKey, PutStored(name, key)
         PROVE  Final
    BY <2>4, <2>6, <2>12 DEF PutStored
  <2>13. ASSUME NEW name \in Ids, NEW key \in AnyKey, Take(name, key)
         PROVE  Final
    <3>1. PICK m \in Lookup(name), s \in {"taken", "dropped"} :
             LET i == queue[m].items[FirstMatching(queue[m], key)].ref
             IN  /\ FirstMatching(queue[m], key) # 0
                 /\ fate' = [fate EXCEPT ![i] = Outcome(s, {})]
      BY <2>13 DEF Take
    <3>2. Kept
      BY <2>2, <2>4, <2>5, <3>1
    <3> QED
      BY <2>6, <2>13, <3>2 DEF Take
  <2>14. ASSUME NEW name \in Ids,
                Info(name) \/ NewExisting(name) \/ DeleteUnknown(name)
                  \/ \E key \in AnyKey : Peek(name, key) \/ NotFound(name, key)
         PROVE  Final
    BY <2>6, <2>7, <2>14 DEF Info, NewExisting, DeleteUnknown, Peek, NotFound
  <2>15. ASSUME NEW c \in Conn, NEW name \in Ids, NEW key \in AnyKey, WaitQueued(c, name, key)
         PROVE  Final
    <3>1. PICK w \in Want \ DOMAIN want, m \in Lookup(name) :
             want' = Updated(want, w, Wanted(c, m))
      BY <2>15 DEF WaitQueued
    <3>2. \A v \in DOMAIN want : want'[v] = want[v]
      BY <3>1 DEF Updated
    <3>3. Gone
      BY <3>2 DEF Gone
    <3> QED
      BY <2>7, <2>15, <3>3 DEF WaitQueued
  <2>16. ASSUME NEW c \in Conn,
                Open(c) \/ CloseFrame(c) \/ Drained(c) \/ ReadOrSendFails(c)
                  \/ Eof(c) \/ ConnError(c)
         PROVE  Final
    <3>1. ConnStep /\ (want' = want \/ want' = Marked(WantsOf(c)))
      BY <2>16 DEF Open, CloseFrame, Drained, ReadOrSendFails, Eof, ConnError
    <3> QED
      BY <2>6, <2>7, <3>1 DEF ConnStep
  <2> HIDE DEF Final
  <2> QED
    BY <1>1, <2>8, <2>9, <2>10, <2>11, <2>12, <2>13, <2>14, <2>15, <2>16
       DEF Next, Http, WebSocket
<1> QED
  BY <1>1, IInvInit, IInvNext, PTL DEF Spec, OutcomesAreFinal
=============================================================================
