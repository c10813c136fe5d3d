---------------------------- MODULE ClientProofs ----------------------------
(***************************************************************************)
(* Theorems about Client, for any handlers, keys, items and identifiers.   *)
(***************************************************************************)
EXTENDS Client, QueueOpsProofs

Known == DOMAIN waiting_identifiers
HandlerOf(id) == waiting_identifiers[id]

DistinctIds(list) ==
  \A m, n \in DOMAIN list : list[m].id = list[n].id /\ list[m].id # 0 => m = n

\* Nothing is on its way unless the connection is open, and nothing has
\* happened before it is.
LinkInv ==
  /\ connection # "open" => up = << >> /\ down = << >>
  /\ connection = "none" => /\ Known = {} /\ running = {} /\ asked = {} /\ last_id = 0
                            /\ waiting = << >>
                            /\ \A i \in Item : fate[i].to \notin Id
  /\ \A m, n \in DOMAIN waiting_handlers : waiting_handlers[m] = waiting_handlers[n] => m = n

\* A handler that is asked for has a request or runs, and a thread that is
\* about to ask for its handler again holds the identifier that is noted for it.
HandlerInv ==
  /\ \A h \in asked \ failed : \/ Threads(h) = {} /\ \E id \in Known : Identifiers(h) = {id}
                               \/ Identifiers(h) = {} /\ \E t \in running : Threads(h) = {t}
  /\ \A h \in Handler : h \notin asked \ failed => Threads(h) = {} /\ Identifiers(h) = {}
  /\ \A t \in running : t.id # 0 => t.id \in Known /\ HandlerOf(t.id) = t.handler
  /\ \A t, u \in running : t.id = u.id /\ t.id # 0 => t = u

\* An identifier is in one place, and there once.
PlacesInv ==
  /\ Ids(up) \subseteq Known /\ Waits \subseteq Known /\ Answers \subseteq Known
  /\ Unsent \cap Ids(up) = {} /\ Unsent \cap Waits = {} /\ Unsent \cap Answers = {}
  /\ Ids(up) \cap Waits = {} /\ Ids(up) \cap Answers = {} /\ Waits \cap Answers = {}
  /\ DistinctIds(up) /\ Distinct(waiting) /\ DistinctIds(down)
  /\ open => Known \subseteq Unsent \cup Ids(up) \cup Waits \cup Answers

\* Requests and waits carry the key of their handler.
KeyInv ==
  /\ \A n \in DOMAIN up : up[n].key = KeyOf[HandlerOf(up[n].id)]
  /\ \A n \in DOMAIN waiting : waiting[n].key = KeyOf[HandlerOf(waiting[n].ref)]

\* A reply is an error, or an item that was given to the request and that no
\* handler has seen.  An item that was given is in a reply or has been seen.
Seen(i) == \E h \in Handler : i \in ToSet(handled[h])

AnswerInv ==
  /\ \A n \in DOMAIN down : down[n].id # 0 =>
       /\ down[n].item \in Item
       /\ fate[down[n].item] = Q!Given(down[n].id, KeyOf[HandlerOf(down[n].id)])
       /\ ~ Seen(down[n].item)
  /\ \A n \in DOMAIN down : down[n].id = 0 => down[n].item = 0
  /\ \A i \in Item : fate[i].to \in Id => Seen(i) \/ \E n \in DOMAIN down : down[n].item = i

\* Items are pending in the order they were put, and nobody waits for them.
QueueInv ==
  /\ \A n \in DOMAIN pending : fate[pending[n].ref].state = "pending"
  /\ \A m, n \in DOMAIN pending : m < n => pending[m].ref < pending[n].ref
  /\ \A i, j \in Item : j < i /\ fate[j].state = "new" => fate[i].state = "new"
  /\ \A m \in DOMAIN waiting, n \in DOMAIN pending : ~ Accepts(waiting[m].key, pending[n].key)

\* Item i was put before every pending item that handler h would take.
Before(i, h) ==
  \A n \in DOMAIN pending : Accepts(KeyOf[h], pending[n].key) => i < pending[n].ref

\* The items that a handler has seen were given to requests that are done with,
\* for its key and in order.
SeenInv ==
  /\ \A i \in Item : fate[i].to \in Id => fate[i].state = "given"
  /\ \A h \in Handler : \A i \in ToSet(handled[h]) :
       /\ fate[i].to \in (1..last_id) \ Known
       /\ fate[i].key = KeyOf[h] /\ Before(i, h)
  /\ \A h \in Handler : \A m, n \in DOMAIN handled[h] : m < n => handled[h][m] < handled[h][n]

\* The item in a reply is behind them and before those that are pending.
NextInv ==
  \A n \in DOMAIN down : down[n].id # 0 =>
    LET h == HandlerOf(down[n].id)
    IN  /\ Before(down[n].item, h)
        /\ \A i \in ToSet(handled[h]) : i < down[n].item

OpenInv == connection = "open" => PlacesInv /\ KeyInv /\ AnswerInv /\ NextInv

IInv == TypeOK /\ LinkInv /\ HandlerInv /\ QueueInv /\ SeenInv /\ OpenInv
-----------------------------------------------------------------------------
(***************************************************************************)
(* Lists of messages.                                                      *)
(***************************************************************************)
\* A message is added at the end of a list.
LEMMA Appended ==
  ASSUME NEW S, NEW list \in Seq(S), NEW e \in S
  PROVE  LET new == Append(list, e)
             last == Len(list) + 1
         IN  /\ new \in Seq(S)
             /\ DOMAIN new = DOMAIN list \cup {last}
             /\ last \notin DOMAIN list
             /\ \A m \in DOMAIN list : new[m] = list[m] /\ m < last
             /\ new[last] = e
<1> DEFINE new == Append(list, e)
<1>1. Len(list) \in Nat /\ DOMAIN list = 1..Len(list)
  BY LenProperties
<1>2. /\ new \in Seq(S) /\ Len(new) = Len(list) + 1
      /\ \A i \in 1..Len(list) : new[i] = list[i]
      /\ new[Len(list) + 1] = e
  BY AppendProperties
<1>3. DOMAIN new = 1..(Len(list) + 1)
  BY <1>2, LenProperties
<1> HIDE DEF new
<1> QED
  BY <1>1, <1>2, <1>3 DEF new

\* The first message of a list is taken away.
LEMMA TailMessages ==
  ASSUME NEW S, NEW list \in Seq(S), list # << >>
  PROVE  /\ Head(list) = list[1] /\ 1 \in DOMAIN list /\ Head(list) \in S
         /\ Tail(list) \in Seq(S)
         /\ \A n \in DOMAIN Tail(list) :
              n + 1 \in DOMAIN list /\ n \in Nat \ {0} /\ Tail(list)[n] = list[n + 1]
         /\ \A n \in DOMAIN list \ {1} :
              n - 1 \in DOMAIN Tail(list) /\ list[n] = Tail(list)[n - 1]
<1>1. Len(list) \in Nat \ {0} /\ DOMAIN list = 1..Len(list)
  BY LenProperties, EmptySeq
<1>2. /\ Head(list) = list[1] /\ Head(list) \in S /\ Tail(list) \in Seq(S)
      /\ Len(Tail(list)) = Len(list) - 1
      /\ \A k \in 1..Len(Tail(list)) : Tail(list)[k] = list[k + 1]
  BY HeadTailProperties, ElementOfSeq, <1>1
<1>3. DOMAIN Tail(list) = 1..(Len(list) - 1)
  BY <1>2, LenProperties
<1> QED
  BY <1>1, <1>2, <1>3

\* Identifiers are only ever added.
LEMMA WiderSeq ==
  ASSUME NEW S, NEW T, S \subseteq T, NEW list \in Seq(S)
  PROVE  list \in Seq(T)
<1>1. PICK n \in Nat : list \in [1..n -> S]
  BY SeqDef
<1>2. list \in [1..n -> T]
  BY <1>1
<1> QED
  BY <1>2, SeqDef

\* The identifiers in a list that a message is added to.
LEMMA IdsAppend ==
  ASSUME NEW S, NEW list \in Seq(S), NEW e \in S
  PROVE  /\ Ids(Append(list, e)) = Ids(list) \cup {e.id}
         /\ DistinctIds(list) /\ (e.id \notin Ids(list) \/ e.id = 0)
              => DistinctIds(Append(list, e))
<1> DEFINE new == Append(list, e)
           last == Len(list) + 1
<1>1. /\ DOMAIN new = DOMAIN list \cup {last}
      /\ \A m \in DOMAIN list : new[m] = list[m]
      /\ new[last] = e
  BY Appended
<1> HIDE DEF new, last
<1>2. Ids(new) = Ids(list) \cup {e.id}
  BY <1>1 DEF Ids
<1>3. DistinctIds(list) /\ (e.id \notin Ids(list) \/ e.id = 0) => DistinctIds(new)
  BY <1>1 DEF DistinctIds, Ids
<1> QED
  BY <1>2, <1>3 DEF new

\* The identifiers in a list without its first message.
LEMMA IdsTail ==
  ASSUME NEW S, NEW list \in Seq(S), list # << >>
  PROVE  /\ Ids(list) = {Head(list).id} \cup Ids(Tail(list))
         /\ DistinctIds(list) => /\ DistinctIds(Tail(list))
                                 /\ Head(list).id # 0 => Head(list).id \notin Ids(Tail(list))
<1> DEFINE new == Tail(list)
           e == Head(list)
<1>1. /\ e = list[1] /\ 1 \in DOMAIN list
      /\ \A n \in DOMAIN new : n + 1 \in DOMAIN list /\ n \in Nat \ {0} /\ new[n] = list[n + 1]
      /\ \A n \in DOMAIN list \ {1} : n - 1 \in DOMAIN new /\ list[n] = new[n - 1]
  BY TailMessages
<1> HIDE DEF new, e
<1>2. Ids(list) \subseteq {e.id} \cup Ids(new)
  <2> SUFFICES ASSUME NEW n \in DOMAIN list
               PROVE  list[n].id \in {e.id} \cup Ids(new)
    BY DEF Ids
  <2>1. CASE n = 1
    BY <1>1, <2>1
  <2>2. CASE n # 1
    BY <1>1, <2>2 DEF Ids
  <2> QED
    BY <2>1, <2>2
<1>3. {e.id} \cup Ids(new) \subseteq Ids(list)
  BY <1>1 DEF Ids
<1>4. DistinctIds(list) => DistinctIds(new)
  <2> SUFFICES ASSUME DistinctIds(list), NEW m \in DOMAIN new, NEW n \in DOMAIN new,
                      new[m].id = new[n].id, new[m].id # 0
               PROVE  m = n
    BY DEF DistinctIds
  <2>1. m + 1 = n + 1
    BY <1>1 DEF DistinctIds
  <2> QED
    BY <1>1, <2>1
<1>5. DistinctIds(list) /\ e.id # 0 => e.id \notin Ids(new)
  <2> SUFFICES ASSUME DistinctIds(list), e.id # 0, NEW n \in DOMAIN new, new[n].id = e.id
               PROVE  FALSE
    BY DEF Ids
  <2>1. n + 1 = 1
    BY <1>1 DEF DistinctIds
  <2> QED
    BY <1>1, <2>1
<1> QED
  BY <1>2, <1>3, <1>4, <1>5 DEF new, e

\* The entries of a list that are left keep their order.
LEMMA Removed ==
  ASSUME NEW R, NEW list \in ListOf(R), NEW n \in DOMAIN list
  PROVE  LET new == RemoveAt(list, n)
             old(m) == IF m < n THEN m ELSE m + 1
         IN  /\ new \in ListOf(R)
             /\ \A m \in DOMAIN new :
                  old(m) \in DOMAIN list /\ old(m) # n /\ new[m] = list[old(m)]
             /\ \A m, l \in DOMAIN new : m < l => old(m) < old(l)
<1> DEFINE new == RemoveAt(list, n)
<1>1. Len(list) \in Nat /\ DOMAIN list = 1..Len(list) /\ n \in 1..Len(list)
  BY LenProperties DEF ListOf
<1>2. /\ new \in ListOf(R) /\ Len(new) = Len(list) - 1
      /\ \A i \in 1..(Len(list) - 1) : new[i] = IF i < n THEN list[i] ELSE list[i + 1]
  BY <1>1, RemoveAtProperties DEF ListOf
<1>3. DOMAIN new = 1..(Len(list) - 1)
  BY <1>2, LenProperties DEF ListOf
<1> HIDE DEF new
<1>4. \A m \in DOMAIN new : LET old == IF m < n THEN m ELSE m + 1
                            IN  old \in DOMAIN list /\ old # n /\ new[m] = list[old]
  BY <1>1, <1>2, <1>3
<1>5. \A m, l \in DOMAIN new :
        m < l => (IF m < n THEN m ELSE m + 1) < (IF l < n THEN l ELSE l + 1)
  BY <1>1, <1>3
<1> QED
  BY <1>2, <1>4, <1>5 DEF new

-----------------------------------------------------------------------------
(***************************************************************************)
(* The queue.  What was given stays given and before what is pending.      *)
(***************************************************************************)
QueueTypes ==
  /\ pending \in ListOf(Item) /\ waiting \in ListOf(Id)
  /\ fate \in [Item -> Q!Fate] /\ open \in BOOLEAN

QueueStep ==
  /\ QueueTypes' /\ QueueInv'
  /\ \A i \in Item : fate[i].state = "given" =>
       fate'[i] = fate[i] /\ \A h \in Handler : Before(i, h) => Before(i, h)'
  /\ \A i \in Item : fate'[i].to \in Id /\ fate[i].to \notin Id => fate'[i].state = "given"

\* Items and identifiers are numbers from 1.
LEMMA Items ==
  /\ Item \subseteq Int /\ Id \subseteq Int /\ 0 \notin Id /\ 0 \notin Item
  /\ NoOne \notin Id /\ Taker \notin Id
<1>1. MaxItem \in Nat /\ MaxId \in Nat /\ NoOne \notin Id /\ Taker \notin Id
  BY ClientAssumption DEF ClientAssumption
<1> QED
  BY <1>1 DEF Item, Id

\* What became of an item.
LEMMA Fates ==
  /\ \A to, key : /\ Q!Given(to, key).state = "given"
                  /\ Q!Given(to, key).to = to /\ Q!Given(to, key).key = key
  /\ \A to \in Id \cup {Taker}, key \in AnyKey : Q!Given(to, key) \in Q!Fate
  /\ \A state : Q!Undelivered(state).state = state /\ Q!Undelivered(state).to = NoOne
  /\ \A state \in {"new", "pending", "destroyed"} : Q!Undelivered(state) \in Q!Fate
<1>1. \A to, key : /\ Q!Given(to, key).state = "given"
                   /\ Q!Given(to, key).to = to /\ Q!Given(to, key).key = key
  BY DEF Q!Given
<1>2. \A to \in Id \cup {Taker}, key \in AnyKey : Q!Given(to, key) \in Q!Fate
  BY DEF Q!Given, Q!Fate, AnyKey, Q!AnyKey
<1>3. \A state : Q!Undelivered(state).state = state /\ Q!Undelivered(state).to = NoOne
  BY DEF Q!Undelivered
<1>4. \A state \in {"new", "pending", "destroyed"} : Q!Undelivered(state) \in Q!Fate
  BY DEF Q!Undelivered, Q!Fate, Q!AnyKey
<1> QED
  BY <1>1, <1>2, <1>3, <1>4

\* The operators of Matching, here and in the queue at the server.
LEMMA SameMatching ==
  /\ \A list, n : Q!RemoveAt(list, n) = RemoveAt(list, n)
  /\ \A ref, key : Q!Entry(ref, key) = Entry(ref, key)
  /\ \A wanted, key : Q!Accepts(wanted, key) <=> Accepts(wanted, key)
<1>1. \A list, n : Q!RemoveAt(list, n) = RemoveAt(list, n)
  BY DEF Q!RemoveAt, RemoveAt
<1>2. \A ref, key : Q!Entry(ref, key) = Entry(ref, key)
  BY DEF Q!Entry, Entry
<1>3. \A wanted, key : Q!Accepts(wanted, key) <=> Accepts(wanted, key)
  BY DEF Q!Accepts, Accepts
<1> QED
  BY <1>1, <1>2, <1>3

\* An item goes to one that waits.
LEMMA HandStep ==
  ASSUME QueueTypes, QueueInv, NEW i \in Item, NEW key \in AnyKey, Q!Hand(i, key),
         \A j \in 1..(i - 1) : fate[j].state # "new"
  PROVE  /\ QueueStep
         /\ \E n \in DOMAIN waiting :
              /\ waiting' = RemoveAt(waiting, n)
              /\ fate' = [fate EXCEPT ![i] = Q!Given(waiting[n].ref, waiting[n].key)]
         /\ fate[i].state = "new" /\ pending' = pending /\ open' = open /\ open
<1>1. PICK n \in DOMAIN waiting :
        /\ waiting' = RemoveAt(waiting, n)
        /\ fate' = [fate EXCEPT ![i] = Q!Given(waiting[n].ref, waiting[n].key)]
  BY SameMatching DEF Q!Hand
<1>2. fate[i].state = "new" /\ pending' = pending /\ open' = open /\ open
  BY DEF Q!Hand
<1>3. waiting[n].ref \in Id /\ waiting[n].key \in AnyKey
  BY ListEntry DEF QueueTypes
<1> DEFINE g == Q!Given(waiting[n].ref, waiting[n].key)
           old(m) == IF m < n THEN m ELSE m + 1
<1>4. g \in Q!Fate /\ g.state = "given" /\ g.to = waiting[n].ref
  BY <1>3, Fates
<1>5. fate' = [fate EXCEPT ![i] = g]
  BY <1>1
<1> HIDE DEF g
<1>6. fate' \in [Item -> Q!Fate] /\ fate'[i] = g /\ \A j \in Item : j # i => fate'[j] = fate[j]
  BY <1>4, <1>5 DEF QueueTypes
<1>7. /\ waiting' \in ListOf(Id)
      /\ \A m \in DOMAIN waiting' : old(m) \in DOMAIN waiting /\ waiting'[m] = waiting[old(m)]
  BY <1>1, Removed DEF QueueTypes
<1>8. QueueTypes'
  BY <1>2, <1>6, <1>7 DEF QueueTypes
<1>9. \A m \in DOMAIN pending : pending[m].ref \in Item
  BY ListEntry DEF QueueTypes
<1>10. QueueInv'
  <2>1. \A m \in DOMAIN pending' : fate'[pending'[m].ref].state = "pending"
    BY <1>2, <1>6, <1>9 DEF QueueInv
  <2>2. \A a, b \in Item : b < a /\ fate'[b].state = "new" => fate'[a].state = "new"
    <3> SUFFICES ASSUME NEW a \in Item, NEW b \in Item, b < a, fate'[b].state = "new"
                 PROVE  fate'[a].state = "new"
      OBVIOUS
    <3>1. b # i /\ fate[b].state = "new" /\ fate[a].state = "new"
      BY <1>4, <1>6 DEF QueueInv
    <3>2. a # i
      <4>1. a = i => b \in 1..(i - 1)
        BY DEF Item
      <4> QED
        BY <3>1, <4>1
    <3> QED
      BY <1>6, <3>1, <3>2
  <2>3. \A m \in DOMAIN waiting', l \in DOMAIN pending' :
           ~ Accepts(waiting'[m].key, pending'[l].key)
    BY <1>2, <1>7 DEF QueueInv
  <2> QED
    BY <1>2, <2>1, <2>2, <2>3 DEF QueueInv
<1>11. \A j \in Item : fate[j].state = "given" =>
         fate'[j] = fate[j] /\ \A h \in Handler : Before(j, h) => Before(j, h)'
  BY <1>2, <1>6 DEF Before
<1>12. \A j \in Item : fate'[j].to \in Id /\ fate[j].to \notin Id => fate'[j].state = "given"
  BY <1>4, <1>6
<1> QED
  BY <1>1, <1>2, <1>8, <1>10, <1>11, <1>12 DEF QueueStep

\* An item is stored, behind all the others.
LEMMA StoreStep ==
  ASSUME QueueTypes, QueueInv, NEW i \in Item, NEW key \in AnyKey, Q!Store(i, key),
         \A j \in 1..(i - 1) : fate[j].state # "new"
  PROVE  /\ QueueStep /\ waiting' = waiting /\ open' = open
         /\ \A j \in Item : fate'[j].to \in Id => fate[j].to \in Id
<1>1. /\ fate[i].state = "new" /\ waiting' = waiting /\ open' = open
      /\ \A n \in DOMAIN waiting : ~ Accepts(waiting[n].key, key)
      /\ pending' = Append(pending, Entry(i, key))
      /\ fate' = [fate EXCEPT ![i] = Q!Undelivered("pending")]
  BY SameMatching DEF Q!Store
<1> DEFINE g == Q!Undelivered("pending")
           last == Len(pending) + 1
<1>2. g \in Q!Fate /\ g.state = "pending" /\ g.to \notin Id
  BY Fates, Items
<1>3. fate' = [fate EXCEPT ![i] = g]
  BY <1>1
<1> HIDE DEF g
<1>4. fate' \in [Item -> Q!Fate] /\ fate'[i] = g /\ \A j \in Item : j # i => fate'[j] = fate[j]
  BY <1>2, <1>3 DEF QueueTypes
<1>5. Entry(i, key) \in [ref : Item, key : AnyKey]
      /\ Entry(i, key).ref = i /\ Entry(i, key).key = key
  BY DEF Entry
<1>6. /\ pending' \in ListOf(Item)
      /\ DOMAIN pending' = DOMAIN pending \cup {last}
      /\ \A m \in DOMAIN pending : pending'[m] = pending[m] /\ m < last
      /\ pending'[last].ref = i /\ pending'[last].key = key
      /\ DOMAIN pending \subseteq Int /\ last \in Int
  <2>1. pending \in Seq([ref : Item, key : AnyKey])
    BY DEF QueueTypes, ListOf
  <2>2. DOMAIN pending = 1..Len(pending) /\ Len(pending) \in Nat
    BY <2>1, LenProperties
  <2> QED
    BY <1>1, <1>5, <2>1, <2>2, Appended DEF ListOf
<1> HIDE DEF last
<1>7. QueueTypes'
  BY <1>1, <1>4, <1>6 DEF QueueTypes
<1>8. \A m \in DOMAIN pending : pending[m].ref \in Item
  BY ListEntry DEF QueueTypes
<1>9. \A j \in Item : fate[j].state # "new" => j < i
  <2> SUFFICES ASSUME NEW j \in Item, fate[j].state # "new" PROVE j < i
    OBVIOUS
  <2>1. ~ (i < j)
    BY <1>1 DEF QueueInv
  <2> QED
    BY <1>1, <2>1, Items
<1>10. QueueInv'
  <2>1. \A m \in DOMAIN pending' : fate'[pending'[m].ref].state = "pending"
    BY <1>2, <1>4, <1>6, <1>8 DEF QueueInv
  <2>2. \A m, n \in DOMAIN pending' : m < n => pending'[m].ref < pending'[n].ref
    <3> SUFFICES ASSUME NEW m \in DOMAIN pending', NEW n \in DOMAIN pending', m < n
                 PROVE  pending'[m].ref < pending'[n].ref
      OBVIOUS
    <3>1. m \in DOMAIN pending
      BY <1>6
    <3>2. CASE n \in DOMAIN pending
      BY <1>6, <3>1, <3>2 DEF QueueInv
    <3>3. CASE n = last
      BY <1>6, <1>8, <1>9, <3>1, <3>3 DEF QueueInv
    <3> QED
      BY <1>6, <3>2, <3>3
  <2>3. \A a, b \in Item : b < a /\ fate'[b].state = "new" => fate'[a].state = "new"
    <3> SUFFICES ASSUME NEW a \in Item, NEW b \in Item, b < a, fate'[b].state = "new"
                 PROVE  fate'[a].state = "new"
      OBVIOUS
    <3>1. b # i /\ fate[b].state = "new" /\ fate[a].state = "new"
      BY <1>2, <1>4 DEF QueueInv
    <3>2. a # i
      <4>1. a = i => b \in 1..(i - 1)
        BY DEF Item
      <4> QED
        BY <3>1, <4>1
    <3> QED
      BY <1>4, <3>1, <3>2
  <2>4. \A m \in DOMAIN waiting', n \in DOMAIN pending' :
           ~ Accepts(waiting'[m].key, pending'[n].key)
    BY <1>1, <1>6 DEF QueueInv
  <2> QED
    BY <2>1, <2>2, <2>3, <2>4 DEF QueueInv
<1>11. ASSUME NEW j \in Item, fate[j].state = "given"
       PROVE  fate'[j] = fate[j] /\ \A h \in Handler : Before(j, h) => Before(j, h)'
  <2>1. j # i /\ j < i
    BY <1>1, <1>9, <1>11
  <2> QED
    BY <1>4, <1>6, <2>1 DEF Before
<1>12. \A j \in Item : fate'[j].to \in Id => fate[j].to \in Id
  BY <1>2, <1>4
<1> QED
  BY <1>1, <1>7, <1>10, <1>11, <1>12 DEF QueueStep

\* The first item that will do goes to a request or to another program.
LEMMA DeliverStep ==
  ASSUME QueueTypes, QueueInv, NEW to \in Id \cup {Taker}, NEW wanted \in AnyKey,
         Q!Deliver(to, wanted)
  PROVE  /\ QueueStep /\ waiting' = waiting /\ open' = open /\ open
         /\ \E n \in DOMAIN pending :
              LET i == pending[n].ref
              IN  /\ i \in Item /\ fate[i].state = "pending"
                  /\ Accepts(wanted, pending[n].key)
                  /\ fate' = [fate EXCEPT ![i] = Q!Given(to, wanted)]
                  /\ \A m \in DOMAIN pending' :
                       Accepts(wanted, pending'[m].key) => i < pending'[m].ref
<1>1. PICK n \in DOMAIN pending :
        /\ Accepts(wanted, pending[n].key)
        /\ \A m \in 1..(n - 1) : ~ Accepts(wanted, pending[m].key)
        /\ pending' = RemoveAt(pending, n)
        /\ fate' = [fate EXCEPT ![pending[n].ref] = Q!Given(to, wanted)]
  BY SameMatching DEF Q!Deliver, Q!IsFirstItem
<1>2. waiting' = waiting /\ open' = open /\ open
  BY DEF Q!Deliver
<1> DEFINE i == pending[n].ref
           g == Q!Given(to, wanted)
           old(m) == IF m < n THEN m ELSE m + 1
<1>3. i \in Item /\ fate[i].state = "pending" /\ \A m \in DOMAIN pending : pending[m].ref \in Item
  BY ListEntry DEF QueueTypes, QueueInv
<1>4. g \in Q!Fate /\ g.state = "given"
  BY Fates
<1>5. fate' = [fate EXCEPT ![i] = g]
  BY <1>1
<1> HIDE DEF g
<1>6. fate' \in [Item -> Q!Fate] /\ fate'[i] = g /\ \A j \in Item : j # i => fate'[j] = fate[j]
  BY <1>3, <1>4, <1>5 DEF QueueTypes
<1>7. /\ pending' \in ListOf(Item)
      /\ \A m \in DOMAIN pending' :
           old(m) \in DOMAIN pending /\ old(m) # n /\ pending'[m] = pending[old(m)]
      /\ \A m, l \in DOMAIN pending' : m < l => old(m) < old(l)
  BY <1>1, Removed DEF QueueTypes
<1>8. DOMAIN pending \subseteq Nat \ {0}
  BY LenProperties DEF QueueTypes, ListOf
<1> HIDE DEF old
<1>9. QueueTypes'
  BY <1>2, <1>6, <1>7 DEF QueueTypes
<1>10. \A m, l \in DOMAIN pending : m # l => pending[m].ref # pending[l].ref
  <2> SUFFICES ASSUME NEW m \in DOMAIN pending, NEW l \in DOMAIN pending, m # l
               PROVE  pending[m].ref # pending[l].ref
    OBVIOUS
  <2>1. m < l \/ l < m
    BY <1>8
  <2>2. pending[m].ref < pending[l].ref \/ pending[l].ref < pending[m].ref
    BY <2>1 DEF QueueInv
  <2>3. pending[m].ref \in Int /\ pending[l].ref \in Int
    BY <1>3, Items
  <2> HIDE DEF i
  <2> QED
    BY <2>2, <2>3
<1>11. \A m \in DOMAIN pending' : pending'[m].ref # i
  BY <1>7, <1>10
<1>12. QueueInv'
  <2>1. \A m \in DOMAIN pending' : fate'[pending'[m].ref].state = "pending"
    BY <1>3, <1>6, <1>7, <1>11 DEF QueueInv
  <2>2. \A m, l \in DOMAIN pending' : m < l => pending'[m].ref < pending'[l].ref
    BY <1>7 DEF QueueInv
  <2>3. \A a, b \in Item : b < a /\ fate'[b].state = "new" => fate'[a].state = "new"
    BY <1>3, <1>4, <1>6 DEF QueueInv
  <2>4. \A m \in DOMAIN waiting', l \in DOMAIN pending' :
           ~ Accepts(waiting'[m].key, pending'[l].key)
    BY <1>2, <1>7 DEF QueueInv
  <2> QED
    BY <2>1, <2>2, <2>3, <2>4 DEF QueueInv
<1>13. \A j \in Item : fate[j].state = "given" =>
         fate'[j] = fate[j] /\ \A h \in Handler : Before(j, h) => Before(j, h)'
  BY <1>3, <1>6, <1>7 DEF Before
<1>14. \A j \in Item : fate'[j].to \in Id /\ fate[j].to \notin Id => fate'[j].state = "given"
  BY <1>4, <1>6
<1>15. ASSUME NEW m \in DOMAIN pending', Accepts(wanted, pending'[m].key)
       PROVE  i < pending'[m].ref
  <2>1. old(m) \notin 1..(n - 1)
    BY <1>1, <1>7, <1>15
  <2>2. n < old(m)
    BY <1>7, <1>8, <2>1
  <2> QED
    BY <1>7, <2>2 DEF QueueInv
<1>16. QueueStep
  BY <1>9, <1>12, <1>13, <1>14 DEF QueueStep
<1> QED
  BY <1>1, <1>2, <1>3, <1>15, <1>16

\* A request waits, since nothing that is pending will do.
LEMMA WaitStep ==
  ASSUME QueueTypes, QueueInv, NEW w \in Id, NEW wanted \in AnyKey, Q!Wait(w, wanted)
  PROVE  /\ QueueStep /\ waiting' = Append(waiting, Entry(w, wanted)) /\ fate' = fate
         /\ open' = open /\ open
<1>1. /\ \A n \in DOMAIN pending : ~ Accepts(wanted, pending[n].key)
      /\ waiting' = Append(waiting, Entry(w, wanted))
      /\ pending' = pending /\ fate' = fate /\ open' = open /\ open
  BY SameMatching DEF Q!Wait
<1> DEFINE last == Len(waiting) + 1
<1>2. Entry(w, wanted) \in [ref : Id, key : AnyKey] /\ Entry(w, wanted).key = wanted
  BY DEF Entry
<1>3. /\ waiting' \in ListOf(Id)
      /\ DOMAIN waiting' = DOMAIN waiting \cup {last}
      /\ \A m \in DOMAIN waiting : waiting'[m] = waiting[m]
      /\ waiting'[last].key = wanted
  <2>1. waiting \in Seq([ref : Id, key : AnyKey])
    BY DEF QueueTypes, ListOf
  <2> QED
    BY <1>1, <1>2, <2>1, Appended DEF ListOf
<1> HIDE DEF last
<1>4. QueueTypes'
  BY <1>1, <1>3 DEF QueueTypes
<1>5. QueueInv'
  <2>1. \A m \in DOMAIN waiting', n \in DOMAIN pending :
           ~ Accepts(waiting'[m].key, pending[n].key)
    BY <1>1, <1>3 DEF QueueInv
  <2> QED
    BY <1>1, <2>1 DEF QueueInv
<1> QED
  BY <1>1, <1>4, <1>5 DEF QueueStep, Before

\* The queue goes away.
LEMMA CloseStep ==
  ASSUME QueueTypes, QueueInv, Q!Close
  PROVE  /\ QueueStep /\ waiting' = << >> /\ ~ open'
         /\ \A j \in Item : fate'[j].to \in Id => fate[j].to \in Id
<1> DEFINE g == Q!Undelivered("destroyed")
           left == { j \in Item : \E n \in DOMAIN pending : pending[n].ref = j }
<1>1. /\ pending' = << >> /\ waiting' = << >> /\ open' = FALSE
      /\ fate' = [j \in Item |-> IF j \in left THEN g ELSE fate[j]]
  BY DEF Q!Close
<1>2. \A j \in left : fate[j].state = "pending"
  BY DEF QueueInv
<1>3. g \in Q!Fate /\ g.state = "destroyed" /\ g.to \notin Id
  BY Fates, Items
<1> HIDE DEF g, left
<1>4. /\ fate' \in [Item -> Q!Fate]
      /\ \A j \in Item : fate'[j] = IF j \in left THEN g ELSE fate[j]
  BY <1>1, <1>3 DEF QueueTypes
<1>5. QueueTypes'
  <2>1. << >> \in ListOf(Item) /\ << >> \in ListOf(Id)
    BY EmptySeq DEF ListOf
  <2>2. open' \in BOOLEAN
    BY <1>1
  <2> QED
    BY <1>1, <1>4, <2>1, <2>2, Zenon DEF QueueTypes
<1>6. \A a, b \in Item : b < a /\ fate'[b].state = "new" => fate'[a].state = "new"
  BY <1>2, <1>3, <1>4 DEF QueueInv
<1>7. QueueInv'
  BY <1>1, <1>6 DEF QueueInv
<1>8. \A j \in Item : fate[j].state = "given" => fate'[j] = fate[j]
  BY <1>2, <1>4
<1>9. \A j \in Item, h \in Handler : Before(j, h)'
  BY <1>1 DEF Before
<1>10. \A j \in Item : fate'[j].to \in Id => fate[j].to \in Id
  BY <1>3, <1>4
<1> QED
  BY <1>1, <1>5, <1>7, <1>8, <1>9, <1>10 DEF QueueStep

\* Nobody touches the queue.
LEMMA QueueKept ==
  ASSUME QueueTypes, QueueInv, UNCHANGED queue
  PROVE  QueueStep
  BY DEF queue, QueueStep, QueueTypes, QueueInv, Before

-----------------------------------------------------------------------------
(***************************************************************************)
(* Steps of the server.  The client's state and what handlers have seen    *)
(* stay as they are.                                                       *)
(***************************************************************************)
ServerKeeps == UNCHANGED << client, connection, history >>

UpType == Seq([id : 1..last_id, key : AnyKey])
DownType == Seq([id : 0..last_id, item : 0..MaxItem])

\* What the types say of identifiers, handlers and keys.
LEMMA TypeParts ==
  ASSUME TypeOK
  PROVE  /\ QueueTypes /\ up \in UpType /\ down \in DownType
         /\ last_id \in Nat /\ last_id <= MaxId /\ 1..last_id \subseteq Id
         /\ Known \subseteq 1..last_id /\ Known \subseteq Id /\ 0 \notin Known
         /\ \A id \in Known : HandlerOf(id) \in Handler /\ KeyOf[HandlerOf(id)] \in AnyKey
         /\ \A h \in Handler : KeyOf[h] \in AnyKey /\ handled[h] \in Seq(Item)
         /\ \A h \in Handler : ToSet(handled[h]) \subseteq Item
<1>1. QueueTypes /\ up \in UpType /\ down \in DownType
  BY DEF TypeOK, QueueTypes, UpType, DownType
<1>2. MaxId \in Nat /\ KeyOf \in [Handler -> AnyKey]
  BY ClientAssumption DEF ClientAssumption
<1>3. last_id \in Nat /\ last_id <= MaxId /\ 1..last_id \subseteq Id
  BY <1>2 DEF TypeOK, Id
<1>4. Known \subseteq 1..last_id
  BY DEF TypeOK, Known
<1>5. \A id \in Known : HandlerOf(id) \in Handler
  BY DEF TypeOK, Known, HandlerOf, ToSet
<1>6. \A h \in Handler : handled[h] \in Seq(Item)
  BY DEF TypeOK
<1>7. \A h \in Handler : ToSet(handled[h]) \subseteq Item
  <2> SUFFICES ASSUME NEW h \in Handler, NEW n \in DOMAIN handled[h]
               PROVE  handled[h][n] \in Item
    BY DEF ToSet
  <2> QED
    BY <1>6, LenProperties, ElementOfSeq
<1> QED
  BY <1>1, <1>2, <1>3, <1>4, <1>5, <1>6, <1>7, Items

\* What they say of messages.
LEMMA MessageTypes ==
  ASSUME TypeOK
  PROVE  /\ \A n \in DOMAIN up : up[n].id \in 1..last_id /\ up[n].key \in AnyKey
         /\ \A n \in DOMAIN down : down[n].id \in 0..last_id /\ down[n].item \in 0..MaxItem
<1>1. up \in UpType /\ down \in DownType
  BY TypeParts
<1>2. \A n \in DOMAIN up : up[n] \in [id : 1..last_id, key : AnyKey]
  BY <1>1, LenProperties, ElementOfSeq DEF UpType
<1>3. \A n \in DOMAIN down : down[n] \in [id : 0..last_id, item : 0..MaxItem]
  BY <1>1, LenProperties, ElementOfSeq DEF DownType
<1> QED
  BY <1>2, <1>3

\* What a step of the server does to all but the messages and the waits.
LEMMA ServerStep ==
  ASSUME IInv, ServerKeeps, QueueStep, up' \in UpType, down' \in DownType,
         connection # "open" => up' = << >> /\ down' = << >>,
         connection = "none" => waiting' = << >> /\ \A i \in Item : fate'[i].to \notin Id
  PROVE  TypeOK' /\ LinkInv' /\ HandlerInv' /\ QueueInv' /\ SeenInv'
<1> USE DEF ServerKeeps, client, history
<1>1. TypeOK'
  BY DEF IInv, QueueStep, QueueTypes, TypeOK, UpType, DownType
<1>2. LinkInv'
  BY DEF IInv, LinkInv, Known
<1>3. HandlerInv'
  BY DEF IInv, HandlerInv, Known, HandlerOf, Threads, Identifiers
<1>4. QueueInv'
  BY DEF QueueStep
<1>5. SeenInv'
  <2>1. \A i \in Item : fate'[i].to \in Id => fate'[i].state = "given"
    BY DEF IInv, SeenInv, QueueStep
  <2>2. ASSUME NEW h \in Handler, NEW i \in ToSet(handled[h])
        PROVE  /\ fate'[i].to \in (1..last_id) \ Known
               /\ fate'[i].key = KeyOf[h] /\ Before(i, h)'
    <3>1. i \in Item
      BY TypeParts DEF IInv
    <3>2. /\ fate[i].to \in (1..last_id) \ Known
          /\ fate[i].key = KeyOf[h] /\ Before(i, h) /\ fate[i].state = "given"
      BY <3>1, TypeParts DEF IInv, SeenInv
    <3> QED
      BY <3>1, <3>2 DEF QueueStep
  <2>3. handled' = handled /\ last_id' = last_id /\ Known' = Known
    BY DEF Known
  <2>4. \A h \in Handler : \A m, n \in DOMAIN handled[h] : m < n => handled[h][m] < handled[h][n]
    BY DEF IInv, SeenInv
  <2> QED
    BY <2>1, <2>2, <2>3, <2>4 DEF SeenInv
<1> QED
  BY <1>1, <1>2, <1>3, <1>4, <1>5

\* No answer is on its way that was not before.
LEMMA AnswersKept ==
  ASSUME IInv, ServerKeeps, QueueStep, AnswerInv, NextInv, Ids(down) \subseteq Known \cup {0},
         down' = down, \A i \in Item : fate'[i].to \in Id => fate[i].to \in Id
  PROVE  AnswerInv' /\ NextInv'
<1>1. /\ waiting_identifiers' = waiting_identifiers /\ handled' = handled
      /\ \A id : HandlerOf(id)' = HandlerOf(id)
      /\ \A i : Seen(i)' <=> Seen(i)
  BY DEF ServerKeeps, client, history, HandlerOf, Seen
<1>2. ASSUME NEW n \in DOMAIN down, down[n].id # 0
      PROVE  /\ down[n].item \in Item
             /\ fate'[down[n].item] = fate[down[n].item]
             /\ Before(down[n].item, HandlerOf(down[n].id)) =>
                  Before(down[n].item, HandlerOf(down[n].id))'
             /\ fate[down[n].item] = Q!Given(down[n].id, KeyOf[HandlerOf(down[n].id)])
  <2>1. /\ down[n].item \in Item
        /\ fate[down[n].item] = Q!Given(down[n].id, KeyOf[HandlerOf(down[n].id)])
    BY <1>2 DEF AnswerInv
  <2>2. fate[down[n].item].state = "given"
    BY <2>1, Fates
  <2>3. HandlerOf(down[n].id) \in Handler
    BY <1>2, TypeParts DEF Ids, IInv
  <2> QED
    BY <2>1, <2>2, <2>3, <1>1 DEF QueueStep
<1>3. AnswerInv'
  <2>1. \A n \in DOMAIN down : down[n].id # 0 =>
          /\ down[n].item \in Item
          /\ fate'[down[n].item] = Q!Given(down[n].id, KeyOf[HandlerOf(down[n].id)])
          /\ ~ Seen(down[n].item)
    BY <1>2 DEF AnswerInv
  <2>2. \A i \in Item : fate'[i].to \in Id => Seen(i) \/ \E n \in DOMAIN down : down[n].item = i
    BY DEF AnswerInv
  <2>3. \A n \in DOMAIN down : down[n].id = 0 => down[n].item = 0
    BY DEF AnswerInv
  <2> QED
    BY <1>1, <2>1, <2>2, <2>3 DEF AnswerInv
<1>4. NextInv'
  <2> SUFFICES ASSUME NEW n \in DOMAIN down, down[n].id # 0
               PROVE  /\ Before(down[n].item, HandlerOf(down[n].id))'
                      /\ \A i \in ToSet(handled[HandlerOf(down[n].id)]) : i < down[n].item
    BY <1>1 DEF NextInv
  <2> QED
    BY <1>2 DEF NextInv
<1> QED
  BY <1>3, <1>4

\* Item i has been given to request id, and the answer is on its way.
LEMMA AnswerAdded ==
  ASSUME IInv, ServerKeeps, QueueStep, AnswerInv, NextInv, Ids(down) \subseteq Known \cup {0},
         NEW id \in Known, NEW i \in Item, down' = Append(down, [id |-> id, item |-> i]),
         fate' = [fate EXCEPT ![i] = Q!Given(id, KeyOf[HandlerOf(id)])],
         fate[i].state # "given", Before(i, HandlerOf(id))',
         \A j \in ToSet(handled[HandlerOf(id)]) : j < i
  PROVE  AnswerInv' /\ NextInv'
<1> DEFINE e == [id |-> id, item |-> i]
           last == Len(down) + 1
<1>1. /\ handled' = handled
      /\ \A x : HandlerOf(x)' = HandlerOf(x)
      /\ \A x : Seen(x)' <=> Seen(x)
  BY DEF ServerKeeps, client, history, HandlerOf, Seen
<1>2. e \in [id : 0..last_id, item : 0..MaxItem] /\ e.id = id /\ e.item = i /\ id # 0
  <2>1. id \in 1..last_id /\ last_id \in Nat
    BY TypeParts DEF IInv
  <2>2. i \in 0..MaxItem
    BY ClientAssumption DEF ClientAssumption, Item
  <2> QED
    BY <2>1, <2>2
<1>3. /\ DOMAIN down' = DOMAIN down \cup {last}
      /\ \A m \in DOMAIN down : down'[m] = down[m]
      /\ down'[last].id = id /\ down'[last].item = i
  <2>1. down \in Seq([id : 0..last_id, item : 0..MaxItem])
    BY TypeParts DEF IInv, DownType
  <2> QED
    BY <1>2, <2>1, Appended
<1> HIDE DEF e, last
<1>4. fate \in [Item -> Q!Fate]
  BY TypeParts DEF IInv, QueueTypes
<1>5. fate'[i] = Q!Given(id, KeyOf[HandlerOf(id)]) /\ \A j \in Item : j # i => fate'[j] = fate[j]
  BY <1>4
<1>6. ASSUME NEW n \in DOMAIN down, down[n].id # 0
      PROVE  /\ down[n].item \in Item /\ ~ Seen(down[n].item)
             /\ fate'[down[n].item] = Q!Given(down[n].id, KeyOf[HandlerOf(down[n].id)])
             /\ Before(down[n].item, HandlerOf(down[n].id))'
             /\ \A j \in ToSet(handled[HandlerOf(down[n].id)]) : j < down[n].item
  <2>1. PICK it, h : it = down[n].item /\ h = HandlerOf(down[n].id)
    OBVIOUS
  <2>2. it \in Item /\ ~ Seen(it) /\ fate[it] = Q!Given(down[n].id, KeyOf[h])
    BY <1>6, <2>1 DEF AnswerInv
  <2>3. fate[it].state = "given"
    BY <2>2, Fates
  <2>4. h \in Handler
    BY <1>6, <2>1, TypeParts DEF Ids, IInv
  <2>5. Before(it, h) /\ \A j \in ToSet(handled[h]) : j < it
    BY <1>6, <2>1 DEF NextInv
  <2>6. fate'[it] = fate[it] /\ Before(it, h)'
    BY <2>2, <2>3, <2>4, <2>5 DEF QueueStep
  <2>7. down'[n].item = it /\ HandlerOf(down[n].id)' = h
    BY <1>1, <1>3, <1>6, <2>1
  <2>8. Before(down[n].item, HandlerOf(down[n].id))'
    BY <2>6, <2>7 DEF Before
  <2> QED
    BY <2>1, <2>2, <2>5, <2>6, <2>8
<1>7. ~ Seen(i)
  <2> SUFFICES ASSUME NEW g \in Handler, i \in ToSet(handled[g]) PROVE FALSE
    BY DEF Seen
  <2>1. fate[i].to \in Id
    BY TypeParts DEF IInv, SeenInv
  <2> QED
    BY <2>1 DEF IInv, SeenInv
<1>8. AnswerInv'
  <2>1. \A n \in DOMAIN down' : down'[n].id # 0 =>
          /\ down'[n].item \in Item
          /\ fate'[down'[n].item] = Q!Given(down'[n].id, KeyOf[HandlerOf(down'[n].id)])
          /\ ~ Seen(down'[n].item)
    <3> SUFFICES ASSUME NEW n \in DOMAIN down', down'[n].id # 0
                 PROVE  /\ down'[n].item \in Item
                        /\ fate'[down'[n].item] = Q!Given(down'[n].id, KeyOf[HandlerOf(down'[n].id)])
                        /\ ~ Seen(down'[n].item)
      OBVIOUS
    <3>1. CASE n = last
      BY <3>1, <1>3, <1>5, <1>7
    <3>2. CASE n \in DOMAIN down
      BY <3>2, <1>3, <1>6
    <3> QED
      BY <3>1, <3>2, <1>3
  <2>2. \A j \in Item : fate'[j].to \in Id => Seen(j) \/ \E n \in DOMAIN down' : down'[n].item = j
    <3> SUFFICES ASSUME NEW j \in Item, fate'[j].to \in Id, ~ Seen(j)
                 PROVE  \E n \in DOMAIN down' : down'[n].item = j
      OBVIOUS
    <3>1. CASE j = i
      BY <3>1, <1>3
    <3>2. CASE j # i
      <4>1. PICK n \in DOMAIN down : down[n].item = j
        BY <3>2, <1>5 DEF AnswerInv
      <4> QED
        BY <4>1, <1>3
    <3> QED
      BY <3>1, <3>2
  <2>3. \A n \in DOMAIN down' : down'[n].id = 0 => down'[n].item = 0
    BY <1>2, <1>3 DEF AnswerInv
  <2>4. \A n \in DOMAIN down' : HandlerOf(down[n].id)' = HandlerOf(down'[n].id)
    BY <1>1
  <2> QED
    BY <1>1, <2>1, <2>2, <2>3, <2>4 DEF AnswerInv
<1>9. NextInv'
  <2> SUFFICES ASSUME NEW n \in DOMAIN down', down'[n].id # 0
               PROVE  /\ Before(down[n].item, HandlerOf(down[n].id))'
                      /\ \A j \in ToSet(handled[HandlerOf(down'[n].id)]) : j < down'[n].item
    BY <1>1 DEF NextInv
  <2>1. CASE n = last
    BY <2>1, <1>1, <1>3 DEF Before
  <2>2. CASE n \in DOMAIN down
    BY <2>2, <1>1, <1>3, <1>6 DEF Before
  <2> QED
    BY <2>1, <2>2, <1>3
<1> QED
  BY <1>8, <1>9

\* Where identifiers are, under a step of the server.
LEMMA ServerSame ==
  ASSUME ServerKeeps
  PROVE  /\ connection' = connection /\ Known' = Known /\ Unsent' = Unsent
         /\ \A x : HandlerOf(x)' = HandlerOf(x)
         /\ language' = language /\ last_id' = last_id /\ UpType' = UpType /\ DownType' = DownType
  BY DEF ServerKeeps, client, Known, Unsent, HandlerOf, UpType, DownType

\* What a reply adds to the answers.
LEMMA ReplyAdds ==
  ASSUME TypeOK, DistinctIds(down), NEW id \in Known, NEW i \in Item, id \notin Answers,
         down' = Append(down, [id |-> id, item |-> i])
  PROVE  down' \in DownType /\ Answers' = Answers \cup {id} /\ DistinctIds(down')
<1> DEFINE e == [id |-> id, item |-> i]
<1>1. e \in [id : 0..last_id, item : 0..MaxItem] /\ e.id = id /\ id # 0
  <2>1. id \in 1..last_id /\ last_id \in Nat
    BY TypeParts
  <2>2. i \in 0..MaxItem
    BY ClientAssumption DEF ClientAssumption, Item
  <2> QED
    BY <2>1, <2>2
<1>2. down \in Seq([id : 0..last_id, item : 0..MaxItem]) /\ down' = Append(down, e)
  BY TypeParts DEF DownType
<1> HIDE DEF e
<1>3. down' \in DownType
  BY <1>1, <1>2, AppendProperties DEF DownType
<1>4. Ids(down)' = Ids(down) \cup {id}
  <2>1. Ids(Append(down, e)) = Ids(down) \cup {e.id}
    <3>1. PICK S : S = [id : 0..last_id, item : 0..MaxItem]
      OBVIOUS
    <3>2. e \in S /\ down \in Seq(S)
      BY <1>1, <1>2, <3>1
    <3> QED
      BY ONLY <3>2, IdsAppend
  <2>2. Ids(down)' = Ids(Append(down, e))
    BY <1>2 DEF Ids
  <2> QED
    BY <1>1, <2>1, <2>2
<1>5. e.id \notin Ids(down)
  BY <1>1 DEF Answers
<1>6. DistinctIds(down')
  <2>1. DistinctIds(Append(down, e))
    BY <1>1, <1>2, <1>5, IdsAppend
  <2> QED
    BY <1>2, <2>1
<1> QED
  BY <1>1, <1>3, <1>4, <1>6 DEF Answers

\* An item goes to one that waits, with an answer while there is a connection.
LEMMA HandKeeps ==
  ASSUME IInv, ServerKeeps, up' = up, NEW i \in Item, NEW key \in AnyKey,
         \A j \in 1..(i - 1) : fate[j].state # "new", Q!Hand(i, key), Reply(i, fate'[i].to)
  PROVE  IInv'
<1>1. TypeOK /\ QueueTypes /\ QueueInv /\ LinkInv /\ up \in UpType /\ down \in DownType
  BY TypeParts DEF IInv
<1>2. PICK n \in DOMAIN waiting :
        /\ waiting' = RemoveAt(waiting, n)
        /\ fate' = [fate EXCEPT ![i] = Q!Given(waiting[n].ref, waiting[n].key)]
  BY <1>1, HandStep
<1>3. QueueStep /\ fate[i].state = "new" /\ pending' = pending /\ open' = open /\ open
  BY <1>1, HandStep
<1>20. PICK id : id = waiting[n].ref
  OBVIOUS
<1>4. connection # "none"
  BY <1>1, <1>2 DEF LinkInv
<1>5. id \in Id /\ id \in Waits /\ waiting[n].key \in AnyKey
  BY <1>1, <1>20, ListEntry DEF QueueTypes, Waits
<1>6. fate'[i].to = id
  BY <1>1, <1>2, <1>20, Fates DEF QueueTypes
<1>7. CASE connection # "open"
  <2>1. down' = down
    BY <1>7 DEF Reply
  <2> QED
    BY <1>1, <1>3, <1>4, <1>7, <2>1, ServerStep, ServerSame DEF IInv, OpenInv, LinkInv
<1>8. CASE connection = "open"
  <2>1. PlacesInv /\ KeyInv /\ AnswerInv /\ NextInv
    BY <1>8 DEF IInv, OpenInv
  <2>2. down' = Append(down, [id |-> id, item |-> i])
    BY <1>6, <1>8 DEF Reply
  <2>3. id \in Known /\ id \notin Answers /\ DistinctIds(down)
    BY <1>5, <2>1 DEF PlacesInv
  <2>4. down' \in DownType /\ Answers' = Answers \cup {id} /\ DistinctIds(down')
    <3> QED
      BY <1>1, <2>2, <2>3, ReplyAdds
  <2>5. TypeOK' /\ LinkInv' /\ HandlerInv' /\ QueueInv' /\ SeenInv'
    BY <1>1, <1>3, <1>8, <2>4, ServerStep
  <2>6. Waits' = Waits \ {id} /\ Distinct(waiting')
    <3>1. Refs(waiting') = Refs(waiting) \ {id} /\ Distinct(waiting')
      BY <1>1, <1>2, <1>20, <2>1, RemoveRefs DEF PlacesInv, QueueTypes
    <3> QED
      BY <3>1 DEF Waits, Refs
  <2>7. Ids(up)' = Ids(up) /\ DistinctIds(up)' = DistinctIds(up)
    BY DEF Ids, DistinctIds
  <2>8. PlacesInv'
    <3>1. DistinctIds(down)' /\ Distinct(waiting)' /\ DistinctIds(up)'
      BY <2>1, <2>4, <2>6, <2>7 DEF PlacesInv, DistinctIds, Distinct
    <3> QED
      BY <1>3, <1>5, <2>1, <2>3, <2>4, <2>6, <2>7, <3>1, ServerSame DEF PlacesInv
  <2>9. waiting[n].key = KeyOf[HandlerOf(id)]
    BY <1>20, <2>1 DEF KeyInv
  <2>10. KeyInv'
    <3>1. \A m \in DOMAIN waiting' : \E l \in DOMAIN waiting : waiting'[m] = waiting[l]
      BY <1>1, <1>2, Removed DEF QueueTypes
    <3>2. \A m \in DOMAIN waiting' : waiting'[m].key = KeyOf[HandlerOf(waiting'[m].ref)]
      BY <2>1, <3>1 DEF KeyInv
    <3> QED
      BY <2>1, <3>2, ServerSame DEF KeyInv
  <2>11. \A j \in ToSet(handled[HandlerOf(id)]) : j < i
    <3> SUFFICES ASSUME NEW j \in ToSet(handled[HandlerOf(id)]) PROVE j < i
      OBVIOUS
    <3>1. HandlerOf(id) \in Handler
      BY <1>1, <2>3, TypeParts
    <3>2. j \in Item /\ fate[j].state = "given"
      BY <1>1, <3>1, TypeParts DEF IInv, SeenInv
    <3>3. ~ (i < j) /\ i # j
      BY <1>1, <1>3, <3>2 DEF QueueInv
    <3> QED
      BY <3>2, <3>3, Items
  <2>12. Before(i, HandlerOf(id))'
    <3> SUFFICES ASSUME NEW m \in DOMAIN pending', Accepts(KeyOf[HandlerOf(id)], pending'[m].key)
                 PROVE  i < pending'[m].ref
      BY ServerSame DEF Before
    <3> QED
      BY <1>1, <1>3, <2>9 DEF QueueInv
  <2>13. AnswerInv' /\ NextInv'
    <3>1. Ids(down) \subseteq Known \cup {0}
      BY <2>1 DEF PlacesInv, Answers
    <3>2. fate[i].state # "given" /\ fate' = [fate EXCEPT ![i] = Q!Given(id, KeyOf[HandlerOf(id)])]
      BY <1>2, <1>3, <1>20, <2>9
    <3> QED
      BY <1>3, <2>1, <2>2, <2>3, <2>11, <2>12, <3>1, <3>2, AnswerAdded
  <2> QED
    BY <2>5, <2>8, <2>10, <2>13 DEF IInv, OpenInv
<1> QED
  BY <1>7, <1>8

\* An item is stored or taken by another program, or the queue goes.
LEMMA OthersKeep ==
  ASSUME IInv, ServerKeeps, QueueStep, up' = up, down' = down,
         \A i \in Item : fate'[i].to \in Id => fate[i].to \in Id,
         \/ waiting' = waiting /\ open' = open
         \/ waiting' = << >> /\ ~ open'
  PROVE  IInv'
<1>1. TypeOK /\ LinkInv /\ up \in UpType /\ down \in DownType
  BY TypeParts DEF IInv
<1>2. TypeOK' /\ LinkInv' /\ HandlerInv' /\ QueueInv' /\ SeenInv'
  BY <1>1, ServerStep DEF LinkInv
<1>3. ASSUME connection = "open"
      PROVE  PlacesInv' /\ KeyInv' /\ AnswerInv' /\ NextInv'
  <2>1. PlacesInv /\ KeyInv /\ AnswerInv /\ NextInv
    BY <1>3 DEF IInv, OpenInv
  <2>2. AnswerInv' /\ NextInv'
    <3>1. Ids(down) \subseteq Known \cup {0}
      BY <2>1 DEF PlacesInv, Answers
    <3> QED
      BY <2>1, <3>1, AnswersKept
  <2>3. /\ Ids(up)' = Ids(up) /\ Answers' = Answers
        /\ DistinctIds(up)' /\ DistinctIds(down)'
    BY <2>1 DEF Ids, Answers, DistinctIds, PlacesInv
  <2>4. KeyInv'
    <3>1. \A n \in DOMAIN waiting' : waiting'[n].key = KeyOf[HandlerOf(waiting'[n].ref)]
      BY <2>1 DEF KeyInv
    <3> QED
      BY <2>1, <3>1, ServerSame DEF KeyInv
  <2>5. CASE waiting' = waiting /\ open' = open
    <3>1. Waits' = Waits /\ Distinct(waiting)'
      BY <2>1, <2>5 DEF Waits, Distinct, PlacesInv
    <3>2. PlacesInv'
      BY <2>1, <2>3, <2>5, <3>1, ServerSame DEF PlacesInv
    <3> QED
      BY <2>2, <2>4, <3>2
  <2>6. CASE waiting' = << >> /\ ~ open'
    <3>1. Waits' = {} /\ Distinct(waiting)'
      BY <2>6 DEF Waits, Distinct
    <3>2. PlacesInv'
      BY <2>1, <2>3, <2>6, <3>1, ServerSame DEF PlacesInv
    <3> QED
      BY <2>2, <2>4, <3>2
  <2> QED
    BY <2>5, <2>6
<1> QED
  BY <1>2, <1>3, ServerSame DEF IInv, OpenInv

\* Some program puts an item.
LEMMA PutKeeps ==
  ASSUME IInv, NEW i \in Item, NEW key \in AnyKey, Put(i, key)
  PROVE  IInv'
<1>1. TypeOK /\ QueueTypes /\ QueueInv
  BY TypeParts DEF IInv
<1>2. ServerKeeps /\ up' = up /\ \A j \in 1..(i - 1) : fate[j].state # "new"
  BY DEF Put, ServerKeeps
<1>3. CASE Q!Hand(i, key) /\ Reply(i, fate'[i].to)
  BY <1>2, <1>3, HandKeeps
<1>4. CASE Q!Store(i, key) /\ UNCHANGED down
  BY <1>1, <1>2, <1>4, StoreStep, OthersKeep
<1> QED
  BY <1>3, <1>4 DEF Put

\* Some program takes an item.
LEMMA TakeKeeps ==
  ASSUME IInv, NEW key \in AnyKey, Take(key)
  PROVE  IInv'
<1>1. TypeOK /\ QueueTypes /\ QueueInv
  BY TypeParts DEF IInv
<1>2. ServerKeeps /\ up' = up /\ down' = down /\ Q!Deliver(Taker, key)
  BY DEF Take, ServerKeeps, channel
<1>3. PICK n \in DOMAIN pending :
        pending[n].ref \in Item /\ fate' = [fate EXCEPT ![pending[n].ref] = Q!Given(Taker, key)]
  BY <1>1, <1>2, DeliverStep
<1>4. \A i \in Item : fate'[i].to \in Id => fate[i].to \in Id
  BY <1>1, <1>3, Fates, Items DEF QueueTypes
<1>5. QueueStep /\ waiting' = waiting /\ open' = open
  BY <1>1, <1>2, DeliverStep
<1> QED
  BY <1>2, <1>4, <1>5, OthersKeep

\* Some program deletes the queue.
LEMMA DeleteKeeps ==
  ASSUME IInv, Delete
  PROVE  IInv'
<1>1. TypeOK /\ QueueTypes /\ QueueInv
  BY TypeParts DEF IInv
<1>2. ServerKeeps /\ up' = up /\ down' = down /\ Q!Close
  BY DEF Delete, ServerKeeps, channel
<1> QED
  BY <1>1, <1>2, CloseStep, OthersKeep

\* A request is read.
LEMMA ReadKeeps ==
  ASSUME IInv, ReadRequest
  PROVE  IInv'
<1>1. PICK id, key : id = Head(up).id /\ key = Head(up).key
  OBVIOUS
<1>2. /\ TypeOK /\ QueueTypes /\ QueueInv /\ LinkInv /\ SeenInv
      /\ PlacesInv /\ KeyInv /\ AnswerInv /\ NextInv
      /\ up \in UpType /\ down \in DownType /\ ServerKeeps /\ connection = "open"
  BY TypeParts DEF IInv, OpenInv, ReadRequest, ServerKeeps
<1>3. /\ up # << >> /\ up' = Tail(up)
      /\ Head(up) = up[1] /\ 1 \in DOMAIN up /\ up' \in UpType
      /\ \A n \in DOMAIN up' : n + 1 \in DOMAIN up /\ up'[n] = up[n + 1]
  <2>1. up # << >> /\ up' = Tail(up)
    BY DEF ReadRequest
  <2> QED
    BY <1>2, <2>1, TailMessages DEF UpType
<1>4. id \in Id /\ key \in AnyKey /\ id # 0 /\ id \in Ids(up)
  BY <1>1, <1>2, <1>3, TypeParts, MessageTypes, Items DEF Ids
<1>5. Ids(up') = Ids(up) \ {id} /\ DistinctIds(up')
  BY <1>1, <1>2, <1>3, <1>4, IdsTail DEF PlacesInv, UpType
<1>6. /\ id \in Known /\ id \notin Unsent /\ id \notin Waits /\ id \notin Answers
      /\ key = KeyOf[HandlerOf(id)]
  BY <1>1, <1>2, <1>3, <1>4 DEF PlacesInv, KeyInv
<1>7. Ids(up)' = Ids(up) \ {id} /\ DistinctIds(up)'
  BY <1>5 DEF Ids, DistinctIds
<1>8. \A n \in DOMAIN up' : up'[n].key = KeyOf[HandlerOf(up'[n].id)]
  BY <1>2, <1>3 DEF KeyInv
<1>9. Ids(down) \subseteq Known \cup {0}
  BY <1>2 DEF PlacesInv, Answers
<1>10. CASE Q!Deliver(id, key) /\ \E i \in Item : fate'[i].to = id /\ Reply(i, id)
  <2>1. PICK i \in Item : fate'[i].to = id /\ down' = Append(down, [id |-> id, item |-> i])
    BY <1>2, <1>10 DEF Reply
  <2>2. QueueStep /\ waiting' = waiting /\ open' = open /\ open
    BY <1>2, <1>4, <1>10, DeliverStep
  <2>3. PICK n \in DOMAIN pending :
          LET j == pending[n].ref
          IN  /\ j \in Item /\ fate[j].state = "pending"
              /\ Accepts(key, pending[n].key)
              /\ fate' = [fate EXCEPT ![j] = Q!Given(id, key)]
              /\ \A m \in DOMAIN pending' : Accepts(key, pending'[m].key) => j < pending'[m].ref
    BY <1>2, <1>4, <1>10, DeliverStep
  <2>4. pending[n].ref = i
    <3> SUFFICES ASSUME pending[n].ref # i PROVE FALSE
      OBVIOUS
    <3>1. fate'[i] = fate[i]
      BY <1>2, <2>3 DEF QueueTypes
    <3>2. fate[i].to = id
      BY <2>1, <3>1
    <3>3. CASE Seen(i)
      BY <1>2, <1>6, <3>2, <3>3 DEF SeenInv, Seen
    <3>4. ASSUME NEW m \in DOMAIN down, down[m].item = i PROVE FALSE
      <4>1. down[m].id # 0
        BY <1>2, <3>4, Items DEF AnswerInv
      <4>2. fate[i] = Q!Given(down[m].id, KeyOf[HandlerOf(down[m].id)])
        BY <1>2, <3>4, <4>1 DEF AnswerInv
      <4>3. down[m].id = id
        BY <3>2, <4>2, Fates
      <4> QED
        BY <1>6, <4>1, <4>3 DEF Answers, Ids
    <3> QED
      BY <1>2, <1>4, <3>2, <3>3, <3>4 DEF AnswerInv
  <2>5. down' \in DownType /\ Answers' = Answers \cup {id} /\ DistinctIds(down')
    BY <1>2, <1>6, <2>1, ReplyAdds DEF PlacesInv
  <2>6. TypeOK' /\ LinkInv' /\ HandlerInv' /\ QueueInv' /\ SeenInv'
    BY <1>2, <1>3, <2>2, <2>5, ServerStep
  <2>7. Waits' = Waits /\ Distinct(waiting)' /\ DistinctIds(down)'
    BY <1>2, <2>2, <2>5 DEF Waits, Distinct, PlacesInv, DistinctIds
  <2>8. PlacesInv'
    BY <1>2, <1>4, <1>6, <1>7, <2>2, <2>5, <2>7, ServerSame DEF PlacesInv
  <2>9. KeyInv'
    <3>1. \A m \in DOMAIN waiting' : waiting'[m].key = KeyOf[HandlerOf(waiting'[m].ref)]
      BY <1>2, <2>2 DEF KeyInv
    <3> QED
      BY <1>2, <1>8, <3>1, ServerSame DEF KeyInv
  <2>10. \A j \in ToSet(handled[HandlerOf(id)]) : j < i
    <3> SUFFICES ASSUME NEW j \in ToSet(handled[HandlerOf(id)]) PROVE j < i
      OBVIOUS
    <3>1. Before(j, HandlerOf(id))
      BY <1>2, <1>6, TypeParts DEF SeenInv
    <3> QED
      BY <1>6, <2>3, <2>4, <3>1 DEF Before
  <2>11. Before(i, HandlerOf(id))'
    <3> SUFFICES ASSUME NEW m \in DOMAIN pending', Accepts(KeyOf[HandlerOf(id)], pending'[m].key)
                 PROVE  i < pending'[m].ref
      BY <1>2, ServerSame DEF Before
    <3> QED
      BY <1>6, <2>3, <2>4
  <2>12. fate[i].state # "given" /\ fate' = [fate EXCEPT ![i] = Q!Given(id, KeyOf[HandlerOf(id)])]
    BY <1>6, <2>3, <2>4
  <2>13. AnswerInv' /\ NextInv'
    BY <1>2, <1>6, <1>9, <2>1, <2>2, <2>10, <2>11, <2>12, AnswerAdded
  <2> QED
    BY <2>6, <2>8, <2>9, <2>13 DEF IInv, OpenInv
<1>11. CASE Q!Wait(id, key) /\ UNCHANGED down
  <2>1. QueueStep /\ waiting' = Append(waiting, Entry(id, key)) /\ fate' = fate
        /\ open' = open /\ open
    BY <1>2, <1>4, <1>11, WaitStep
  <2>2. TypeOK' /\ LinkInv' /\ HandlerInv' /\ QueueInv' /\ SeenInv'
    BY <1>2, <1>3, <1>11, <2>1, ServerStep
  <2>3. Waits' = Waits \cup {id} /\ Distinct(waiting)'
    <3>1. id \notin Refs(waiting)
      BY <1>6 DEF Waits, Refs
    <3>2. Refs(waiting') = Refs(waiting) \cup {id} /\ Distinct(waiting')
      BY <1>2, <1>4, <2>1, <3>1, AppendRefs DEF PlacesInv, QueueTypes
    <3> QED
      BY <3>2 DEF Waits, Refs, Distinct
  <2>4. Answers' = Answers /\ DistinctIds(down)'
    BY <1>2, <1>11 DEF Answers, Ids, DistinctIds, PlacesInv
  <2>5. PlacesInv'
    BY <1>2, <1>4, <1>6, <1>7, <2>1, <2>3, <2>4, ServerSame DEF PlacesInv
  <2>6. KeyInv'
    <3>1. \A m \in DOMAIN waiting' : waiting'[m].key = KeyOf[HandlerOf(waiting'[m].ref)]
      <4>1. LET last == Len(waiting) + 1
            IN  /\ DOMAIN waiting' = DOMAIN waiting \cup {last}
                /\ \A m \in DOMAIN waiting : waiting'[m] = waiting[m]
                /\ waiting'[last].ref = id /\ waiting'[last].key = key
        BY <1>2, <1>4, <2>1, AppendEntry DEF QueueTypes
      <4> QED
        BY <1>2, <1>6, <4>1 DEF KeyInv
    <3> QED
      BY <1>2, <1>8, <3>1, ServerSame DEF KeyInv
  <2>7. AnswerInv' /\ NextInv'
    BY <1>2, <1>9, <1>11, <2>1, AnswersKept
  <2> QED
    BY <2>2, <2>5, <2>6, <2>7 DEF IInv, OpenInv
<1>12. CASE ~ open /\ down' = Append(down, Error) /\ UNCHANGED queue
  <2>1. QueueStep /\ waiting' = waiting /\ open' = open /\ fate' = fate /\ pending' = pending
    BY <1>2, <1>12, QueueKept DEF queue
  <2>2. Error \in [id : 0..last_id, item : 0..MaxItem] /\ Error.id = 0 /\ Error.item = 0
    <3>1. last_id \in Nat /\ MaxItem \in Nat
      BY <1>2, TypeParts, ClientAssumption DEF ClientAssumption
    <3> QED
      BY <3>1 DEF Error
  <2>3. /\ down' \in DownType
        /\ DOMAIN down' = DOMAIN down \cup {Len(down) + 1}
        /\ \A m \in DOMAIN down : down'[m] = down[m]
        /\ down'[Len(down) + 1] = Error
    BY <1>2, <1>12, <2>2, Appended DEF DownType
  <2>4. Answers' = Answers /\ DistinctIds(down)'
    <3>1. Ids(down') = Ids(down) \cup {0} /\ DistinctIds(down')
      <4>1. PICK S, e : S = [id : 0..last_id, item : 0..MaxItem] /\ e = Error
        OBVIOUS
      <4>2. DistinctIds(down) /\ down \in Seq(S) /\ e \in S /\ e.id = 0
        BY <1>2, <2>2, <4>1 DEF DownType, PlacesInv
      <4>3. Ids(Append(down, e)) = Ids(down) \cup {e.id} /\ DistinctIds(Append(down, e))
        BY ONLY <4>2, IdsAppend
      <4> QED
        BY <1>12, <4>1, <4>2, <4>3
    <3> QED
      BY <3>1 DEF Answers, Ids, DistinctIds
  <2>5. TypeOK' /\ LinkInv' /\ HandlerInv' /\ QueueInv' /\ SeenInv'
    BY <1>2, <1>3, <2>1, <2>3, ServerStep
  <2>6. PlacesInv'
    <3>1. Waits' = Waits /\ Distinct(waiting)'
      BY <1>2, <2>1 DEF Waits, Distinct, PlacesInv
    <3> QED
      BY <1>2, <1>7, <1>12, <2>1, <2>4, <3>1, ServerSame DEF PlacesInv
  <2>7. KeyInv'
    <3>1. \A m \in DOMAIN waiting' : waiting'[m].key = KeyOf[HandlerOf(waiting'[m].ref)]
      BY <1>2, <2>1 DEF KeyInv
    <3> QED
      BY <1>2, <1>8, <3>1, ServerSame DEF KeyInv
  <2>8. /\ \A x : HandlerOf(x)' = HandlerOf(x)
        /\ \A x : Seen(x)' <=> Seen(x)
        /\ \A x, h : Before(x, h)' <=> Before(x, h)
        /\ handled' = handled
    BY <1>2, <2>1, ServerSame DEF ServerKeeps, history, Seen, Before
  <2>9. AnswerInv'
    <3>1. /\ \A n \in DOMAIN down' : down'[n].id # 0 =>
               /\ down'[n].item \in Item
               /\ fate[down'[n].item] = Q!Given(down'[n].id, KeyOf[HandlerOf(down'[n].id)])
               /\ ~ Seen(down'[n].item)
          /\ \A n \in DOMAIN down' : down'[n].id = 0 => down'[n].item = 0
      BY <1>2, <2>2, <2>3 DEF AnswerInv
    <3>2. \A i \in Item : fate[i].to \in Id => Seen(i) \/ \E n \in DOMAIN down' : down'[n].item = i
      BY <1>2, <2>3 DEF AnswerInv
    <3> QED
      BY <2>1, <2>8, <3>1, <3>2 DEF AnswerInv
  <2>10. NextInv'
    <3>1. \A n \in DOMAIN down' : down'[n].id # 0 =>
            /\ Before(down'[n].item, HandlerOf(down'[n].id))
            /\ \A i \in ToSet(handled[HandlerOf(down'[n].id)]) : i < down'[n].item
      BY <1>2, <2>2, <2>3 DEF NextInv
    <3> QED
      BY <2>8, <3>1 DEF NextInv
  <2> QED
    BY <2>5, <2>6, <2>7, <2>9, <2>10 DEF IInv, OpenInv
<1> QED
  BY <1>1, <1>10, <1>11, <1>12 DEF ReadRequest

-----------------------------------------------------------------------------
(***************************************************************************)
(* Steps of the client.  The queue stays as it is.                         *)
(***************************************************************************)
\* What is said of the queue alone stays true.
LEMMA SameQueue ==
  ASSUME UNCHANGED queue
  PROVE  /\ pending' = pending /\ waiting' = waiting /\ fate' = fate /\ open' = open
         /\ QueueInv' = QueueInv
         /\ \A i, h : Before(i, h)' <=> Before(i, h)
         /\ Waits' = Waits /\ Distinct(waiting)' = Distinct(waiting)
  BY DEF queue, QueueInv, Before, Waits, Distinct

\* What is said of the items that were seen stays true.
LEMMA SameSeen ==
  ASSUME UNCHANGED << queue, handled, waiting_identifiers, last_id >>, SeenInv
  PROVE  SeenInv'
  BY DEF queue, SeenInv, Before, Known

\* The connection ends.
LEMMA CloseKeeps ==
  ASSUME IInv, NEW state \in {"closed", "ended"}, Close(state),
         UNCHANGED << client, queue, history >>
  PROVE  IInv'
<1>1. connection' = state /\ up' = << >> /\ down' = << >>
  BY DEF Close
<1>2. << >> \in UpType /\ << >> \in DownType
  BY EmptySeq DEF UpType, DownType
<1>3. TypeOK'
  BY <1>1, <1>2 DEF IInv, TypeOK, client, queue, history, UpType, DownType
<1>4. LinkInv'
  BY <1>1 DEF IInv, LinkInv, client
<1>5. HandlerInv'
  BY DEF IInv, HandlerInv, client, history, Known, HandlerOf, Threads, Identifiers
<1>6. QueueInv' /\ SeenInv'
  BY SameQueue, SameSeen DEF IInv, client, history
<1>7. OpenInv'
  BY <1>1 DEF OpenInv
<1> QED
  BY <1>3, <1>4, <1>5, <1>6, <1>7 DEF IInv

\* The connection is lost.
LEMMA DisconnectKeeps ==
  ASSUME IInv, Disconnect
  PROVE  IInv'
  BY CloseKeeps DEF Disconnect

\* A handler is registered.
LEMMA QueueHandlerKeeps ==
  ASSUME IInv, NEW h \in Handler, QueueHandler(h)
  PROVE  IInv'
<1>1. /\ waiting_handlers \in Seq(Handler) /\ waiting_handlers' = Append(waiting_handlers, h)
      /\ \A n \in DOMAIN waiting_handlers : waiting_handlers[n] # h
      /\ UNCHANGED << language, waiting_identifiers, running, last_id, channel, queue, history >>
  BY DEF IInv, TypeOK, QueueHandler
<1>2. /\ waiting_handlers' \in Seq(Handler)
      /\ DOMAIN waiting_handlers' = DOMAIN waiting_handlers \cup {Len(waiting_handlers) + 1}
      /\ \A m \in DOMAIN waiting_handlers : waiting_handlers'[m] = waiting_handlers[m]
      /\ waiting_handlers'[Len(waiting_handlers) + 1] = h
  BY <1>1, Appended
<1>3. TypeOK'
  BY <1>1, <1>2 DEF IInv, TypeOK, channel, queue, history
<1>4. LinkInv'
  <2>1. \A m, n \in DOMAIN waiting_handlers' :
           waiting_handlers'[m] = waiting_handlers'[n] => m = n
    BY <1>1, <1>2 DEF IInv, LinkInv
  <2> QED
    BY <1>1, <2>1 DEF IInv, LinkInv, channel, queue, history, Known
<1>5. HandlerInv'
  BY <1>1 DEF IInv, HandlerInv, history, Known, HandlerOf, Threads, Identifiers
<1>6. QueueInv' /\ SeenInv'
  BY <1>1, SameQueue, SameSeen DEF IInv, history
<1>7. OpenInv'
  <2>1. /\ PlacesInv' = PlacesInv
    BY <1>1 DEF PlacesInv, channel, queue, Known, Ids, Answers, Waits, Unsent, DistinctIds, Distinct
  <2>2. KeyInv' = KeyInv
    BY <1>1 DEF KeyInv, channel, queue, HandlerOf
  <2>3. AnswerInv' = AnswerInv
    BY <1>1 DEF AnswerInv, channel, queue, history, HandlerOf, Seen
  <2>4. NextInv' = NextInv
    BY <1>1 DEF NextInv, channel, queue, history, HandlerOf, Before
  <2> QED
    BY <1>1, <2>1, <2>2, <2>3, <2>4 DEF IInv, OpenInv, channel
<1> QED
  BY <1>3, <1>4, <1>5, <1>6, <1>7 DEF IInv

\* An error arrives: it is dropped, or ends the connection.
LEMMA ErrorKeeps ==
  ASSUME IInv, NotifyError
  PROVE  IInv'
<1>1. /\ connection = "open" /\ down # << >> /\ Head(down) = Error
      /\ UNCHANGED << client, queue, history >>
  BY DEF NotifyError
<1>2. CASE Close("closed") \/ Close("ended")
  BY <1>1, <1>2, CloseKeeps
<1>3. CASE down' = Tail(down) /\ UNCHANGED << connection, up >>
  <2>1. /\ TypeOK /\ QueueTypes /\ QueueInv /\ ServerKeeps
        /\ PlacesInv /\ KeyInv /\ AnswerInv /\ NextInv /\ down \in DownType /\ up \in UpType
    BY <1>1, <1>3, TypeParts DEF IInv, OpenInv, ServerKeeps
  <2>2. /\ Head(down) = down[1] /\ Error.id = 0 /\ Error.item = 0
        /\ down' \in DownType
        /\ \A n \in DOMAIN down' : n + 1 \in DOMAIN down /\ down'[n] = down[n + 1]
        /\ \A n \in DOMAIN down \ {1} : n - 1 \in DOMAIN down' /\ down[n] = down'[n - 1]
    <3>1. down' = Tail(down) /\ down # << >> /\ Error.id = 0 /\ Error.item = 0
      BY <1>1, <1>3 DEF Error
    <3> QED
      BY <2>1, <3>1, TailMessages DEF DownType
  <2>3. TypeOK' /\ LinkInv' /\ HandlerInv' /\ QueueInv' /\ SeenInv'
    <3>1. QueueStep
      BY <1>1, <2>1, QueueKept
    <3> QED
      BY <1>1, <1>3, <2>1, <2>2, <3>1, ServerStep
  <2>4. Answers' = Answers /\ DistinctIds(down)'
    <3>1. Ids(down) = {Head(down).id} \cup Ids(Tail(down)) /\ DistinctIds(Tail(down))
      BY <1>1, <2>1, IdsTail DEF DownType, PlacesInv
    <3> QED
      BY <1>1, <1>3, <2>2, <3>1 DEF Answers, Ids, DistinctIds
  <2>5. PlacesInv'
    <3>1. Ids(up)' = Ids(up) /\ DistinctIds(up)'
      BY <1>3, <2>1 DEF Ids, DistinctIds, PlacesInv
    <3> QED
      BY <1>1, <2>1, <2>4, <3>1, SameQueue, ServerSame DEF PlacesInv
  <2>6. KeyInv'
    BY <1>1, <1>3, <2>1 DEF KeyInv, client, queue, HandlerOf
  <2>7. /\ fate' = fate /\ handled' = handled
        /\ \A x : HandlerOf(x)' = HandlerOf(x)
        /\ \A x : Seen(x)' <=> Seen(x)
        /\ \A x, h : Before(x, h)' <=> Before(x, h)
    BY <1>1, SameQueue DEF client, history, HandlerOf, Seen
  <2>8. AnswerInv'
    <3>1. /\ \A n \in DOMAIN down' : down'[n].id # 0 =>
               /\ down'[n].item \in Item
               /\ fate[down'[n].item] = Q!Given(down'[n].id, KeyOf[HandlerOf(down'[n].id)])
               /\ ~ Seen(down'[n].item)
          /\ \A n \in DOMAIN down' : down'[n].id = 0 => down'[n].item = 0
      BY <2>1, <2>2 DEF AnswerInv
    <3>2. ASSUME NEW i \in Item, fate[i].to \in Id, ~ Seen(i)
          PROVE  \E n \in DOMAIN down' : down'[n].item = i
      <4>1. PICK n \in DOMAIN down : down[n].item = i
        BY <2>1, <3>2 DEF AnswerInv
      <4>2. n # 1
        BY <1>1, <2>2, <4>1, Items
      <4> QED
        BY <2>2, <4>1, <4>2
    <3> QED
      BY <2>7, <3>1, <3>2 DEF AnswerInv
  <2>9. NextInv'
    <3>1. \A n \in DOMAIN down' : down'[n].id # 0 =>
            /\ Before(down'[n].item, HandlerOf(down'[n].id))
            /\ \A i \in ToSet(handled[HandlerOf(down'[n].id)]) : i < down'[n].item
      BY <2>1, <2>2 DEF NextInv
    <3> QED
      BY <2>7, <3>1 DEF NextInv
  <2> QED
    BY <2>3, <2>5, <2>6, <2>8, <2>9 DEF IInv, OpenInv
<1> QED
  BY <1>2, <1>3 DEF NotifyError

\* An item arrives at its handler.
LEMMA MessageKeeps ==
  ASSUME IInv, NotifyMessage
  PROVE  IInv'
<1>1. PICK id, it, h : id = Head(down).id /\ it = Head(down).item /\ h = HandlerOf(id)
  OBVIOUS
<1> DEFINE t == [handler |-> h, item |-> it, id |-> 0]
<1>2. /\ connection = "open" /\ down # << >> /\ down' = Tail(down)
      /\ id \in Known
      /\ waiting_identifiers' = RestrictDomain(waiting_identifiers, LAMBDA x : x # id)
      /\ running' = running \cup {t}
      /\ handled' = [handled EXCEPT ![h] = Append(@, it)]
      /\ UNCHANGED << language, waiting_handlers, last_id, connection, up, queue, asked, failed >>
  BY <1>1 DEF NotifyMessage, Known, HandlerOf
<1>3. /\ TypeOK /\ LinkInv /\ HandlerInv /\ QueueTypes /\ QueueInv /\ SeenInv
      /\ PlacesInv /\ KeyInv /\ AnswerInv /\ NextInv /\ down \in DownType
      /\ handled \in [Handler -> Seq(Item)]
  BY <1>2, TypeParts DEF IInv, OpenInv, TypeOK
<1>4. Known' = Known \ {id} /\ \A x \in Known' : HandlerOf(x)' = HandlerOf(x)
  BY <1>2 DEF Known, HandlerOf, RestrictDomain, Restrict
<1>5. /\ Head(down) = down[1] /\ 1 \in DOMAIN down
      /\ down' \in DownType
      /\ \A n \in DOMAIN down' : n + 1 \in DOMAIN down /\ down'[n] = down[n + 1]
      /\ \A n \in DOMAIN down \ {1} : n - 1 \in DOMAIN down' /\ down[n] = down'[n - 1]
  BY <1>2, <1>3, TailMessages DEF DownType
<1>6. id # 0 /\ h \in Handler
  BY <1>1, <1>2, <1>3, TypeParts
<1>7. /\ it \in Item /\ fate[it] = Q!Given(id, KeyOf[h]) /\ ~ Seen(it)
      /\ Before(it, h) /\ \A i \in ToSet(handled[h]) : i < it
  BY <1>1, <1>3, <1>5, <1>6 DEF AnswerInv, NextInv
<1>8. t.handler = h /\ t.item = it /\ t.id = 0
      /\ t \in [handler : Handler, item : Item, id : 0..last_id]
  <2>1. 0 \in 0..last_id
    BY <1>3, TypeParts
  <2> QED
    BY <1>6, <1>7, <2>1
<1> HIDE DEF t
<1>9. /\ Ids(down) \ {id} = Ids(down)'
      /\ DistinctIds(down)'
  <2>1. /\ Ids(down) = {Head(down).id} \cup Ids(Tail(down)) /\ DistinctIds(Tail(down))
        /\ Head(down).id # 0 => Head(down).id \notin Ids(Tail(down))
    BY <1>2, <1>3, IdsTail DEF DownType, PlacesInv
  <2> QED
    BY <1>1, <1>2, <1>6, <2>1 DEF Ids, DistinctIds
<1>10. Answers' = Answers \ {id} /\ id \in Answers
  BY <1>1, <1>5, <1>6, <1>9 DEF Answers, Ids
<1>11. handled' \in [Handler -> Seq(Item)] /\ handled'[h] = Append(handled[h], it)
       /\ \A g \in Handler : g # h => handled'[g] = handled[g]
  <2>1. Append(handled[h], it) \in Seq(Item)
    BY <1>3, <1>6, <1>7, AppendProperties
  <2> QED
    BY <1>2, <1>3, <1>6, <2>1
<1>12. LET last == Len(handled[h]) + 1
       IN  /\ DOMAIN handled'[h] = DOMAIN handled[h] \cup {last}
           /\ last \notin DOMAIN handled[h]
           /\ \A m \in DOMAIN handled[h] : handled'[h][m] = handled[h][m] /\ m < last
           /\ handled'[h][last] = it
           /\ DOMAIN handled[h] \subseteq Int /\ last \in Int
  <2>1. handled[h] \in Seq(Item)
    BY <1>3, <1>6
  <2>2. DOMAIN handled[h] = 1..Len(handled[h]) /\ Len(handled[h]) \in Nat
    BY <2>1, LenProperties
  <2> QED
    BY <1>7, <1>11, <2>1, <2>2, Appended
<1>13. ToSet(handled'[h]) = ToSet(handled[h]) \cup {it}
  BY <1>12 DEF ToSet
<1>14. \A i : Seen(i)' <=> Seen(i) \/ i = it
  BY <1>6, <1>11, <1>13 DEF Seen
<1>15. Identifiers(h) = {id} /\ Threads(h) = {} /\ h \in asked \ failed
  <2>1. id \in Identifiers(h)
    BY <1>1, <1>2 DEF Identifiers, Known, HandlerOf
  <2>2. h \in asked \ failed
    BY <1>3, <1>6, <2>1 DEF HandlerInv
  <2> QED
    BY <1>3, <2>1, <2>2 DEF HandlerInv
<1>16. \A x \in Known' : HandlerOf(x) # h
  BY <1>4, <1>15 DEF Identifiers, Known, HandlerOf
<1>17. TypeOK'
  <2>1. DOMAIN waiting_identifiers' \subseteq 1..last_id
    BY <1>3, <1>4, TypeParts DEF Known
  <2>2. ToSet(waiting_identifiers') \subseteq Handler
    BY <1>3, <1>4, TypeParts DEF Known, HandlerOf, ToSet
  <2>3. running' \subseteq [handler : Handler, item : Item, id : 0..last_id]
    BY <1>2, <1>3, <1>8 DEF TypeOK
  <2> QED
    BY <1>2, <1>3, <1>5, <1>11, <2>1, <2>2, <2>3 DEF TypeOK, queue, DownType
<1>18. LinkInv'
  BY <1>2, <1>3 DEF LinkInv
<1>19. HandlerInv'
  <2>1. Identifiers(h)' = {} /\ Threads(h)' = {t}
    <3>1. Identifiers(h)' = {}
      BY <1>4, <1>16 DEF Identifiers, Known, HandlerOf
    <3>2. Threads(h)' = {t}
      BY <1>2, <1>8, <1>15 DEF Threads
    <3> QED
      BY <3>1, <3>2
  <2>2. ASSUME NEW g \in Handler, g # h
        PROVE  Identifiers(g)' = Identifiers(g) /\ Threads(g)' = Threads(g)
    <3>1. Identifiers(g)' = Identifiers(g)
      BY <1>1, <1>4, <2>2 DEF Identifiers, Known, HandlerOf
    <3>2. Threads(g)' = Threads(g)
      BY <1>2, <1>8, <2>2 DEF Threads
    <3> QED
      BY <3>1, <3>2
  <2>3. ASSUME NEW g \in asked \ failed
        PROVE  \/ Threads(g)' = {} /\ \E x \in Known' : Identifiers(g)' = {x}
               \/ Identifiers(g)' = {} /\ \E u \in running' : Threads(g)' = {u}
    <3>1. CASE g = h
      BY <1>2, <2>1, <3>1
    <3>2. CASE g # h
      <4>1. g \in Handler
        BY <1>3 DEF TypeOK
      <4>2. Identifiers(g)' = Identifiers(g) /\ Threads(g)' = Threads(g)
        BY <2>2, <3>2, <4>1
      <4>3. Identifiers(g) \subseteq Known'
        BY <1>1, <1>4, <3>2 DEF Identifiers, Known, HandlerOf
      <4> QED
        BY <1>2, <1>3, <4>2, <4>3 DEF HandlerInv
    <3> QED
      BY <3>1, <3>2
  <2>4. \A g \in Handler : g \notin asked \ failed => Threads(g)' = {} /\ Identifiers(g)' = {}
    BY <1>3, <1>15, <2>2 DEF HandlerInv
  <2>5. ASSUME NEW u \in running', u.id # 0
        PROVE  u \in running /\ u.id \in Known' /\ HandlerOf(u.id)' = u.handler
    <3>1. u \in running
      BY <1>2, <1>8, <2>5
    <3>2. u.id \in Unsent /\ u.id \in Known /\ HandlerOf(u.id) = u.handler
      BY <1>3, <2>5, <3>1 DEF Unsent, HandlerInv
    <3>3. u.id # id
      BY <1>3, <1>10, <3>2 DEF PlacesInv
    <3> QED
      BY <1>4, <3>1, <3>2, <3>3
  <2>6. \A u, v \in running' : u.id = v.id /\ u.id # 0 => u = v
    BY <1>3, <2>5 DEF HandlerInv
  <2> QED
    BY <1>2, <2>3, <2>4, <2>5, <2>6 DEF HandlerInv
<1>20. \A x, g : Before(x, g)' <=> Before(x, g)
  BY <1>2, SameQueue
<1>21. SeenInv'
  <2>1. fate' = fate /\ last_id' = last_id
    BY <1>2, SameQueue
  <2>2. fate[it].to = id /\ fate[it].key = KeyOf[h] /\ id \in (1..last_id) \ Known'
    BY <1>2, <1>3, <1>4, <1>7, Fates, TypeParts
  <2>3. ASSUME NEW g \in Handler, NEW i \in ToSet(handled'[g])
        PROVE  fate[i].to \in (1..last_id) \ Known' /\ fate[i].key = KeyOf[g] /\ Before(i, g)
    <3>1. CASE i \in ToSet(handled[g])
      BY <1>3, <1>4, <3>1 DEF SeenInv
    <3>2. CASE g = h /\ i = it
      BY <1>7, <2>2, <3>2
    <3> QED
      BY <1>11, <1>13, <2>3, <3>1, <3>2
  <2>4. ASSUME NEW g \in Handler
        PROVE  \A m, n \in DOMAIN handled'[g] : m < n => handled'[g][m] < handled'[g][n]
    <3>1. CASE g # h
      BY <1>3, <1>11, <3>1 DEF SeenInv
    <3>2. CASE g = h
      <4> SUFFICES ASSUME NEW m \in DOMAIN handled'[h], NEW n \in DOMAIN handled'[h], m < n
                   PROVE  handled'[h][m] < handled'[h][n]
        BY <3>2
      <4>1. m \in DOMAIN handled[h]
        BY <1>12
      <4>2. CASE n \in DOMAIN handled[h]
        BY <1>3, <1>6, <1>12, <4>1, <4>2 DEF SeenInv
      <4>3. CASE n \notin DOMAIN handled[h]
        BY <1>7, <1>12, <4>1, <4>3 DEF ToSet
      <4> QED
        BY <4>2, <4>3
    <3> QED
      BY <3>1, <3>2
  <2>5. \A i \in Item : fate[i].to \in Id => fate[i].state = "given"
    BY <1>3 DEF SeenInv
  <2> QED
    BY <1>20, <2>1, <2>3, <2>4, <2>5 DEF SeenInv
<1>22. PlacesInv'
  <2>1. Unsent' = Unsent
    BY <1>2, <1>8 DEF Unsent
  <2>2. Ids(up)' = Ids(up) /\ DistinctIds(up)'
    BY <1>2, <1>3 DEF Ids, DistinctIds, PlacesInv
  <2> QED
    BY <1>2, <1>3, <1>4, <1>9, <1>10, <2>1, <2>2, SameQueue DEF PlacesInv
<1>23. KeyInv'
  <2>1. Ids(up) \subseteq Known' /\ Waits \subseteq Known'
    BY <1>3, <1>4, <1>10 DEF PlacesInv
  <2>2. \A n \in DOMAIN up : HandlerOf(up[n].id)' = HandlerOf(up[n].id)
    BY <1>2, <1>4, <2>1 DEF Ids
  <2>3. \A n \in DOMAIN waiting : HandlerOf(waiting[n].ref)' = HandlerOf(waiting[n].ref)
    BY <1>2, <1>4, <2>1, SameQueue DEF Waits
  <2> QED
    BY <1>2, <1>3, <2>2, <2>3, SameQueue DEF KeyInv
<1>24. ASSUME NEW n \in DOMAIN down', down'[n].id # 0
       PROVE  /\ n + 1 \in DOMAIN down /\ down'[n] = down[n + 1] /\ down'[n].id \in Known'
              /\ HandlerOf(down'[n].id) # h /\ HandlerOf(down[n].id)' = HandlerOf(down'[n].id)
  <2>1. down'[n].id \in Known'
    BY <1>9, <1>22, <1>24 DEF PlacesInv, Answers, Ids
  <2> QED
    BY <1>4, <1>5, <1>16, <2>1
<1>25. AnswerInv'
  <2>1. ASSUME NEW n \in DOMAIN down', down'[n].id # 0
        PROVE  /\ down'[n].item \in Item
               /\ fate[down'[n].item] = Q!Given(down'[n].id, KeyOf[HandlerOf(down'[n].id)])
               /\ ~ Seen(down'[n].item) /\ down'[n].item # it
    <3>1. /\ down'[n].item \in Item
          /\ fate[down'[n].item] = Q!Given(down'[n].id, KeyOf[HandlerOf(down'[n].id)])
          /\ ~ Seen(down'[n].item)
      BY <1>3, <1>24, <2>1 DEF AnswerInv
    <3>2. down'[n].id # id
      BY <1>4, <1>24, <2>1
    <3> QED
      BY <1>7, <3>1, <3>2, Fates
  <2>2. \A n \in DOMAIN down' : down'[n].id = 0 => down'[n].item = 0
    BY <1>3, <1>5 DEF AnswerInv
  <2>3. ASSUME NEW i \in Item, fate[i].to \in Id, ~ Seen(i), i # it
        PROVE  \E n \in DOMAIN down' : down'[n].item = i
    <3>1. PICK n \in DOMAIN down : down[n].item = i
      BY <1>3, <2>3 DEF AnswerInv
    <3>2. n # 1
      BY <1>1, <1>5, <2>3, <3>1
    <3> QED
      BY <1>5, <3>1, <3>2
  <2> QED
    BY <1>2, <1>14, <1>24, <2>1, <2>2, <2>3, SameQueue DEF AnswerInv
<1>26. NextInv'
  <2>1. ASSUME NEW n \in DOMAIN down', down'[n].id # 0
        PROVE  /\ Before(down'[n].item, HandlerOf(down'[n].id))
               /\ \A i \in ToSet(handled'[HandlerOf(down'[n].id)]) : i < down'[n].item
    <3>1. /\ Before(down'[n].item, HandlerOf(down'[n].id))
          /\ \A i \in ToSet(handled[HandlerOf(down'[n].id)]) : i < down'[n].item
      BY <1>3, <1>24, <2>1 DEF NextInv
    <3>2. HandlerOf(down'[n].id) \in Handler
      BY <1>3, <1>4, <1>24, <2>1, TypeParts
    <3> QED
      BY <1>11, <1>24, <2>1, <3>1, <3>2
  <2> QED
    BY <1>20, <1>24, <2>1 DEF NextInv
<1> QED
  BY <1>2, <1>3, <1>17, <1>18, <1>19, <1>21, <1>22, <1>23, <1>25, <1>26, SameQueue
     DEF IInv, OpenInv

\* A handler's request is noted under a new identifier.
LEMMA ReturnsKeeps ==
  ASSUME IInv, NEW h \in Handler, HandlerReturns(h)
  PROVE  IInv'
<1>1. PICK t \in running :
        /\ t.handler = h /\ t.id = 0
        /\ last_id' = last_id + 1
        /\ waiting_identifiers' = [id \in DOMAIN waiting_identifiers \cup {last_id'} |->
                                      IF id = last_id' THEN h ELSE waiting_identifiers[id]]
        /\ running' = (running \ {t}) \cup { [t EXCEPT !.id = last_id'] }
  BY DEF HandlerReturns
<1>2. PICK id, u : id = last_id + 1 /\ u = [t EXCEPT !.id = id]
  OBVIOUS
<1>3. /\ last_id < MaxId
      /\ UNCHANGED << language, waiting_handlers, channel, queue, history >>
  BY DEF HandlerReturns
<1>4. /\ TypeOK /\ LinkInv /\ HandlerInv /\ QueueInv /\ SeenInv /\ OpenInv /\ last_id \in Nat
      /\ t \in [handler : Handler, item : Item, id : 0..last_id]
      /\ MaxId \in Nat
  BY TypeParts, ClientAssumption DEF IInv, TypeOK, ClientAssumption
<1>5. running' = (running \ {t}) \cup {u} /\ last_id' = id
  BY <1>1, <1>2
<1>6. /\ id \notin Known /\ id \in Id /\ id # 0
      /\ 1..last_id \subseteq 1..id /\ 0..last_id \subseteq 0..id
      /\ id \in 1..id /\ id \in 0..id /\ id \notin 1..last_id /\ id \in 0..MaxId
  <2>1. Known \subseteq 1..last_id
    BY <1>4, TypeParts
  <2> QED
    BY <1>2, <1>3, <1>4, <2>1 DEF Id
<1>7. u \in [handler : Handler, item : Item, id : 0..id] /\ u.handler = h /\ u.id = id
  BY <1>1, <1>2, <1>4, <1>6
<1>8. /\ Known' = Known \cup {id} /\ HandlerOf(id)' = h
      /\ \A x \in Known : HandlerOf(x)' = HandlerOf(x)
  BY <1>1, <1>5, <1>6 DEF Known, HandlerOf
<1>9. Identifiers(h) = {} /\ Threads(h) = {t} /\ h \in asked \ failed
  <2>1. t \in Threads(h)
    BY <1>1 DEF Threads
  <2>2. h \in asked \ failed
    BY <1>4, <2>1 DEF HandlerInv
  <2> QED
    BY <1>4, <2>1, <2>2 DEF HandlerInv
<1>10. connection # "none"
  BY <1>1, <1>4 DEF LinkInv
<1>11. TypeOK'
  <2>1. DOMAIN waiting_identifiers' \subseteq 1..id
    BY <1>4, <1>6, <1>8, TypeParts DEF Known
  <2>2. ToSet(waiting_identifiers') \subseteq Handler
    BY <1>4, <1>8, TypeParts DEF Known, HandlerOf, ToSet
  <2>3. running' \subseteq [handler : Handler, item : Item, id : 0..id]
    <3> SUFFICES ASSUME NEW v \in running'
                 PROVE  v \in [handler : Handler, item : Item, id : 0..id]
      OBVIOUS
    <3>1. CASE v = u
      BY <1>7, <3>1
    <3>2. CASE v \in running
      <4>1. v \in [handler : Handler, item : Item, id : 0..last_id]
        BY <1>4, <3>2 DEF TypeOK
      <4> QED
        BY <1>6, <4>1
    <3> QED
      BY <1>5, <3>1, <3>2
  <2>4. up \in UpType' /\ down \in DownType'
    <3>1. up \in UpType /\ down \in DownType
      BY <1>4, TypeParts
    <3>2. /\ [id : 1..last_id, key : AnyKey] \subseteq [id : 1..id, key : AnyKey]
          /\ [id : 0..last_id, item : 0..MaxItem] \subseteq [id : 0..id, item : 0..MaxItem]
      BY <1>6
    <3>3. /\ up \in Seq([id : 1..id, key : AnyKey])
          /\ down \in Seq([id : 0..id, item : 0..MaxItem])
      BY <3>1, <3>2, WiderSeq DEF UpType, DownType
    <3> QED
      BY <1>5, <3>3 DEF UpType, DownType
  <2> QED
    BY <1>3, <1>4, <1>5, <1>6, <2>1, <2>2, <2>3, <2>4
       DEF TypeOK, UpType, DownType, channel, queue, history
<1>12. LinkInv'
  BY <1>3, <1>4, <1>10 DEF LinkInv, channel
<1>13. HandlerInv'
  <2>1. Identifiers(h)' = {id} /\ Threads(h)' = {}
    <3>1. Identifiers(h)' = {id}
      BY <1>6, <1>8, <1>9 DEF Identifiers, Known, HandlerOf
    <3>2. Threads(h)' = {}
      BY <1>5, <1>6, <1>7, <1>9 DEF Threads
    <3> QED
      BY <3>1, <3>2
  <2>2. ASSUME NEW g \in Handler, g # h
        PROVE  Identifiers(g)' = Identifiers(g) /\ Threads(g)' = Threads(g)
    <3>1. Identifiers(g)' = Identifiers(g)
      BY <1>6, <1>8, <2>2 DEF Identifiers, Known, HandlerOf
    <3>2. Threads(g)' = Threads(g)
      BY <1>1, <1>5, <1>7, <2>2 DEF Threads
    <3> QED
      BY <3>1, <3>2
  <2>3. ASSUME NEW g \in asked \ failed
        PROVE  \/ Threads(g)' = {} /\ \E x \in Known' : Identifiers(g)' = {x}
               \/ Identifiers(g)' = {} /\ \E v \in running' : Threads(g)' = {v}
    <3>1. CASE g = h
      BY <1>8, <2>1, <3>1
    <3>2. CASE g # h
      <4>1. g \in Handler
        BY <1>4 DEF TypeOK
      <4>2. Identifiers(g)' = Identifiers(g) /\ Threads(g)' = Threads(g)
        BY <2>2, <3>2, <4>1
      <4>3. Threads(g) \subseteq running'
        BY <1>1, <1>5, <3>2 DEF Threads
      <4> QED
        BY <1>4, <1>8, <4>2, <4>3 DEF HandlerInv
    <3> QED
      BY <3>1, <3>2
  <2>4. \A g \in Handler : g \notin asked \ failed => Threads(g)' = {} /\ Identifiers(g)' = {}
    BY <1>4, <1>9, <2>2 DEF HandlerInv
  <2>5. ASSUME NEW v \in running', v.id # 0
        PROVE  /\ v.id \in Known' /\ HandlerOf(v.id)' = v.handler
               /\ v = u \/ (v \in running /\ v.id # id)
    <3>1. CASE v = u
      BY <1>7, <1>8, <3>1
    <3>2. CASE v \in running
      BY <1>4, <1>6, <1>8, <2>5, <3>2 DEF HandlerInv
    <3> QED
      BY <1>5, <3>1, <3>2
  <2>6. \A v, w \in running' : v.id = w.id /\ v.id # 0 => v = w
    BY <1>4, <1>7, <2>5 DEF HandlerInv
  <2> QED
    BY <1>3, <2>3, <2>4, <2>5, <2>6 DEF HandlerInv, history
<1>14. SeenInv'
  <2>1. (1..last_id) \ Known \subseteq (1..last_id') \ Known'
    BY <1>5, <1>6, <1>8
  <2>2. fate' = fate /\ handled' = handled /\ \A i, g : Before(i, g)' <=> Before(i, g)
    BY <1>3, SameQueue DEF history
  <2>3. \A g \in Handler : \A i \in ToSet(handled[g]) :
           fate[i].to \in (1..last_id') \ Known' /\ fate[i].key = KeyOf[g] /\ Before(i, g)
    BY <1>4, <2>1 DEF SeenInv
  <2> QED
    BY <1>4, <2>2, <2>3 DEF SeenInv
<1>15. ASSUME connection = "open"
       PROVE  PlacesInv' /\ KeyInv' /\ AnswerInv' /\ NextInv'
  <2>1. /\ PlacesInv /\ KeyInv /\ AnswerInv /\ NextInv
        /\ up' = up /\ down' = down /\ handled' = handled
    BY <1>3, <1>4, <1>15 DEF OpenInv, channel, history
  <2>2. Ids(up)' = Ids(up) /\ Answers' = Answers /\ DistinctIds(up)' /\ DistinctIds(down)'
    BY <2>1 DEF Ids, Answers, DistinctIds, PlacesInv
  <2>3. Unsent' = Unsent \cup {id}
    BY <1>1, <1>5, <1>6, <1>7 DEF Unsent
  <2>4. PlacesInv'
    BY <1>3, <1>6, <1>8, <2>1, <2>2, <2>3, SameQueue DEF PlacesInv
  <2>5. KeyInv'
    <3>1. \A n \in DOMAIN up : HandlerOf(up[n].id)' = HandlerOf(up[n].id)
      BY <1>8, <2>1 DEF PlacesInv, Ids
    <3>2. \A n \in DOMAIN waiting : HandlerOf(waiting[n].ref)' = HandlerOf(waiting[n].ref)
      BY <1>3, <1>8, <2>1, SameQueue DEF PlacesInv, Waits
    <3> QED
      BY <1>3, <2>1, <3>1, <3>2, SameQueue DEF KeyInv
  <2>6. \A n \in DOMAIN down : down[n].id # 0 => HandlerOf(down[n].id)' = HandlerOf(down[n].id)
    BY <1>8, <2>1 DEF PlacesInv, Answers, Ids
  <2>7. \A i : Seen(i)' <=> Seen(i)
    BY <2>1 DEF Seen
  <2>8. AnswerInv'
    BY <1>3, <2>1, <2>6, <2>7, SameQueue DEF AnswerInv
  <2>9. NextInv'
    BY <1>3, <2>1, <2>6, SameQueue DEF NextInv
  <2> QED
    BY <2>4, <2>5, <2>8, <2>9
<1> QED
  BY <1>3, <1>4, <1>11, <1>12, <1>13, <1>14, <1>15, SameQueue DEF IInv, OpenInv, channel

\* A request is sent.
LEMMA ResendKeeps ==
  ASSUME IInv, NEW h \in Handler, ResendWant(h)
  PROVE  IInv'
<1>1. PICK t \in running :
        /\ t.handler = h /\ t.id # 0
        /\ running' = running \ {t}
        /\ up' = IF connection = "open" THEN Append(up, Request(t.id, h)) ELSE up
  BY DEF ResendWant
<1>2. PICK id : id = t.id
  OBVIOUS
<1>3. UNCHANGED << language, waiting_handlers, waiting_identifiers, last_id, connection,
                  down, queue, history >>
  BY DEF ResendWant
<1>4. /\ TypeOK /\ LinkInv /\ HandlerInv /\ QueueInv /\ SeenInv /\ OpenInv
      /\ up \in UpType
  BY TypeParts DEF IInv
<1>5. id \in Known /\ HandlerOf(id) = h /\ id \in 1..last_id /\ KeyOf[h] \in AnyKey /\ id # 0
  BY <1>1, <1>2, <1>4, TypeParts DEF HandlerInv
<1>6. PICK r : r = Request(id, h)
  OBVIOUS
<1>7. r \in [id : 1..last_id, key : AnyKey] /\ r.id = id /\ r.key = KeyOf[h]
  BY <1>5, <1>6 DEF Request
<1>8. up' = IF connection = "open" THEN Append(up, r) ELSE up
  BY <1>1, <1>2, <1>6
<1>9. up' \in UpType
  BY <1>4, <1>7, <1>8, AppendProperties DEF UpType
<1>10. TypeOK'
  BY <1>1, <1>3, <1>4, <1>9 DEF TypeOK, UpType, queue, history
<1>11. LinkInv'
  BY <1>1, <1>3, <1>4, <1>8 DEF LinkInv, queue, history, Known
<1>12. HandlerInv'
  <2>1. \A g : Threads(g)' = Threads(g) /\ Threads(g) \subseteq running'
    BY <1>1 DEF Threads
  <2>2. Known' = Known /\ asked' = asked /\ failed' = failed
        /\ (\A g : Identifiers(g)' = Identifiers(g)) /\ \A x : HandlerOf(x)' = HandlerOf(x)
    BY <1>3 DEF Known, Identifiers, HandlerOf, history
  <2>3. ASSUME NEW g \in asked \ failed
        PROVE  \/ Threads(g) = {} /\ \E x \in Known : Identifiers(g) = {x}
               \/ Identifiers(g) = {} /\ \E v \in running' : Threads(g) = {v}
    BY <1>4, <2>1 DEF HandlerInv
  <2> QED
    BY <1>1, <1>4, <2>1, <2>2, <2>3 DEF HandlerInv
<1>13. QueueInv' /\ SeenInv'
  BY <1>3, <1>4, SameQueue, SameSeen DEF history
<1>14. ASSUME connection = "open"
       PROVE  PlacesInv' /\ KeyInv' /\ AnswerInv' /\ NextInv'
  <2>1. /\ PlacesInv /\ KeyInv /\ AnswerInv /\ NextInv
        /\ up' = Append(up, r) /\ Known' = Known /\ handled' = handled
        /\ \A x : HandlerOf(x)' = HandlerOf(x)
    BY <1>3, <1>4, <1>8, <1>14 DEF OpenInv, Known, HandlerOf, history
  <2>2. id \in Unsent
    BY <1>1, <1>2 DEF Unsent
  <2>3. Unsent' = Unsent \ {id}
    <3>1. \A v \in running : v.id = id => v = t
      BY <1>1, <1>2, <1>4 DEF HandlerInv
    <3> QED
      BY <1>1, <1>2, <3>1 DEF Unsent
  <2>4. Ids(up)' = Ids(up) \cup {id} /\ DistinctIds(up)'
    <3>1. PICK S : S = [id : 1..last_id, key : AnyKey]
      OBVIOUS
    <3>2. up \in Seq(S) /\ r \in S /\ r.id \notin Ids(up) /\ DistinctIds(up)
      BY <1>4, <1>7, <2>1, <2>2, <3>1 DEF UpType, PlacesInv
    <3>3. Ids(Append(up, r)) = Ids(up) \cup {r.id} /\ DistinctIds(Append(up, r))
      BY ONLY <3>2, IdsAppend
    <3> QED
      BY <1>7, <2>1, <3>3 DEF Ids, DistinctIds
  <2>5. Answers' = Answers /\ DistinctIds(down)'
    BY <1>3, <2>1 DEF Ids, Answers, DistinctIds, PlacesInv
  <2>6. PlacesInv'
    <3>1. Waits' = Waits /\ Distinct(waiting)' /\ open' = open
      BY <1>3, <2>1, SameQueue DEF PlacesInv
    <3>2. /\ Ids(up)' \subseteq Known /\ Ids(up)' \cap Waits = {} /\ Ids(up)' \cap Answers = {}
          /\ Unsent' \cap Ids(up)' = {} /\ Unsent' \cap Waits = {} /\ Unsent' \cap Answers = {}
      BY <1>5, <2>1, <2>2, <2>3, <2>4 DEF PlacesInv
    <3>3. open => Known \subseteq Unsent' \cup Ids(up)' \cup Waits \cup Answers
      BY <2>1, <2>3, <2>4 DEF PlacesInv
    <3> QED
      BY <2>1, <2>4, <2>5, <3>1, <3>2, <3>3 DEF PlacesInv
  <2>7. KeyInv'
    <3>1. /\ DOMAIN up' = DOMAIN up \cup {Len(up) + 1}
          /\ \A m \in DOMAIN up : up'[m] = up[m]
          /\ up'[Len(up) + 1] = r
      BY <1>4, <1>7, <2>1, Appended DEF UpType
    <3>2. \A n \in DOMAIN up' : up'[n].key = KeyOf[HandlerOf(up'[n].id)]
      BY <1>5, <1>7, <2>1, <3>1 DEF KeyInv
    <3> QED
      BY <1>3, <2>1, <3>2, SameQueue DEF KeyInv
  <2>8. \A i : Seen(i)' <=> Seen(i)
    BY <2>1 DEF Seen
  <2>9. AnswerInv'
    BY <1>3, <2>1, <2>8, SameQueue DEF AnswerInv
  <2>10. NextInv'
    BY <1>3, <2>1, SameQueue DEF NextInv
  <2> QED
    BY <2>6, <2>7, <2>9, <2>10
<1> QED
  BY <1>3, <1>10, <1>11, <1>12, <1>13, <1>14 DEF IInv, OpenInv

\* A handler ends, and perhaps its program.
LEMMA RaisesKeeps ==
  ASSUME IInv, NEW h \in Handler, HandlerRaises(h)
  PROVE  IInv'
<1>1. PICK t \in running : t.handler = h /\ t.id = 0 /\ running' = running \ {t}
  BY DEF HandlerRaises
<1>2. /\ failed' = failed \cup {h}
      /\ UNCHANGED << language, waiting_handlers, waiting_identifiers, last_id, queue,
                      handled, asked >>
      /\ (UNCHANGED channel) \/ Close("ended")
  BY DEF HandlerRaises
<1>3. /\ TypeOK /\ LinkInv /\ HandlerInv /\ QueueInv /\ SeenInv /\ OpenInv
      /\ up \in UpType /\ down \in DownType
  BY TypeParts DEF IInv
<1>4. Identifiers(h) = {} /\ Threads(h) = {t} /\ h \in asked \ failed
  <2>1. t \in Threads(h)
    BY <1>1 DEF Threads
  <2>2. h \in asked \ failed
    BY <1>3, <2>1 DEF HandlerInv
  <2> QED
    BY <1>3, <2>1, <2>2 DEF HandlerInv
<1>5. connection' \in {"none", "open", "closed", "ended"} /\ up' \in UpType /\ down' \in DownType
  <2>1. << >> \in UpType /\ << >> \in DownType
    BY EmptySeq DEF UpType, DownType
  <2> QED
    BY <1>2, <1>3, <2>1 DEF TypeOK, channel, Close
<1>6. TypeOK'
  BY <1>1, <1>2, <1>3, <1>4, <1>5 DEF TypeOK, UpType, DownType, queue
<1>7. LinkInv'
  BY <1>1, <1>2, <1>3 DEF LinkInv, channel, Close, queue, Known
<1>8. HandlerInv'
  <2>1. Threads(h)' = {}
    BY <1>1, <1>4 DEF Threads
  <2>2. \A g : g # h => Threads(g)' = Threads(g) /\ Threads(g) \subseteq running'
    BY <1>1 DEF Threads
  <2>3. Known' = Known /\ asked' = asked /\ asked \subseteq Handler
        /\ (\A g : Identifiers(g)' = Identifiers(g)) /\ \A x : HandlerOf(x)' = HandlerOf(x)
    BY <1>2, <1>3 DEF Known, Identifiers, HandlerOf, TypeOK
  <2>4. ASSUME NEW g \in asked \ failed, g # h
        PROVE  \/ Threads(g) = {} /\ \E x \in Known : Identifiers(g) = {x}
               \/ Identifiers(g) = {} /\ \E v \in running' : Threads(g) = {v}
    BY <1>3, <2>2, <2>4 DEF HandlerInv
  <2>5. \A g \in Handler : g \notin asked \ failed' => Threads(g)' = {} /\ Identifiers(g) = {}
    BY <1>2, <1>3, <1>4, <2>1, <2>2 DEF HandlerInv
  <2>6. \A g \in asked \ failed' : g \in asked \ failed /\ g # h
    BY <1>2
  <2>7. /\ \A v \in running' : v.id # 0 => v.id \in Known /\ HandlerOf(v.id) = v.handler
        /\ \A v, w \in running' : v.id = w.id /\ v.id # 0 => v = w
    BY <1>1, <1>3 DEF HandlerInv
  <2> QED
    BY <2>2, <2>3, <2>4, <2>5, <2>6, <2>7 DEF HandlerInv
<1>9. QueueInv' /\ SeenInv'
  BY <1>2, <1>3, SameQueue, SameSeen
<1>10. ASSUME connection' = "open"
       PROVE  PlacesInv' /\ KeyInv' /\ AnswerInv' /\ NextInv'
  <2>1. UNCHANGED channel
    BY <1>2, <1>10 DEF Close
  <2>2. PlacesInv /\ KeyInv /\ AnswerInv /\ NextInv
    BY <1>3, <1>10, <2>1 DEF OpenInv, channel
  <2>3. Unsent' = Unsent
    BY <1>1 DEF Unsent
  <2>4. /\ Known' = Known /\ Ids(up)' = Ids(up) /\ Answers' = Answers
        /\ DistinctIds(up)' /\ DistinctIds(down)'
    BY <1>2, <2>1, <2>2 DEF Known, Ids, Answers, DistinctIds, PlacesInv, channel
  <2>5. PlacesInv'
    BY <1>2, <2>2, <2>3, <2>4, SameQueue DEF PlacesInv
  <2>6. KeyInv' = KeyInv
    BY <1>2, <2>1 DEF KeyInv, channel, queue, HandlerOf
  <2>7. AnswerInv' = AnswerInv
    BY <1>2, <2>1 DEF AnswerInv, channel, queue, HandlerOf, Seen
  <2>8. NextInv' = NextInv
    BY <1>2, <2>1 DEF NextInv, channel, queue, HandlerOf, Before
  <2> QED
    BY <2>2, <2>5, <2>6, <2>7, <2>8
<1> QED
  BY <1>6, <1>7, <1>8, <1>9, <1>10 DEF IInv, OpenInv

\* The connection opens: a request for each handler that is registered.
LEMMA OpenKeeps ==
  ASSUME IInv, NotifyOpen
  PROVE  IInv'
<1> DEFINE new == DOMAIN waiting_handlers
           L == Len(waiting_handlers)
<1>1. /\ connection = "none" /\ last_id + L <= MaxId
      /\ connection' = "open"
      /\ waiting_identifiers' = [id \in { last_id + n : n \in new } |->
                                    waiting_handlers[id - last_id]]
      /\ last_id' = last_id + L
      /\ up' = [n \in new |-> Request(last_id + n, waiting_handlers[n])]
      /\ waiting_handlers' = << >>
      /\ asked' = ToSet(waiting_handlers)
      /\ UNCHANGED << language, running, down, queue, handled, failed >>
  BY DEF NotifyOpen
<1>2. TypeOK /\ LinkInv /\ HandlerInv /\ QueueInv /\ SeenInv
  BY DEF IInv
<1>3. /\ Known = {} /\ running = {} /\ asked = {} /\ last_id = 0 /\ waiting = << >>
      /\ down = << >> /\ failed = {}
      /\ \A i \in Item : fate[i].to \notin Id
  BY <1>1, <1>2 DEF LinkInv, TypeOK
<1>4. /\ waiting_handlers \in Seq(Handler) /\ new = 1..L /\ L \in Nat
      /\ \A n \in new : waiting_handlers[n] \in Handler
  BY <1>2, LenProperties, ElementOfSeq DEF TypeOK
<1>5. /\ { last_id + n : n \in new } = new /\ \A id \in new : id - last_id = id
      /\ \A n \in new : last_id + n = n
      /\ last_id' = L /\ L <= MaxId /\ 0 \notin new
  BY <1>1, <1>3, <1>4
<1>6. /\ waiting_identifiers' = [id \in new |-> waiting_handlers[id]]
      /\ up' = [n \in new |-> Request(n, waiting_handlers[n])]
  <2>1. waiting_identifiers' = [id \in new |-> waiting_handlers[id - last_id]]
    BY <1>1, <1>5, Zenon
  <2>2. [id \in new |-> waiting_handlers[id - last_id]] = [id \in new |-> waiting_handlers[id]]
    BY <1>5
  <2>3. [n \in new |-> Request(last_id + n, waiting_handlers[n])]
          = [n \in new |-> Request(n, waiting_handlers[n])]
    BY <1>5
  <2> QED
    BY <1>1, <2>1, <2>2, <2>3
<1> HIDE DEF new, L
<1>7. Known' = new /\ \A id \in new : HandlerOf(id)' = waiting_handlers[id]
  BY <1>6 DEF Known, HandlerOf
<1>8. \A n \in new : /\ up'[n].id = n /\ up'[n].key = KeyOf[waiting_handlers[n]]
                     /\ up'[n] \in [id : 1..L, key : AnyKey]
  <2> SUFFICES ASSUME NEW n \in new
               PROVE  /\ up'[n].id = n /\ up'[n].key = KeyOf[waiting_handlers[n]]
                      /\ up'[n] \in [id : 1..L, key : AnyKey]
    OBVIOUS
  <2>1. up'[n] = [id |-> n, key |-> KeyOf[waiting_handlers[n]]]
    BY <1>6 DEF Request
  <2>2. KeyOf[waiting_handlers[n]] \in AnyKey
    BY <1>4, ClientAssumption DEF ClientAssumption
  <2> QED
    BY <1>4, <2>1, <2>2
<1>9. DOMAIN up' = new
  BY <1>6
<1>10. up' \in Seq([id : 1..L, key : AnyKey])
  <2>1. PICK S : S = [id : 1..L, key : AnyKey]
    OBVIOUS
  <2>2. up' \in [1..L -> S] /\ L \in Nat
    BY <1>4, <1>6, <1>8, <2>1
  <2>3. up' \in Seq(S)
    BY <2>2, SeqDef
  <2> QED
    BY <2>1, <2>3
<1>11. << >> \in Seq(Handler) /\ << >> \in Seq([id : 0..L, item : 0..MaxItem])
  BY EmptySeq
<1>12. asked' \subseteq Handler
  BY <1>1, <1>4 DEF ToSet, new
<1>13. TypeOK'
  <2>1. DOMAIN waiting_identifiers' \subseteq 1..L /\ ToSet(waiting_identifiers') \subseteq Handler
    BY <1>4, <1>6 DEF ToSet
  <2>2. L \in 0..MaxId
    BY <1>4, <1>5, ClientAssumption DEF ClientAssumption
  <2>3. running' = {} /\ failed' = {} /\ down' = << >>
    BY <1>1, <1>3
  <2> QED
    BY <1>1, <1>2, <1>5, <1>10, <1>11, <1>12, <2>1, <2>2, <2>3 DEF TypeOK, queue
<1>14. LinkInv'
  BY <1>1 DEF LinkInv
<1>15. HandlerInv'
  <2>1. running' = {} /\ failed' = {}
    BY <1>1, <1>3
  <2>2. \A h : Threads(h)' = {}
    BY <2>1 DEF Threads
  <2>3. ASSUME NEW h \in asked'
        PROVE  \E id \in Known' : Identifiers(h)' = {id}
    <3>1. PICK n \in new : waiting_handlers[n] = h
      BY <1>1 DEF ToSet, new
    <3>2. \A m \in new : waiting_handlers[m] = h => m = n
      BY <1>2, <3>1 DEF LinkInv, new
    <3>3. Identifiers(h)' = {n}
      BY <1>6, <3>1, <3>2 DEF Identifiers
    <3> QED
      BY <1>7, <3>3
  <2>4. \A h : h \notin asked' => Identifiers(h)' = {}
    BY <1>1, <1>6 DEF Identifiers, ToSet, new
  <2> QED
    BY <2>1, <2>2, <2>3, <2>4 DEF HandlerInv
<1>16. \A h \in Handler : ToSet(handled[h]) = {}
  <2> SUFFICES ASSUME NEW h \in Handler, NEW i \in ToSet(handled[h]) PROVE FALSE
    OBVIOUS
  <2>1. i \in Item /\ fate[i].to \in Id
    BY <1>2, TypeParts DEF SeenInv
  <2> QED
    BY <1>3, <2>1
<1>17. SeenInv'
  <2>1. fate' = fate /\ handled' = handled
    BY <1>1, SameQueue
  <2> QED
    BY <1>2, <1>16, <2>1 DEF SeenInv
<1>18. PlacesInv'
  <2>1. Unsent' = {} /\ Waits' = {} /\ Answers' = {}
    BY <1>1, <1>3 DEF Unsent, Waits, Answers, Ids, queue
  <2>2. Ids(up)' = new
    BY <1>8, <1>9 DEF Ids
  <2>3. DistinctIds(up)'
    BY <1>8, <1>9 DEF DistinctIds
  <2>4. DistinctIds(down)' /\ Distinct(waiting)'
    BY <1>1, <1>3 DEF DistinctIds, Distinct, queue
  <2> QED
    BY <1>7, <2>1, <2>2, <2>3, <2>4 DEF PlacesInv
<1>19. KeyInv'
  <2>1. \A n \in DOMAIN up' : HandlerOf(up[n].id)' = waiting_handlers[n]
    BY <1>7, <1>8, <1>9
  <2>2. waiting' = << >>
    BY <1>1, <1>3 DEF queue
  <2> QED
    BY <1>8, <1>9, <2>1, <2>2 DEF KeyInv
<1>20. AnswerInv' /\ NextInv'
  BY <1>1, <1>3 DEF AnswerInv, NextInv, queue
<1> QED
  BY <1>1, <1>2, <1>13, <1>14, <1>15, <1>17, <1>18, <1>19, <1>20, SameQueue DEF IInv, OpenInv

-----------------------------------------------------------------------------
(***************************************************************************)
(* The invariant holds, and the theorems follow from it.                   *)
(***************************************************************************)
\* The invariant holds at first.
LEMMA IInvInit ==
  ASSUME Init
  PROVE  IInv
<1>1. /\ waiting_handlers = << >> /\ waiting_identifiers = << >> /\ running = {} /\ last_id = 0
      /\ connection = "none" /\ up = << >> /\ down = << >>
      /\ pending = << >> /\ waiting = << >> /\ open = TRUE
      /\ fate = [i \in Item |-> Q!Undelivered("new")]
      /\ handled = [h \in Handler |-> << >>] /\ asked = {} /\ failed = {}
      /\ language \in {"python", "typescript"}
  BY DEF Init, Q!Init
<1>2. Known = {} /\ \A i \in Item : fate[i].to \notin Id /\ fate[i].state = "new"
  BY <1>1, Fates, Items DEF Known
<1>3. TypeOK
  <2>1. /\ << >> \in Seq(Handler) /\ << >> \in Seq(Item)
        /\ << >> \in Seq([id : 1..0, key : AnyKey])
        /\ << >> \in Seq([id : 0..0, item : 0..MaxItem])
        /\ << >> \in ListOf(Item) /\ << >> \in ListOf(Id)
    BY EmptySeq DEF ListOf
  <2>2. fate \in [Item -> Q!Fate]
    BY <1>1, Fates
  <2>3. ToSet(waiting_identifiers) = {} /\ DOMAIN waiting_identifiers = {}
    BY <1>1 DEF ToSet
  <2>4. 0 \in 0..MaxId
    BY ClientAssumption DEF ClientAssumption
  <2>5. open \in BOOLEAN
    BY <1>1
  <2>6. handled \in [Handler -> Seq(Item)]
    BY <1>1, <2>1
  <2> QED
    BY <1>1, <2>1, <2>2, <2>3, <2>4, <2>5, <2>6 DEF TypeOK
<1>4. LinkInv
  BY <1>1, <1>2 DEF LinkInv
<1>5. HandlerInv
  BY <1>1, <1>2 DEF HandlerInv, Threads, Identifiers, Known
<1>6. QueueInv
  BY <1>1, <1>2 DEF QueueInv
<1>7. SeenInv
  <2>1. \A h \in Handler : handled[h] = << >>
    BY <1>1
  <2>2. ToSet(<< >>) = {} /\ DOMAIN << >> = {}
    BY DEF ToSet
  <2> QED
    BY <1>2, <2>1, <2>2 DEF SeenInv
<1>8. OpenInv
  BY <1>1 DEF OpenInv
<1> QED
  BY <1>3, <1>4, <1>5, <1>6, <1>7, <1>8 DEF IInv

\* It holds when nothing happens.
LEMMA IInvStutter ==
  ASSUME IInv, UNCHANGED vars
  PROVE  IInv'
<1>1. ServerKeeps /\ (UNCHANGED queue) /\ up' = up /\ down' = down
  BY DEF vars, ServerKeeps, channel
<1>2. QueueStep
  BY <1>1, QueueKept, TypeParts DEF IInv
<1> QED
  BY <1>1, <1>2, OthersKeep DEF queue

\* It holds after every step.
LEMMA IInvNext ==
  ASSUME IInv, [Next]_vars
  PROVE  IInv'
<1>1. ASSUME Others PROVE IInv'
  BY <1>1, PutKeeps, TakeKeeps, DeleteKeeps DEF Others
<1>2. ASSUME NEW h \in Handler, QueueHandler(h) \/ Program(h) PROVE IInv'
  BY <1>2, QueueHandlerKeeps, ReturnsKeeps, RaisesKeeps, ResendKeeps DEF Program
<1> QED
  BY <1>1, <1>2, ReadKeeps, DisconnectKeeps, OpenKeeps, MessageKeeps, ErrorKeeps,
     IInvStutter DEF Next

\* It holds always.
LEMMA IInvHolds ==
  Spec => []IInv
<1>1. Init => IInv
  BY IInvInit
<1>2. IInv /\ [Next]_vars => IInv'
  BY IInvNext
<1> QED
  BY <1>1, <1>2, PTL DEF Spec

(* Every variable of the client, the connection and the queue keeps its    *)
(* type, the identifiers that are noted, sent or answered being among      *)
(* those that were made.                                                   *)
THEOREM ClientTypeCorrect ==
  Spec => []TypeOK
<1>1. IInv => TypeOK
  BY DEF IInv
<1> QED
  BY <1>1, IInvHolds, PTL

(* A handler that was asked for and has not raised runs or has one request *)
(* outstanding (disqueue.py:121-126, disqueue.ts:87-100).                  *)
THEOREM HandlersHaveOneRequest ==
  Spec => []OneRequestPerHandler
<1>1. ASSUME IInv PROVE OneRequestPerHandler
  <2> SUFFICES ASSUME NEW h \in Handler
               PROVE  Cardinality(Identifiers(h)) + Cardinality(Threads(h)) =
                        IF h \in asked \ failed THEN 1 ELSE 0
    BY DEF OneRequestPerHandler
  <2>1. Cardinality({}) = 0 /\ \A x : Cardinality({x}) = 1
    BY FS_EmptySet, FS_Singleton
  <2>2. CASE h \in asked \ failed
    <3>1. CASE Threads(h) = {} /\ \E id \in Known : Identifiers(h) = {id}
      <4>1. Cardinality(Threads(h)) = 0 /\ Cardinality(Identifiers(h)) = 1
        BY <2>1, <3>1
      <4> QED
        BY <2>2, <4>1
    <3>2. CASE Identifiers(h) = {} /\ \E t \in running : Threads(h) = {t}
      <4>1. Cardinality(Threads(h)) = 1 /\ Cardinality(Identifiers(h)) = 0
        BY <2>1, <3>2
      <4> QED
        BY <2>2, <4>1
    <3> QED
      BY <1>1, <2>2, <3>1, <3>2 DEF IInv, HandlerInv
  <2>3. CASE h \notin asked \ failed
    <3>1. Cardinality(Threads(h)) = 0 /\ Cardinality(Identifiers(h)) = 0
      BY <1>1, <2>1, <2>3 DEF IInv, HandlerInv
    <3> QED
      BY <2>3, <3>1
  <2> QED
    BY <2>2, <2>3
<1> QED
  BY <1>1, IInvHolds, PTL

(* While the connection is open, only identifiers that the client knows    *)
(* are anywhere, and each is in one place, so that pop finds what it looks *)
(* for (disqueue.py:121, :140, disqueue.ts:87).                            *)
THEOREM RequestsAreSomewhere ==
  Spec => []RequestIsSomewhere
<1>1. ASSUME IInv PROVE RequestIsSomewhere
  <2> SUFFICES ASSUME connection = "open"
               PROVE  /\ UNION ToSet(Places) \subseteq DOMAIN waiting_identifiers
                      /\ open => \A id \in DOMAIN waiting_identifiers :
                           Quantify(DOMAIN Places, LAMBDA n : id \in Places[n]) = 1
    BY DEF RequestIsSomewhere
  <2>1. PlacesInv /\ Unsent \subseteq Known
    BY <1>1 DEF IInv, OpenInv, HandlerInv, Unsent
  <2>2. /\ DOMAIN Places = 1..4
        /\ Places[1] = Unsent /\ Places[2] = Ids(up) /\ Places[3] = Waits /\ Places[4] = Answers
    BY DEF Places
  <2>3. \A n \in 1..4 : n = 1 \/ n = 2 \/ n = 3 \/ n = 4
    OBVIOUS
  <2>4. UNION ToSet(Places) \subseteq DOMAIN waiting_identifiers
    <3>1. \A n \in 1..4 : Places[n] \subseteq Known
      BY <2>1, <2>2, <2>3 DEF PlacesInv
    <3> QED
      BY <2>2, <3>1 DEF ToSet, Known
  <2>5. ASSUME open, NEW id \in DOMAIN waiting_identifiers
        PROVE  Quantify(DOMAIN Places, LAMBDA n : id \in Places[n]) = 1
    <3>1. \E m \in 1..4 : { n \in 1..4 : id \in Places[n] } = {m}
      <4>1. id \in Unsent \cup Ids(up) \cup Waits \cup Answers
        BY <2>1, <2>5 DEF PlacesInv, Known
      <4>2. CASE id \in Unsent
        <5>1. { n \in 1..4 : id \in Places[n] } = {1}
          BY <2>1, <2>2, <2>3, <4>2 DEF PlacesInv
        <5> QED
          BY <5>1
      <4>3. CASE id \in Ids(up)
        <5>1. { n \in 1..4 : id \in Places[n] } = {2}
          BY <2>1, <2>2, <2>3, <4>3 DEF PlacesInv
        <5> QED
          BY <5>1
      <4>4. CASE id \in Waits
        <5>1. { n \in 1..4 : id \in Places[n] } = {3}
          BY <2>1, <2>2, <2>3, <4>4 DEF PlacesInv
        <5> QED
          BY <5>1
      <4>5. CASE id \in Answers
        <5>1. { n \in 1..4 : id \in Places[n] } = {4}
          BY <2>1, <2>2, <2>3, <4>5 DEF PlacesInv
        <5> QED
          BY <5>1
      <4> QED
        BY <4>1, <4>2, <4>3, <4>4, <4>5
    <3>2. Cardinality({ n \in DOMAIN Places : id \in Places[n] }) = 1
      BY <2>2, <3>1, FS_Singleton
    <3> QED
      BY <3>2 DEF Quantify
  <2> QED
    BY <2>4, <2>5
<1> QED
  BY <1>1, IInvHolds, PTL

(* An item that the queue gave to a request is on its way or has reached a *)
(* handler, and not both, while the connection lasts (connection-ws.c:184, *)
(* disqueue.py:140).                                                       *)
THEOREM GivenIsAlwaysHandled ==
  Spec => []GivenIsHandled
<1>1. ASSUME IInv PROVE GivenIsHandled
  <2> SUFFICES ASSUME NEW i \in Item, fate[i].to \in Id, connection = "open"
               PROVE  (\E n \in DOMAIN down : down[n].item = i) # Seen(i)
    BY DEF GivenIsHandled, Seen
  <2>1. AnswerInv
    BY <1>1 DEF IInv, OpenInv
  <2>2. Seen(i) \/ \E n \in DOMAIN down : down[n].item = i
    BY <2>1 DEF AnswerInv
  <2>3. ASSUME NEW n \in DOMAIN down, down[n].item = i
        PROVE  ~ Seen(i)
    <3>1. down[n].id # 0
      BY <2>1, <2>3, Items DEF AnswerInv
    <3> QED
      BY <2>1, <2>3, <3>1 DEF AnswerInv
  <2> QED
    BY <2>2, <2>3
<1> QED
  BY <1>1, IInvHolds, PTL

(* A handler only sees items given for its key, each after those put       *)
(* before it (disqueue.py:130).                                            *)
THEOREM ItemsComeInOrder ==
  Spec => []HandledInOrder
<1>1. IInv => HandledInOrder
  BY DEF IInv, SeenInv, HandledInOrder
<1> QED
  BY <1>1, IInvHolds, PTL
=============================================================================
