--------------------------- MODULE QueueOpsProofs ---------------------------
(***************************************************************************)
(* Facts about the operators of QueueOps, for every queue and every set of *)
(* items and waiters: what the scans behind the short cuts find, and how   *)
(* the counters follow the lists.                                          *)
(***************************************************************************)
EXTENDS QueueOps, SequenceTheorems, FiniteSetTheorems, WellFoundedInduction, TLAPS

(* A nonempty set of natural numbers has its minimum as an element.        *)
LEMMA MinIsLeast ==
  ASSUME NEW S \in SUBSET Nat, S # {}
  PROVE  /\ Min(S) \in S
         /\ \A y \in S : Min(S) <= y
<1>1. \E x \in S : \A y \in S : ~ (<<y, x>> \in OpToRel(<, Nat))
  BY NatLessThanWellFounded, WFMin, S # {}
<1>2. PICK x \in S : \A y \in S : ~ (<<y, x>> \in OpToRel(<, Nat))
  BY <1>1
<1>3. ASSUME NEW y \in S
      PROVE  x <= y
  <2>1. <<y, x>> \in Nat \X Nat /\ y < x => <<y, x>> \in OpToRel(<, Nat)
    BY DEF OpToRel
  <2>2. <<y, x>> \notin OpToRel(<, Nat)
    BY <1>2, Zenon
  <2>3. <<y, x>> \in Nat \X Nat /\ ~ (y < x)
    <3>1. <<y, x>> \in Nat \X Nat
      OBVIOUS
    <3> QED
      BY <2>1, <2>2, <3>1, Zenon
  <2> QED
    BY <2>3
<1> QED
  BY <1>3 DEF Min

(* Removing position n shortens a sequence by one and shifts what is       *)
(* behind n.                                                               *)
LEMMA RemoveAtProperties ==
  ASSUME NEW S, NEW s \in Seq(S), NEW n \in 1..Len(s)
  PROVE  /\ RemoveAt(s, n) \in Seq(S)
         /\ Len(RemoveAt(s, n)) = Len(s) - 1
         /\ \A i \in 1..(Len(s) - 1) :
               RemoveAt(s, n)[i] = IF i < n THEN s[i] ELSE s[i + 1]
<1> DEFINE front == SubSeq(s, 1, n - 1)
           back == SubSeq(s, n + 1, Len(s))
<1>1. /\ Len(s) \in Nat
      /\ \A i \in 1..Len(s) : s[i] \in S
  BY ElementOfSeq
<1>2. /\ front \in Seq(S)
      /\ Len(front) = n - 1
      /\ \A i \in 1..(n - 1) : front[i] = s[i]
  BY <1>1, SubSeqProperties
<1>3. /\ back \in Seq(S)
      /\ Len(back) = Len(s) - n
      /\ \A i \in 1..(Len(s) - n) : back[i] = s[n + i]
  <2>1. \A i \in (n + 1)..Len(s) : s[i] \in S
    BY <1>1
  <2>2. /\ back \in Seq(S)
        /\ Len(back) = IF n + 1 <= Len(s) THEN Len(s) - (n + 1) + 1 ELSE 0
        /\ \A i \in 1..(Len(s) - (n + 1) + 1) : back[i] = s[(n + 1) + i - 1]
    BY <1>1, <2>1, SubSeqProperties
  <2> QED
    BY <1>1, <2>2
<1>4. /\ RemoveAt(s, n) = front \o back
  BY DEF RemoveAt
<1> HIDE DEF front, back
<1>5. /\ front \o back \in Seq(S)
      /\ Len(front \o back) = Len(front) + Len(back)
      /\ \A i \in 1..(Len(front) + Len(back)) :
            (front \o back)[i] = IF i <= Len(front) THEN front[i] ELSE back[i - Len(front)]
  BY <1>2, <1>3, ConcatProperties
<1> QED
  BY <1>1, <1>2, <1>3, <1>4, <1>5

-----------------------------------------------------------------------------
(***************************************************************************)
(* The positions of a list that carry a key.                               *)
(***************************************************************************)
LEMMA KeyedFinite ==
  ASSUME NEW R, NEW list \in ListOf(R)
  PROVE  /\ KeyedPositions(list) \subseteq 1..Len(list)
         /\ IsFiniteSet(KeyedPositions(list))
         /\ Cardinality(KeyedPositions(list)) \in Nat
<1>1. Len(list) \in Nat /\ DOMAIN list = 1..Len(list)
  BY LenProperties DEF ListOf
<1>2. KeyedPositions(list) \subseteq 1..Len(list)
  BY <1>1 DEF KeyedPositions
<1>3. IsFiniteSet(1..Len(list))
  BY <1>1, FS_Interval
<1> QED
  BY <1>2, <1>3, FS_Subset, FS_CardinalityType

(* No position is keyed when the cardinality is 0, every position is when  *)
(* it is the length.                                                       *)
LEMMA KeyedExtremes ==
  ASSUME NEW R, NEW list \in ListOf(R)
  PROVE  /\ Cardinality(KeyedPositions(list)) = 0
              => \A n \in DOMAIN list : list[n].key = NoKey
         /\ Cardinality(KeyedPositions(list)) = Len(list)
              => \A n \in DOMAIN list : list[n].key # NoKey
<1>1. Len(list) \in Nat /\ DOMAIN list = 1..Len(list)
  BY LenProperties DEF ListOf
<1>2. /\ KeyedPositions(list) \subseteq 1..Len(list)
      /\ IsFiniteSet(KeyedPositions(list))
  BY KeyedFinite
<1>3. IsFiniteSet(1..Len(list)) /\ Cardinality(1..Len(list)) = Len(list)
  <2> DEFINE L == Len(list)
  <2>1. L \in Nat
    BY <1>1
  <2> HIDE DEF L
  <2>2. IsFiniteSet(1..L) /\ Cardinality(1..L) = IF 1 > L THEN 0 ELSE L - 1 + 1
    BY <2>1, FS_Interval
  <2> QED
    BY <2>1, <2>2 DEF L
<1>4. ASSUME Cardinality(KeyedPositions(list)) = 0
      PROVE  \A n \in DOMAIN list : list[n].key = NoKey
  <2>1. KeyedPositions(list) = {}
    BY <1>2, <1>4, FS_EmptySet
  <2> QED
    BY <2>1 DEF KeyedPositions
<1>5. ASSUME Cardinality(KeyedPositions(list)) = Len(list)
      PROVE  \A n \in DOMAIN list : list[n].key # NoKey
  <2>1. KeyedPositions(list) = 1..Len(list)
    BY <1>2, <1>3, <1>5, FS_Subset
  <2> QED
    BY <1>1, <2>1 DEF KeyedPositions
<1> QED
  BY <1>4, <1>5

(* An appended entry adds one to the keyed positions if it has a key.      *)
LEMMA KeyedAppend ==
  ASSUME NEW R, NEW list \in ListOf(R), NEW r \in R, NEW k \in AnyKey
  PROVE  Cardinality(KeyedPositions(Append(list, Entry(r, k))))
           = Cardinality(KeyedPositions(list)) + One(k)
<1> DEFINE e == Entry(r, k)
           new == Append(list, e)
           last == Len(list) + 1
<1>1. Len(list) \in Nat /\ DOMAIN list = 1..Len(list)
  BY LenProperties DEF ListOf
<1>2. e \in [ref : R, key : AnyKey] /\ e.key = k
  BY DEF Entry, AnyKey
<1>3. /\ new \in ListOf(R)
      /\ Len(new) = last
      /\ \A i \in 1..Len(list) : new[i] = list[i]
      /\ new[last] = e
  BY <1>2, AppendProperties DEF ListOf
<1> HIDE DEF e, new
<1>4. DOMAIN new = 1..last
  BY <1>3, LenProperties DEF ListOf
<1>5. /\ KeyedPositions(list) \subseteq 1..Len(list)
      /\ IsFiniteSet(KeyedPositions(list))
      /\ Cardinality(KeyedPositions(list)) \in Nat
  BY KeyedFinite
<1>6. CASE k = NoKey
  <2>1. KeyedPositions(new) = KeyedPositions(list)
    BY <1>1, <1>2, <1>3, <1>4, <1>6 DEF KeyedPositions
  <2> QED
    BY <1>5, <1>6, <2>1 DEF One, new, e
<1>7. CASE k # NoKey
  <2>1. KeyedPositions(new) = KeyedPositions(list) \cup {last}
    BY <1>1, <1>2, <1>3, <1>4, <1>7 DEF KeyedPositions
  <2>2. last \notin KeyedPositions(list)
    BY <1>1, <1>5
  <2>3. Cardinality(KeyedPositions(new)) = Cardinality(KeyedPositions(list)) + 1
    BY <1>5, <2>1, <2>2, FS_AddElement
  <2> QED
    BY <1>7, <2>3 DEF One, new, e
<1> QED
  BY <1>6, <1>7

(* A removed entry takes one from the keyed positions if it had a key.     *)
LEMMA KeyedRemove ==
  ASSUME NEW R, NEW list \in ListOf(R), NEW n \in 1..Len(list)
  PROVE  Cardinality(KeyedPositions(RemoveAt(list, n)))
           = Cardinality(KeyedPositions(list)) - One(list[n].key)
<1> DEFINE new == RemoveAt(list, n)
           rest == KeyedPositions(list) \ {n}
           shift == [i \in rest |-> IF i < n THEN i ELSE i - 1]
<1>1. Len(list) \in Nat /\ DOMAIN list = 1..Len(list)
  BY LenProperties DEF ListOf
<1>2. /\ new \in ListOf(R)
      /\ Len(new) = Len(list) - 1
      /\ \A i \in 1..(Len(list) - 1) : new[i] = IF i < n THEN list[i] ELSE list[i + 1]
  BY RemoveAtProperties DEF ListOf
<1> HIDE DEF new
<1>3. DOMAIN new = 1..(Len(list) - 1)
  BY <1>2, LenProperties DEF ListOf
<1>4. /\ KeyedPositions(list) \subseteq 1..Len(list)
      /\ IsFiniteSet(KeyedPositions(list))
      /\ Cardinality(KeyedPositions(list)) \in Nat
  BY KeyedFinite
<1>5. /\ IsFiniteSet(rest)
      /\ Cardinality(rest) = Cardinality(KeyedPositions(list)) - One(list[n].key)
  <2>1. n \in KeyedPositions(list) <=> list[n].key # NoKey
    BY <1>1 DEF KeyedPositions
  <2> QED
    BY <1>4, <2>1, FS_RemoveElement DEF One
<1>6. shift \in Bijection(rest, KeyedPositions(new))
  <2>1. ASSUME NEW i \in rest
        PROVE  shift[i] \in KeyedPositions(new)
    <3>1. i \in 1..Len(list) /\ i # n /\ list[i].key # NoKey
      BY <1>1, <1>4 DEF KeyedPositions
    <3>2. shift[i] \in 1..(Len(list) - 1) /\ new[shift[i]] = list[i]
      BY <1>1, <1>2, <3>1
    <3> QED
      BY <1>3, <3>1, <3>2 DEF KeyedPositions
  <2>2. \A i, j \in rest : shift[i] = shift[j] => i = j
    BY <1>1, <1>4
  <2>3. ASSUME NEW j \in KeyedPositions(new)
        PROVE  \E i \in rest : shift[i] = j
    <3>1. j \in 1..(Len(list) - 1) /\ new[j].key # NoKey
      BY <1>3 DEF KeyedPositions
    <3> DEFINE i == IF j < n THEN j ELSE j + 1
    <3>2. i \in 1..Len(list) /\ i # n /\ list[i] = new[j]
      BY <1>1, <1>2, <3>1
    <3>3. i \in rest
      BY <1>1, <3>1, <3>2 DEF KeyedPositions
    <3>4. shift[i] = j
      BY <1>1, <3>1, <3>3
    <3> QED
      BY <3>3, <3>4
  <2> HIDE DEF shift, rest
  <2>4. shift \in [rest -> KeyedPositions(new)]
    BY <2>1 DEF shift
  <2> QED
    BY <2>2, <2>3, <2>4 DEF Bijection, Injection, Surjection, IsInjective
<1>7. Cardinality(KeyedPositions(new)) = Cardinality(rest)
  BY <1>5, <1>6, FS_Bijection DEF ExistsBijection
<1> QED
  BY <1>5, <1>7 DEF new

-----------------------------------------------------------------------------
(***************************************************************************)
(* The scans.  With exact counters the short cuts change nothing: the      *)
(* result is 0 only if no entry will do, and otherwise the first that      *)
(* does.                                                                   *)
(***************************************************************************)
LEMMA FirstAcceptingProperties ==
  ASSUME NEW I, NEW W, NEW qu \in QueueType(I, W), CountersExact(qu), NEW k \in AnyKey
  PROVE  LET n == FirstAccepting(qu, k)
             accepts(m) == Accepts(qu.callbacks[m].key, k)
         IN  /\ n \in Nat
             /\ n = 0 => \A m \in DOMAIN qu.callbacks : ~ accepts(m)
             /\ n # 0 => /\ n \in DOMAIN qu.callbacks
                         /\ accepts(n)
                         /\ \A m \in 1..(n - 1) : ~ accepts(m)
<1> DEFINE n == FirstAccepting(qu, k)
           accepts(m) == Accepts(qu.callbacks[m].key, k)
           hits == { m \in 1..Len(qu.callbacks) : accepts(m) }
<1>1. qu.callbacks \in ListOf(W)
  BY DEF QueueType
<1>2. Len(qu.callbacks) \in Nat /\ DOMAIN qu.callbacks = 1..Len(qu.callbacks)
  BY <1>1, LenProperties DEF ListOf
<1>3. CASE /\ qu.callback_count > 0
           /\ k = NoKey => qu.keyed_callback_count # qu.callback_count
  <2>1. n = IF hits # {} THEN Min(hits) ELSE 0
    BY <1>3 DEF FirstAccepting, SelectInSeq
  <2>2. hits \in SUBSET Nat
    OBVIOUS
  <2>3. CASE hits = {}
    <3> QED
      BY <1>2, <2>1, <2>3
  <2>4. CASE hits # {}
    <3>1. n \in hits /\ \A m \in hits : n <= m
      BY <2>1, <2>2, <2>4, MinIsLeast
    <3> HIDE DEF n, accepts
    <3>2. n \in 1..Len(qu.callbacks) /\ accepts(n)
      BY <3>1
    <3>3. \A m \in 1..(n - 1) : ~ accepts(m)
      BY <1>2, <3>1, <3>2
    <3> QED
      BY <1>2, <3>2, <3>3 DEF n, accepts
  <2> QED
    BY <2>3, <2>4
<1>4. CASE ~ (/\ qu.callback_count > 0
              /\ k = NoKey => qu.keyed_callback_count # qu.callback_count)
  <2>1. n = 0
    BY <1>4 DEF FirstAccepting
  <2>2. \A m \in DOMAIN qu.callbacks : ~ accepts(m)
    <3>1. CASE ~ (qu.callback_count > 0)
      BY <1>2, <3>1 DEF CountersExact
    <3>2. CASE k = NoKey /\ qu.keyed_callback_count = qu.callback_count
      <4>1. \A m \in DOMAIN qu.callbacks : qu.callbacks[m].key # NoKey
        BY <1>1, <3>2, KeyedExtremes DEF CountersExact
      <4> QED
        BY <3>2, <4>1 DEF Accepts
    <3> QED
      BY <1>4, <3>1, <3>2
  <2> QED
    BY <2>1, <2>2
<1> QED
  BY <1>3, <1>4

LEMMA FirstMatchingProperties ==
  ASSUME NEW I, NEW W, NEW qu \in QueueType(I, W), CountersExact(qu), NEW k \in AnyKey
  PROVE  LET n == FirstMatching(qu, k)
             accepts(m) == Accepts(k, qu.items[m].key)
         IN  /\ n \in Nat
             /\ n = 0 => \A m \in DOMAIN qu.items : ~ accepts(m)
             /\ n # 0 => /\ n \in DOMAIN qu.items
                         /\ accepts(n)
                         /\ \A m \in 1..(n - 1) : ~ accepts(m)
<1> DEFINE n == FirstMatching(qu, k)
           accepts(m) == Accepts(k, qu.items[m].key)
           hits == { m \in 1..Len(qu.items) : accepts(m) }
<1>1. qu.items \in ListOf(I)
  BY DEF QueueType
<1>2. Len(qu.items) \in Nat /\ DOMAIN qu.items = 1..Len(qu.items)
  BY <1>1, LenProperties DEF ListOf
<1>3. CASE /\ qu.item_count # 0
           /\ k # NoKey => qu.keyed_count > 0
  <2>1. n = IF hits # {} THEN Min(hits) ELSE 0
    BY <1>3 DEF FirstMatching, SelectInSeq
  <2>2. hits \in SUBSET Nat
    OBVIOUS
  <2>3. CASE hits = {}
    <3> QED
      BY <1>2, <2>1, <2>3
  <2>4. CASE hits # {}
    <3>1. n \in hits /\ \A m \in hits : n <= m
      BY <2>1, <2>2, <2>4, MinIsLeast
    <3> HIDE DEF n, accepts
    <3>2. n \in 1..Len(qu.items) /\ accepts(n)
      BY <3>1
    <3>3. \A m \in 1..(n - 1) : ~ accepts(m)
      BY <1>2, <3>1, <3>2
    <3> QED
      BY <1>2, <3>2, <3>3 DEF n, accepts
  <2> QED
    BY <2>3, <2>4
<1>4. CASE ~ (/\ qu.item_count # 0
              /\ k # NoKey => qu.keyed_count > 0)
  <2>1. n = 0
    BY <1>4 DEF FirstMatching
  <2>2. \A m \in DOMAIN qu.items : ~ accepts(m)
    <3>1. CASE qu.item_count = 0
      BY <1>2, <3>1 DEF CountersExact
    <3>2. CASE k # NoKey /\ ~ (qu.keyed_count > 0)
      <4>1. qu.keyed_count = 0
        BY <1>1, <3>2, KeyedFinite DEF CountersExact
      <4>2. \A m \in DOMAIN qu.items : qu.items[m].key = NoKey
        BY <1>1, <4>1, KeyedExtremes DEF CountersExact
      <4> QED
        BY <3>2, <4>2 DEF Accepts
    <3> QED
      BY <1>4, <3>1, <3>2
  <2> QED
    BY <2>1, <2>2
<1> QED
  BY <1>3, <1>4

-----------------------------------------------------------------------------
(***************************************************************************)
(* The operations keep the record's type and its counters exact.           *)
(***************************************************************************)
LEMMA NewQueueExact ==
  ASSUME NEW I, NEW W
  PROVE  /\ NewQueue \in QueueType(I, W)
         /\ CountersExact(NewQueue)
<1>1. << >> \in ListOf(I) /\ << >> \in ListOf(W) /\ Len(<< >>) = 0
  BY EmptySeq DEF ListOf
<1>2. KeyedPositions(<< >>) = {}
  BY DEF KeyedPositions
<1>3. Cardinality(KeyedPositions(<< >>)) = 0
  BY <1>2, FS_EmptySet
<1> QED
  BY <1>1, <1>3 DEF NewQueue, QueueType, CountersExact

LEMMA AddItemExact ==
  ASSUME NEW I, NEW W, NEW qu \in QueueType(I, W), CountersExact(qu),
         NEW i \in I, NEW k \in AnyKey
  PROVE  /\ AddItem(qu, i, k) \in QueueType(I, W)
         /\ CountersExact(AddItem(qu, i, k))
<1> DEFINE new == Append(qu.items, Entry(i, k))
<1>1. qu.items \in ListOf(I)
  BY DEF QueueType
<1>2. Entry(i, k) \in [ref : I, key : AnyKey]
  BY DEF Entry, AnyKey
<1>3. new \in ListOf(I) /\ Len(new) = Len(qu.items) + 1
  BY <1>1, <1>2, AppendProperties DEF ListOf
<1>4. Cardinality(KeyedPositions(new)) = Cardinality(KeyedPositions(qu.items)) + One(k)
  BY <1>1, KeyedAppend
<1>5. One(k) \in Int
  BY DEF One
<1> HIDE DEF new
<1>6. AddItem(qu, i, k) = [qu EXCEPT !.items = new, !.item_count = @ + 1,
                           !.keyed_count = @ + One(k)]
  BY DEF AddItem, new
<1>7. /\ AddItem(qu, i, k).items = new
      /\ AddItem(qu, i, k).item_count = qu.item_count + 1
      /\ AddItem(qu, i, k).keyed_count = qu.keyed_count + One(k)
      /\ AddItem(qu, i, k).callbacks = qu.callbacks
      /\ AddItem(qu, i, k).callback_count = qu.callback_count
      /\ AddItem(qu, i, k).keyed_callback_count = qu.keyed_callback_count
  BY <1>6 DEF QueueType
<1>8. AddItem(qu, i, k) \in QueueType(I, W)
  <2>1. AddItem(qu, i, k) =
          [items |-> new,
           callbacks |-> qu.callbacks,
           item_count |-> qu.item_count + 1,
           keyed_count |-> qu.keyed_count + One(k),
           callback_count |-> qu.callback_count,
           keyed_callback_count |-> qu.keyed_callback_count]
    BY <1>6 DEF QueueType
  <2> QED
    BY <1>3, <1>5, <2>1 DEF QueueType
<1>9. CountersExact(AddItem(qu, i, k))
  BY <1>3, <1>4, <1>7 DEF CountersExact
<1> QED
  BY <1>8, <1>9

LEMMA DropItemExact ==
  ASSUME NEW I, NEW W, NEW qu \in QueueType(I, W), CountersExact(qu),
         NEW n \in DOMAIN qu.items
  PROVE  /\ DropItem(qu, n) \in QueueType(I, W)
         /\ CountersExact(DropItem(qu, n))
<1> DEFINE new == RemoveAt(qu.items, n)
           key == qu.items[n].key
<1>1. qu.items \in ListOf(I) /\ n \in 1..Len(qu.items)
  BY LenProperties DEF QueueType, ListOf
<1>2. new \in ListOf(I) /\ Len(new) = Len(qu.items) - 1
  BY <1>1, RemoveAtProperties DEF ListOf
<1>3. Cardinality(KeyedPositions(new)) = Cardinality(KeyedPositions(qu.items)) - One(key)
  BY <1>1, KeyedRemove
<1>4. One(key) \in Int
  BY DEF One
<1> HIDE DEF new, key
<1>5. DropItem(qu, n) = [qu EXCEPT !.items = new, !.item_count = @ - 1,
                           !.keyed_count = @ - One(key)]
  BY DEF DropItem, new, key
<1>6. /\ DropItem(qu, n).items = new
      /\ DropItem(qu, n).item_count = qu.item_count - 1
      /\ DropItem(qu, n).keyed_count = qu.keyed_count - One(key)
      /\ DropItem(qu, n).callbacks = qu.callbacks
      /\ DropItem(qu, n).callback_count = qu.callback_count
      /\ DropItem(qu, n).keyed_callback_count = qu.keyed_callback_count
  BY <1>5 DEF QueueType
<1>7. DropItem(qu, n) \in QueueType(I, W)
  <2>1. DropItem(qu, n) =
          [items |-> new,
           callbacks |-> qu.callbacks,
           item_count |-> qu.item_count - 1,
           keyed_count |-> qu.keyed_count - One(key),
           callback_count |-> qu.callback_count,
           keyed_callback_count |-> qu.keyed_callback_count]
    BY <1>5 DEF QueueType
  <2> QED
    BY <1>2, <1>4, <2>1 DEF QueueType
<1>8. CountersExact(DropItem(qu, n))
  BY <1>2, <1>3, <1>6 DEF CountersExact
<1> QED
  BY <1>7, <1>8

LEMMA AddCallbackExact ==
  ASSUME NEW I, NEW W, NEW qu \in QueueType(I, W), CountersExact(qu),
         NEW w \in W, NEW k \in AnyKey
  PROVE  /\ AddCallback(qu, w, k) \in QueueType(I, W)
         /\ CountersExact(AddCallback(qu, w, k))
<1> DEFINE new == Append(qu.callbacks, Entry(w, k))
<1>1. qu.callbacks \in ListOf(W)
  BY DEF QueueType
<1>2. Entry(w, k) \in [ref : W, key : AnyKey]
  BY DEF Entry, AnyKey
<1>3. new \in ListOf(W) /\ Len(new) = Len(qu.callbacks) + 1
  BY <1>1, <1>2, AppendProperties DEF ListOf
<1>4. Cardinality(KeyedPositions(new)) = Cardinality(KeyedPositions(qu.callbacks)) + One(k)
  BY <1>1, KeyedAppend
<1>5. One(k) \in Int
  BY DEF One
<1> HIDE DEF new
<1>6. AddCallback(qu, w, k) = [qu EXCEPT !.callbacks = new, !.callback_count = @ + 1,
                           !.keyed_callback_count = @ + One(k)]
  BY DEF AddCallback, new
<1>7. /\ AddCallback(qu, w, k).callbacks = new
      /\ AddCallback(qu, w, k).callback_count = qu.callback_count + 1
      /\ AddCallback(qu, w, k).keyed_callback_count = qu.keyed_callback_count + One(k)
      /\ AddCallback(qu, w, k).items = qu.items
      /\ AddCallback(qu, w, k).item_count = qu.item_count
      /\ AddCallback(qu, w, k).keyed_count = qu.keyed_count
  BY <1>6 DEF QueueType
<1>8. AddCallback(qu, w, k) \in QueueType(I, W)
  <2>1. AddCallback(qu, w, k) =
          [items |-> qu.items,
           callbacks |-> new,
           item_count |-> qu.item_count,
           keyed_count |-> qu.keyed_count,
           callback_count |-> qu.callback_count + 1,
           keyed_callback_count |-> qu.keyed_callback_count + One(k)]
    BY <1>6 DEF QueueType
  <2> QED
    BY <1>3, <1>5, <2>1 DEF QueueType
<1>9. CountersExact(AddCallback(qu, w, k))
  BY <1>3, <1>4, <1>7 DEF CountersExact
<1> QED
  BY <1>8, <1>9

LEMMA DropCallbackExact ==
  ASSUME NEW I, NEW W, NEW qu \in QueueType(I, W), CountersExact(qu),
         NEW n \in DOMAIN qu.callbacks
  PROVE  /\ DropCallback(qu, n) \in QueueType(I, W)
         /\ CountersExact(DropCallback(qu, n))
<1> DEFINE new == RemoveAt(qu.callbacks, n)
           key == qu.callbacks[n].key
<1>1. qu.callbacks \in ListOf(W) /\ n \in 1..Len(qu.callbacks)
  BY LenProperties DEF QueueType, ListOf
<1>2. new \in ListOf(W) /\ Len(new) = Len(qu.callbacks) - 1
  BY <1>1, RemoveAtProperties DEF ListOf
<1>3. Cardinality(KeyedPositions(new)) = Cardinality(KeyedPositions(qu.callbacks)) - One(key)
  BY <1>1, KeyedRemove
<1>4. One(key) \in Int
  BY DEF One
<1> HIDE DEF new, key
<1>5. DropCallback(qu, n) = [qu EXCEPT !.callbacks = new, !.callback_count = @ - 1,
                           !.keyed_callback_count = @ - One(key)]
  BY DEF DropCallback, new, key
<1>6. /\ DropCallback(qu, n).callbacks = new
      /\ DropCallback(qu, n).callback_count = qu.callback_count - 1
      /\ DropCallback(qu, n).keyed_callback_count = qu.keyed_callback_count - One(key)
      /\ DropCallback(qu, n).items = qu.items
      /\ DropCallback(qu, n).item_count = qu.item_count
      /\ DropCallback(qu, n).keyed_count = qu.keyed_count
  BY <1>5 DEF QueueType
<1>7. DropCallback(qu, n) \in QueueType(I, W)
  <2>1. DropCallback(qu, n) =
          [items |-> qu.items,
           callbacks |-> new,
           item_count |-> qu.item_count,
           keyed_count |-> qu.keyed_count,
           callback_count |-> qu.callback_count - 1,
           keyed_callback_count |-> qu.keyed_callback_count - One(key)]
    BY <1>5 DEF QueueType
  <2> QED
    BY <1>2, <1>4, <2>1 DEF QueueType
<1>8. CountersExact(DropCallback(qu, n))
  BY <1>2, <1>3, <1>6 DEF CountersExact
<1> QED
  BY <1>7, <1>8

-----------------------------------------------------------------------------
(***************************************************************************)
(* The entries of a list after an append and after a removal.              *)
(***************************************************************************)
LEMMA ListEntry ==
  ASSUME NEW R, NEW list \in ListOf(R), NEW n \in DOMAIN list
  PROVE  list[n].ref \in R /\ list[n].key \in AnyKey
<1>1. n \in 1..Len(list)
  BY LenProperties DEF ListOf
<1>2. list[n] \in [ref : R, key : AnyKey]
  BY <1>1, ElementOfSeq DEF ListOf
<1> QED
  BY <1>2

LEMMA AppendEntry ==
  ASSUME NEW R, NEW list \in ListOf(R), NEW r \in R, NEW k \in AnyKey
  PROVE  LET new == Append(list, Entry(r, k))
             last == Len(list) + 1
         IN  /\ DOMAIN new = DOMAIN list \cup {last}
             /\ last \notin DOMAIN list
             /\ \A m \in DOMAIN list : new[m] = list[m]
             /\ new[last].ref = r
             /\ new[last].key = k
<1> DEFINE e == Entry(r, k)
           new == Append(list, e)
<1>1. Len(list) \in Nat /\ DOMAIN list = 1..Len(list)
  BY LenProperties DEF ListOf
<1>2. e \in [ref : R, key : AnyKey] /\ e.ref = r /\ e.key = k
  BY DEF Entry, AnyKey
<1> HIDE DEF e
<1>3. /\ new \in ListOf(R)
      /\ Len(new) = Len(list) + 1
      /\ \A i \in 1..Len(list) : new[i] = list[i]
      /\ new[Len(list) + 1] = e
  BY <1>2, AppendProperties DEF ListOf
<1>4. DOMAIN new = 1..(Len(list) + 1)
  BY <1>3, LenProperties DEF ListOf
<1> HIDE DEF new
<1>5. 1..(Len(list) + 1) = 1..Len(list) \cup {Len(list) + 1}
  BY <1>1
<1> QED
  BY <1>1, <1>2, <1>3, <1>4, <1>5 DEF new, e

LEMMA RemoveEntry ==
  ASSUME NEW R, NEW list \in ListOf(R), NEW n \in DOMAIN list
  PROVE  LET new == RemoveAt(list, n)
         IN  \E from \in [DOMAIN new -> DOMAIN list \ {n}] :
               /\ \A m \in DOMAIN new : new[m] = list[from[m]]
               /\ \A m, l \in DOMAIN new : from[m] = from[l] => m = l
               /\ \A l \in DOMAIN list \ {n} : \E m \in DOMAIN new : from[m] = l
<1> DEFINE new == RemoveAt(list, n)
           from == [m \in DOMAIN new |-> IF m < n THEN m ELSE m + 1]
<1>1. /\ Len(list) \in Nat
      /\ DOMAIN list = 1..Len(list)
      /\ n \in 1..Len(list)
  BY LenProperties DEF ListOf
<1>2. /\ new \in ListOf(R)
      /\ Len(new) = Len(list) - 1
      /\ \A i \in 1..(Len(list) - 1) : new[i] = IF i < n THEN list[i] ELSE list[i + 1]
  BY <1>1, RemoveAtProperties DEF ListOf
<1>3. DOMAIN new = 1..(Len(list) - 1)
  BY <1>2, LenProperties DEF ListOf
<1> HIDE DEF new
<1>4. from \in [DOMAIN new -> DOMAIN list \ {n}]
  BY <1>1, <1>3
<1>5. \A m \in DOMAIN new : new[m] = list[from[m]]
  BY <1>1, <1>2, <1>3
<1>6. \A m, l \in DOMAIN new : from[m] = from[l] => m = l
  BY <1>1, <1>3
<1>7. ASSUME NEW l \in DOMAIN list \ {n}
      PROVE  \E m \in DOMAIN new : from[m] = l
  <2> DEFINE m == IF l < n THEN l ELSE l - 1
  <2>1. m \in DOMAIN new /\ from[m] = l
    BY <1>1, <1>3
  <2> QED
    BY <2>1
<1> HIDE DEF from
<1> QED
  BY <1>4, <1>5, <1>6, <1>7 DEF new

(* Each operation changes one list.                                        *)
LEMMA AddLists ==
  ASSUME NEW I, NEW W, NEW qu \in QueueType(I, W), NEW r, NEW k
  PROVE  /\ AddItem(qu, r, k).items = Append(qu.items, Entry(r, k))
         /\ AddItem(qu, r, k).callbacks = qu.callbacks
         /\ AddCallback(qu, r, k).items = qu.items
         /\ AddCallback(qu, r, k).callbacks = Append(qu.callbacks, Entry(r, k))
  BY DEF QueueType, AddItem, AddCallback

LEMMA DropLists ==
  ASSUME NEW I, NEW W, NEW qu \in QueueType(I, W), NEW n
  PROVE  /\ DropItem(qu, n).items = RemoveAt(qu.items, n)
         /\ DropItem(qu, n).callbacks = qu.callbacks
         /\ DropCallback(qu, n).items = qu.items
         /\ DropCallback(qu, n).callbacks = RemoveAt(qu.callbacks, n)
  BY DEF QueueType, DropItem, DropCallback

-----------------------------------------------------------------------------
(***************************************************************************)
(* The same steps seen as sets: what a list refers to, if it refers to     *)
(* nothing twice.                                                          *)
(***************************************************************************)
Refs(list) == { list[n].ref : n \in DOMAIN list }

Distinct(list) == \A n, m \in DOMAIN list : list[n].ref = list[m].ref => n = m

LEMMA RefsType ==
  ASSUME NEW R, NEW list \in ListOf(R)
  PROVE  Refs(list) \subseteq R
  BY ListEntry DEF Refs

LEMMA AppendRefs ==
  ASSUME NEW R, NEW list \in ListOf(R), NEW r \in R, NEW k \in AnyKey
  PROVE  LET new == Append(list, Entry(r, k))
         IN  /\ Refs(new) = Refs(list) \cup {r}
             /\ Distinct(list) /\ r \notin Refs(list) => Distinct(new)
<1> DEFINE new == Append(list, Entry(r, k))
           last == Len(list) + 1
<1>1. /\ DOMAIN new = DOMAIN list \cup {last}
      /\ last \notin DOMAIN list
      /\ \A m \in DOMAIN list : new[m] = list[m]
      /\ new[last].ref = r
  BY AppendEntry
<1> HIDE DEF new, last
<1>2. Refs(new) = Refs(list) \cup {r}
  BY <1>1 DEF Refs
<1>3. Distinct(list) /\ r \notin Refs(list) => Distinct(new)
  BY <1>1 DEF Distinct, Refs
<1> QED
  BY <1>2, <1>3 DEF new

LEMMA RemoveRefs ==
  ASSUME NEW R, NEW list \in ListOf(R), NEW n \in DOMAIN list, Distinct(list)
  PROVE  LET new == RemoveAt(list, n)
         IN  /\ Refs(new) = Refs(list) \ {list[n].ref}
             /\ Distinct(new)
<1> DEFINE new == RemoveAt(list, n)
<1>1. PICK from \in [DOMAIN new -> DOMAIN list \ {n}] :
               /\ \A m \in DOMAIN new : new[m] = list[from[m]]
               /\ \A m, l \in DOMAIN new : from[m] = from[l] => m = l
               /\ \A l \in DOMAIN list \ {n} : \E m \in DOMAIN new : from[m] = l
  BY RemoveEntry
<1> HIDE DEF new
<1>2. \A m \in DOMAIN new : from[m] \in DOMAIN list /\ from[m] # n
  BY <1>1
<1>3. Refs(new) \subseteq Refs(list) \ {list[n].ref}
  BY <1>1, <1>2 DEF Refs, Distinct
<1>4. Refs(list) \ {list[n].ref} \subseteq Refs(new)
  <2> SUFFICES ASSUME NEW l \in DOMAIN list, list[l].ref # list[n].ref
               PROVE  list[l].ref \in Refs(new)
    BY DEF Refs
  <2>1. PICK m \in DOMAIN new : from[m] = l
    BY <1>1
  <2> QED
    BY <1>1, <2>1 DEF Refs
<1>5. Distinct(new)
  BY <1>1, <1>2 DEF Distinct
<1> QED
  BY <1>3, <1>4, <1>5 DEF new

(***************************************************************************)
(* A queue as it should be: its counters are exact, nothing in it is       *)
(* wanted by anybody who waits, and it holds nothing twice.  Each operator *)
(* keeps it so, used as the program uses it.                               *)
(***************************************************************************)
Sound(q, I, W) ==
  /\ q \in QueueType(I, W)
  /\ CountersExact(q)
  /\ NothingStranded(q)
  /\ Distinct(q.items)
  /\ Distinct(q.callbacks)

LEMMA NewQueueSound ==
  ASSUME NEW I, NEW W
  PROVE  /\ Sound(NewQueue, I, W)
         /\ Refs(NewQueue.items) = {}
         /\ Refs(NewQueue.callbacks) = {}
<1>1. NewQueue.items = << >> /\ NewQueue.callbacks = << >>
  BY DEF NewQueue
<1>2. NewQueue \in QueueType(I, W) /\ CountersExact(NewQueue)
  BY NewQueueExact
<1>3. DOMAIN << >> = {}
  OBVIOUS
<1> QED
  BY <1>1, <1>2, <1>3 DEF Sound, NothingStranded, Distinct, Refs

LEMMA SoundLists ==
  ASSUME NEW I, NEW W, NEW qu, Sound(qu, I, W)
  PROVE  /\ qu.items \in ListOf(I) /\ Refs(qu.items) \subseteq I
         /\ qu.callbacks \in ListOf(W) /\ Refs(qu.callbacks) \subseteq W
  BY RefsType DEF Sound, QueueType

LEMMA AddItemSound ==
  ASSUME NEW I, NEW W, NEW qu, Sound(qu, I, W), NEW i \in I, NEW k \in AnyKey,
         FirstAccepting(qu, k) = 0, i \notin Refs(qu.items)
  PROVE  LET new == AddItem(qu, i, k)
         IN  /\ Sound(new, I, W)
             /\ Refs(new.items) = Refs(qu.items) \cup {i}
             /\ Refs(new.callbacks) = Refs(qu.callbacks)
<1> DEFINE new == AddItem(qu, i, k)
           last == Len(qu.items) + 1
<1>1. /\ qu \in QueueType(I, W) /\ CountersExact(qu)
      /\ qu.items \in ListOf(I)
  BY SoundLists DEF Sound
<1>2. new \in QueueType(I, W) /\ CountersExact(new)
  BY <1>1, AddItemExact
<1>3. /\ new.items = Append(qu.items, Entry(i, k))
      /\ new.callbacks = qu.callbacks
  BY <1>1, AddLists
<1>4. /\ DOMAIN new.items = DOMAIN qu.items \cup {last}
      /\ \A m \in DOMAIN qu.items : new.items[m] = qu.items[m]
      /\ new.items[last].key = k
  BY <1>1, <1>3, AppendEntry
<1>5. Refs(new.items) = Refs(qu.items) \cup {i} /\ Distinct(new.items)
  BY <1>1, <1>3, AppendRefs DEF Sound
<1>6. \A m \in DOMAIN qu.callbacks : ~ Accepts(qu.callbacks[m].key, k)
  BY <1>1, FirstAcceptingProperties
<1> HIDE DEF new, last
<1>7. NothingStranded(new)
  BY <1>3, <1>4, <1>6 DEF NothingStranded, Sound
<1> QED
  BY <1>2, <1>3, <1>5, <1>7 DEF Sound, new

LEMMA AddCallbackSound ==
  ASSUME NEW I, NEW W, NEW qu, Sound(qu, I, W), NEW w \in W, NEW k \in AnyKey,
         FirstMatching(qu, k) = 0, w \notin Refs(qu.callbacks)
  PROVE  LET new == AddCallback(qu, w, k)
         IN  /\ Sound(new, I, W)
             /\ Refs(new.items) = Refs(qu.items)
             /\ Refs(new.callbacks) = Refs(qu.callbacks) \cup {w}
<1> DEFINE new == AddCallback(qu, w, k)
           last == Len(qu.callbacks) + 1
<1>1. /\ qu \in QueueType(I, W) /\ CountersExact(qu)
      /\ qu.callbacks \in ListOf(W)
  BY SoundLists DEF Sound
<1>2. new \in QueueType(I, W) /\ CountersExact(new)
  BY <1>1, AddCallbackExact
<1>3. /\ new.callbacks = Append(qu.callbacks, Entry(w, k))
      /\ new.items = qu.items
  BY <1>1, AddLists
<1>4. /\ DOMAIN new.callbacks = DOMAIN qu.callbacks \cup {last}
      /\ \A m \in DOMAIN qu.callbacks : new.callbacks[m] = qu.callbacks[m]
      /\ new.callbacks[last].key = k
  BY <1>1, <1>3, AppendEntry
<1>5. Refs(new.callbacks) = Refs(qu.callbacks) \cup {w} /\ Distinct(new.callbacks)
  BY <1>1, <1>3, AppendRefs DEF Sound
<1>6. \A m \in DOMAIN qu.items : ~ Accepts(k, qu.items[m].key)
  BY <1>1, FirstMatchingProperties
<1> HIDE DEF new, last
<1>7. NothingStranded(new)
  BY <1>3, <1>4, <1>6 DEF NothingStranded, Sound
<1> QED
  BY <1>2, <1>3, <1>5, <1>7 DEF Sound, new

LEMMA DropItemSound ==
  ASSUME NEW I, NEW W, NEW qu, Sound(qu, I, W), NEW k \in AnyKey,
         FirstMatching(qu, k) # 0
  PROVE  LET n == FirstMatching(qu, k)
             new == DropItem(qu, n)
             i == qu.items[n].ref
         IN  /\ i \in Refs(qu.items)
             /\ Sound(new, I, W)
             /\ Refs(new.items) = Refs(qu.items) \ {i}
             /\ Refs(new.callbacks) = Refs(qu.callbacks)
<1> DEFINE n == FirstMatching(qu, k)
           new == DropItem(qu, n)
           i == qu.items[n].ref
<1>1. /\ qu \in QueueType(I, W) /\ CountersExact(qu)
      /\ qu.items \in ListOf(I)
  BY SoundLists DEF Sound
<1>2. n \in DOMAIN qu.items
  BY <1>1, FirstMatchingProperties
<1> HIDE DEF n
<1>3. new \in QueueType(I, W) /\ CountersExact(new)
  BY <1>1, <1>2, DropItemExact
<1>4. /\ new.items = RemoveAt(qu.items, n)
      /\ new.callbacks = qu.callbacks
  BY <1>1, DropLists
<1>5. PICK from \in [DOMAIN new.items -> DOMAIN qu.items \ {n}] :
         \A m \in DOMAIN new.items : new.items[m] = qu.items[from[m]]
  BY <1>1, <1>2, <1>4, RemoveEntry
<1>6. Refs(new.items) = Refs(qu.items) \ {i} /\ Distinct(new.items)
  BY <1>1, <1>2, <1>4, RemoveRefs DEF Sound
<1>7. i \in Refs(qu.items)
  BY <1>2 DEF Refs
<1> HIDE DEF new, i
<1>8. NothingStranded(new)
  BY <1>4, <1>5 DEF NothingStranded, Sound
<1> QED
  BY <1>3, <1>4, <1>6, <1>7, <1>8 DEF Sound, new, i, n

LEMMA DropCallbackSound ==
  ASSUME NEW I, NEW W, NEW qu, Sound(qu, I, W), NEW k \in AnyKey,
         FirstAccepting(qu, k) # 0
  PROVE  LET n == FirstAccepting(qu, k)
             new == DropCallback(qu, n)
             w == qu.callbacks[n].ref
         IN  /\ w \in Refs(qu.callbacks)
             /\ Sound(new, I, W)
             /\ Refs(new.items) = Refs(qu.items)
             /\ Refs(new.callbacks) = Refs(qu.callbacks) \ {w}
<1> DEFINE n == FirstAccepting(qu, k)
           new == DropCallback(qu, n)
           w == qu.callbacks[n].ref
<1>1. /\ qu \in QueueType(I, W) /\ CountersExact(qu)
      /\ qu.callbacks \in ListOf(W)
  BY SoundLists DEF Sound
<1>2. n \in DOMAIN qu.callbacks
  BY <1>1, FirstAcceptingProperties
<1> HIDE DEF n
<1>3. new \in QueueType(I, W) /\ CountersExact(new)
  BY <1>1, <1>2, DropCallbackExact
<1>4. /\ new.callbacks = RemoveAt(qu.callbacks, n)
      /\ new.items = qu.items
  BY <1>1, DropLists
<1>5. PICK from \in [DOMAIN new.callbacks -> DOMAIN qu.callbacks \ {n}] :
         \A m \in DOMAIN new.callbacks : new.callbacks[m] = qu.callbacks[from[m]]
  BY <1>1, <1>2, <1>4, RemoveEntry
<1>6. Refs(new.callbacks) = Refs(qu.callbacks) \ {w} /\ Distinct(new.callbacks)
  BY <1>1, <1>2, <1>4, RemoveRefs DEF Sound
<1>7. w \in Refs(qu.callbacks)
  BY <1>2 DEF Refs
<1> HIDE DEF new, w
<1>8. NothingStranded(new)
  BY <1>4, <1>5 DEF NothingStranded, Sound
<1> QED
  BY <1>3, <1>4, <1>6, <1>7, <1>8 DEF Sound, new, w, n
=============================================================================
