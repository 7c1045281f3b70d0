-------------------------- MODULE LinkedBookProofs --------------------------
(***************************************************************************)
(* The linked lists of the orderbook are, in every state and for any       *)
(* number of orders, sorted lists that hold every order once, and what     *)
(* transactions do to them is what PriorityBook promises.                  *)
(*                                                                         *)
(* Good(d, b, q, F) says that the Data d is made of the books b and the    *)
(* queues q, sequences of ids, when the orders F are on their way from one *)
(* list to another.  First the walks: what is read along the pointers is   *)
(* b and q.  Then one operation after the other: an insertion at the spot  *)
(* of its price, a removal, a sweep of expired orders and a pop each turn  *)
(* a Good Data into a Good Data of other lists, and the hints only choose  *)
(* where a walk starts.  The actions are made of those operations, so IInv *)
(* is inductive.  At last the lists are compared with the sequences of     *)
(* PriorityBook, and the history of Lifespan with the number of the tick.  *)
(*                                                                         *)
(* All of it assumes HintsInBook: the hints that move pending orders name  *)
(* none that is pending.  The code accepts such a hint, and then the lists *)
(* are not what these theorems say (the run PendingHint).  And it assumes  *)
(* that every order is inserted with a lifespan of at least 1.             *)
(***************************************************************************)
EXTENDS Lifespan, Lemmas, TLAPS

-----------------------------------------------------------------------------
(* A Data and the sequences of ids that its linked lists are. *)

OrderRecords ==
    [id : 0 .. MaxOrders, orderType : OrderTypes, price : {0} \union Prices, next : 0 .. MaxOrders, expiresInTick : Nat]

DataRecords ==
    [orders       : [0 .. MaxOrders -> OrderRecords],
     firstId      : [OrderTypes -> 0 .. MaxOrders],
     lengthOf     : [OrderTypes -> Nat],
     length       : Nat,
     firstPending : [OrderTypes -> 0 .. MaxOrders],
     lastPending  : [OrderTypes -> 0 .. MaxOrders],
     pendings     : [OrderTypes -> Nat]]

\* The id a pointer to the list s holds.
First(s) == IF s = <<>> THEN 0 ELSE s[1]

\* Where the order s[n] points to.
Successor(s, n) == IF n = Len(s) THEN 0 ELSE s[n + 1]

Chained(orders, s) == \A n \in 1 .. Len(s) : orders[s[n]].next = Successor(s, n)

\* Order i is served before order j.
Better(orders, i, j) ==
    GoesBefore(orders[i].price, orders[j].price) \/ (orders[i].price = orders[j].price /\ i < j)

Ranked(orders, s) == \A m, n \in 1 .. Len(s) : m < n => Better(orders, s[m], s[n])

Increasing(w) == \A m, n \in 1 .. Len(w) : m < n => w[m] < w[n]

\* The orders of the lists s and w are stored, have type t, and are not in F.
Owned(orders, t, s, w, F) ==
    \A id \in In(s) \union In(w) : orders[id].id = id /\ orders[id].orderType = t /\ id \notin F

\* s is the book and w the pending queue of type t; F are orders on their way.
Half(d, t, s, w, F) ==
    /\ s \in Seq(Ids) /\ w \in Seq(Ids)
    /\ Distinct(s) /\ Increasing(w)
    /\ Chained(d.orders, s) /\ Chained(d.orders, w)
    /\ Ranked(d.orders, s)
    /\ \A i \in In(s), j \in In(w) : i < j
    /\ Owned(d.orders, t, s, w, F)
    /\ d.firstId[t] = First(s)
    /\ d.lengthOf[t] = Len(s)
    /\ d.pendings[t] = Len(w)
    /\ w # <<>> => d.firstPending[t] = w[1] /\ d.lastPending[t] = w[Len(w)]

\* Every stored order is in a list or in F.
Covered(orders, b, q, F) ==
    /\ F \subseteq Ids
    /\ \A id \in F : orders[id].id = id
    /\ \A id \in 0 .. MaxOrders :
          \/ orders[id] = NullOrder
          \/ orders[id].id = id /\ (id \in F \/ \E t \in OrderTypes : id \in In(b[t]) \union In(q[t]))

Good(d, b, q, F) ==
    /\ d \in DataRecords
    /\ \A t \in OrderTypes : Half(d, t, b[t], q[t], F)
    /\ d.length = d.lengthOf["LIMIT_ORDER"] + d.lengthOf["MARKET_ORDER"]
    /\ Covered(d.orders, b, q, F)

-----------------------------------------------------------------------------
(* Walks. *)

\* The function that Follow defines.
LEMMA FollowIs ==
    ASSUME NEW d, d.orders \in [0 .. MaxOrders -> OrderRecords], NEW id \in 0 .. MaxOrders
    PROVE  /\ Follow(d, id) \in [0 .. MaxOrders -> 0 .. MaxOrders]
           /\ Follow(d, id)[0] = id
           /\ \A k \in 0 .. MaxOrders : k # 0 => Follow(d, id)[k] = d.orders[Follow(d, id)[k - 1]].next
  <1> DEFINE A == 0 .. MaxOrders
             Eq(f) == f = [k \in 0 .. MaxOrders |-> IF k = 0 THEN id ELSE d.orders[f[k - 1]].next]
             walk == CHOOSE f : Eq(f)
             step == [p \in Nat \X A |-> d.orders[p[2]].next]
  <1>1. MaxOrders \in Nat
    BY OrderBookAssumption
  <1>2. step \in [Nat \X A -> A]
    <2>1. \A x \in A : d.orders[x].next \in A
      BY DEF OrderRecords
    <2>2. \A p \in Nat \X A : p[2] \in A
      OBVIOUS
    <2>3. QED
      BY <2>1, <2>2
  <1>3. PICK f \in [0 .. MaxOrders -> A] : Recurses(f, MaxOrders, id, step)
    <2> HIDE DEF step
    <2>1. id \in A
      OBVIOUS
    <2> HIDE DEF A
    <2>2. QED
      BY <1>1, <1>2, <2>1, RecursionExists
  <1>4. ASSUME NEW k \in 0 .. MaxOrders, k # 0
        PROVE  f[k] = d.orders[f[k - 1]].next
    <2>1. k \in Nat /\ k - 1 \in 0 .. MaxOrders
      BY <1>1, <1>4
    <2>2. f[k - 1] \in A
      BY <1>3, <2>1
    <2>3. f[k] = step[<<k, f[k - 1]>>]
      BY <1>3, <1>4 DEF Recurses
    <2>4. QED
      BY <2>1, <2>2, <2>3
  <1>5. f[0] = id
    <2>1. 0 \in 0 .. MaxOrders
      BY <1>1
    <2>2. QED
      BY <1>3, <2>1 DEF Recurses
  <1> HIDE DEF step
  <1>6. Eq(f)
    BY <1>3, <1>4, <1>5
  <1>7. Eq(walk)
    BY <1>6
  <1>8. Follow(d, id) = walk
    BY DEF Follow
  <1> HIDE DEF walk
  <1>9. \A k \in 0 .. MaxOrders : walk[k] = IF k = 0 THEN id ELSE d.orders[walk[k - 1]].next
    BY <1>7
  <1>10. walk[0] = id /\ \A k \in 0 .. MaxOrders : k # 0 => walk[k] = d.orders[walk[k - 1]].next
    BY <1>1, <1>9
  <1>11. DOMAIN walk = 0 .. MaxOrders /\ walk = [k \in 0 .. MaxOrders |-> walk[k]]
    BY <1>7
  <1> DEFINE S == {n \in Nat : n <= MaxOrders => walk[n] \in A}
  <1>12. 0 \in S
    BY <1>10
  <1>13. ASSUME NEW n \in Nat, n \in S
         PROVE  n + 1 \in S
    <2> SUFFICES ASSUME n + 1 <= MaxOrders
                 PROVE  walk[n + 1] \in A
      OBVIOUS
    <2>1. n \in 0 .. MaxOrders /\ n + 1 \in 0 .. MaxOrders /\ n + 1 # 0 /\ n + 1 - 1 = n
      BY <1>1
    <2>2. walk[n] \in A
      BY <1>13, <2>1
    <2>3. walk[n + 1] = d.orders[walk[n]].next
      BY <1>10, <2>1
    <2>4. QED
      BY <2>2, <2>3 DEF OrderRecords
  <1> HIDE DEF S
  <1>14. Nat \subseteq S
    BY <1>12, <1>13, NaturalInduction
  <1>15. \A k \in 0 .. MaxOrders : walk[k] \in A
    BY <1>1, <1>14 DEF S
  <1>16. walk \in [0 .. MaxOrders -> A]
    BY <1>11, <1>15
  <1>17. QED
    BY <1>8, <1>10, <1>16

\* A list of distinct ids is not longer than there are ids.
LEMMA ListsAreShort ==
    ASSUME NEW s \in Seq(Ids), Distinct(s)
    PROVE  Len(s) \in 0 .. MaxOrders
  <1>1. DOMAIN s = 1 .. Len(s) /\ Len(s) \in Nat /\ s \in [1 .. Len(s) -> Ids] /\ MaxOrders \in Nat
    BY LenProperties, OrderBookAssumption
  <1>2. s \in Injection(1 .. Len(s), Ids)
    BY <1>1 DEF Distinct, Injection, IsInjective
  <1>3. IsFiniteSet(1 .. Len(s)) /\ Cardinality(1 .. Len(s)) = Len(s) /\ IsFiniteSet(Ids) /\ Cardinality(Ids) = MaxOrders
    <2>1. \A n \in Nat : IsFiniteSet(1 .. n) /\ Cardinality(1 .. n) = n
      <3> SUFFICES ASSUME NEW n \in Nat PROVE IsFiniteSet(1 .. n) /\ Cardinality(1 .. n) = n
        OBVIOUS
      <3>1. IsFiniteSet(1 .. n) /\ Cardinality(1 .. n) = IF 1 > n THEN 0 ELSE n - 1 + 1
        BY FS_Interval
      <3>2. QED
        BY <3>1
    <2>2. QED
      BY <1>1, <2>1 DEF Ids
  <1>4. Cardinality(1 .. Len(s)) <= Cardinality(Ids)
    BY <1>2, <1>3, FS_Injection
  <1>5. QED
    BY <1>1, <1>3, <1>4

\* A walk from the start of a list meets its orders, and then the null order.
LEMMA WalkIs ==
    ASSUME NEW d, d.orders \in [0 .. MaxOrders -> OrderRecords], d.orders[0] = NullOrder,
           NEW s \in Seq(Ids), Distinct(s), Chained(d.orders, s)
    PROVE  \A k \in 0 .. MaxOrders : Follow(d, First(s))[k] = IF k < Len(s) THEN s[k + 1] ELSE 0
  <1> DEFINE walk == Follow(d, First(s))
             Right(k) == walk[k] = IF k < Len(s) THEN s[k + 1] ELSE 0
             S == {n \in Nat : n <= MaxOrders => Right(n)}
  <1>1. /\ Len(s) \in 0 .. MaxOrders /\ MaxOrders \in Nat /\ Len(s) \in Nat
        /\ DOMAIN s = 1 .. Len(s) /\ s \in [1 .. Len(s) -> Ids]
    BY ListsAreShort, LenProperties, OrderBookAssumption
  <1>2. First(s) = IF 0 < Len(s) THEN s[1] ELSE 0
    <2>1. s = <<>> <=> Len(s) = 0
      BY EmptySeq
    <2>2. QED
      BY <1>1, <2>1 DEF First
  <1>3. First(s) \in 0 .. MaxOrders
    BY <1>1, <1>2 DEF Ids
  <1>4. /\ walk[0] = First(s)
        /\ \A k \in 0 .. MaxOrders : k # 0 => walk[k] = d.orders[walk[k - 1]].next
    BY <1>3, FollowIs
  <1> HIDE DEF walk
  <1>5. 0 \in S
    BY <1>2, <1>4
  <1>6. ASSUME NEW n \in Nat, n \in S
        PROVE  n + 1 \in S
    <2> SUFFICES ASSUME n + 1 <= MaxOrders
                 PROVE  Right(n + 1)
      OBVIOUS
    <2>1. n \in 0 .. MaxOrders /\ n + 1 \in 0 .. MaxOrders /\ n + 1 # 0 /\ n + 1 - 1 = n
      BY <1>1
    <2>2. Right(n)
      BY <1>6, <2>1
    <2>3. walk[n + 1] = d.orders[walk[n]].next
      BY <1>4, <2>1
    <2>4. CASE n < Len(s)
      <3>1. n + 1 \in 1 .. Len(s) /\ walk[n] = s[n + 1]
        BY <1>1, <2>2, <2>4
      <3>2. d.orders[s[n + 1]].next = Successor(s, n + 1)
        BY <3>1 DEF Chained
      <3>3. \A l \in Nat : n < l => (n + 1 = l <=> ~(n + 1 < l))
        OBVIOUS
      <3>4. n + 1 = Len(s) <=> ~(n + 1 < Len(s))
        BY <1>1, <2>4, <3>3
      <3>5. QED
        BY <2>3, <3>1, <3>2, <3>4 DEF Successor
    <2>5. CASE ~(n < Len(s))
      <3>1. walk[n] = 0 /\ ~(n + 1 < Len(s))
        BY <1>1, <2>2, <2>5
      <3>2. QED
        BY <2>3, <3>1 DEF NullOrder
    <2>6. QED
      BY <2>4, <2>5
  <1> HIDE DEF S
  <1>7. Nat \subseteq S
    BY <1>5, <1>6, NaturalInduction
  <1>8. QED
    BY <1>1, <1>7 DEF S, walk

\* The first of a set of places.
LEMMA FirstInIs ==
    ASSUME NEW T, T \subseteq Nat, NEW m \in T, \A j \in T : m <= j
    PROVE  FirstIn(T) = m
  <1>1. \A k \in T : (\A j \in T : k <= j) => k = m
    <2> SUFFICES ASSUME NEW k \in T, \A j \in T : k <= j PROVE k = m
      OBVIOUS
    <2>1. k \in Nat /\ m \in Nat /\ k <= m /\ m <= k
      OBVIOUS
    <2>2. QED
      BY <2>1
  <1>2. QED
    BY <1>1 DEF FirstIn

\* ListFrom, of any Data.
ListOf(d, id) ==
    LET walk == Follow(d, id)
        ends == {k \in 0 .. MaxOrders : walk[k] = 0}
    IN  [n \in 1 .. (IF ends = {} THEN MaxOrders ELSE FirstIn(ends)) |-> walk[n - 1]]

\* What ListFrom returns is the list.
LEMMA ListOfIs ==
    ASSUME NEW d, d.orders \in [0 .. MaxOrders -> OrderRecords], d.orders[0] = NullOrder,
           NEW s \in Seq(Ids), Distinct(s), Chained(d.orders, s)
    PROVE  ListOf(d, First(s)) = s
  <1> DEFINE walk == Follow(d, First(s))
             ends == {k \in 0 .. MaxOrders : walk[k] = 0}
             L == Len(s)
  <1>1. /\ L \in 0 .. MaxOrders /\ MaxOrders \in Nat /\ L \in Nat /\ L <= MaxOrders
        /\ DOMAIN s = 1 .. L /\ s \in [1 .. L -> Ids]
    BY ListsAreShort, LenProperties, OrderBookAssumption
  <1>2. \A k \in 0 .. MaxOrders : walk[k] = IF k < L THEN s[k + 1] ELSE 0
    BY WalkIs
  <1>3. ListOf(d, First(s)) = [n \in 1 .. (IF ends = {} THEN MaxOrders ELSE FirstIn(ends)) |-> walk[n - 1]]
    BY DEF ListOf
  <1> HIDE DEF walk, L
  <1>4. \A n \in 1 .. L : s[n] # 0
    BY <1>1 DEF Ids
  <1>5. \A k \in 0 .. MaxOrders : k \in ends <=> L <= k
    <2> SUFFICES ASSUME NEW k \in 0 .. MaxOrders PROVE walk[k] = 0 <=> L <= k
      OBVIOUS
    <2>1. k \in Nat /\ (k < L => k + 1 \in 1 .. L) /\ (k < L <=> ~(L <= k))
      BY <1>1
    <2>2. QED
      BY <1>2, <1>4, <2>1
  <1>6. ends \subseteq Nat /\ L \in ends /\ \A j \in ends : L <= j
    BY <1>1, <1>5
  <1>7. ends # {} /\ FirstIn(ends) = L
    <2> HIDE DEF ends
    <2>1. QED
      BY <1>6, FirstInIs
  <1>8. ListOf(d, First(s)) = [n \in 1 .. L |-> walk[n - 1]]
    <2> HIDE DEF ends
    <2>1. QED
      BY <1>3, <1>7
  <1>9. ASSUME NEW n \in 1 .. L
        PROVE  walk[n - 1] = s[n]
    <2>1. n - 1 \in 0 .. MaxOrders /\ n - 1 < L /\ n - 1 + 1 = n
      BY <1>1
    <2>2. QED
      BY <1>2, <2>1
  <1>10. QED
    BY <1>1, <1>8, <1>9

\* What Queue returns is the queue.
LEMMA QueueOfIs ==
    ASSUME NEW d, d.orders \in [0 .. MaxOrders -> OrderRecords], d.orders[0] = NullOrder,
           NEW w \in Seq(Ids), Distinct(w), Chained(d.orders, w), NEW id, w # <<>> => id = w[1]
    PROVE  [n \in 1 .. Len(w) |-> Follow(d, id)[n - 1]] = w
  <1> DEFINE L == Len(w)
  <1>1. /\ L \in 0 .. MaxOrders /\ MaxOrders \in Nat /\ L \in Nat /\ L <= MaxOrders
        /\ DOMAIN w = 1 .. L /\ w \in [1 .. L -> Ids]
    BY ListsAreShort, LenProperties, OrderBookAssumption
  <1>2. \A k \in 0 .. MaxOrders : Follow(d, First(w))[k] = IF k < L THEN w[k + 1] ELSE 0
    BY WalkIs
  <1>3. L = 0 => w = <<>>
    BY EmptySeq
  <1> HIDE DEF L
  <1>4. ASSUME NEW n \in 1 .. L
        PROVE  Follow(d, id)[n - 1] = w[n]
    <2>1. n - 1 \in 0 .. MaxOrders /\ n - 1 < L /\ n - 1 + 1 = n /\ L # 0
      BY <1>1
    <2>2. w # <<>>
      BY <2>1, EmptySeq DEF L
    <2>3. First(w) = id
      BY <2>2 DEF First
    <2>4. QED
      BY <1>2, <2>1, <2>3
  <1>5. QED
    BY <1>1, <1>4 DEF L

\* An increasing list holds no order twice.
LEMMA IncreasingIsDistinct ==
    ASSUME NEW w \in Seq(Ids), Increasing(w)
    PROVE  Distinct(w)
  <1>1. DOMAIN w = 1 .. Len(w) /\ Len(w) \in Nat /\ w \in [1 .. Len(w) -> Ids]
    BY LenProperties
  <1> SUFFICES ASSUME NEW m \in 1 .. Len(w), NEW n \in 1 .. Len(w), w[m] = w[n]
               PROVE  m = n
    BY <1>1 DEF Distinct
  <1>2. w[m] \in Nat /\ w[n] \in Nat
    BY <1>1 DEF Ids
  <1>3. m \in Nat /\ n \in Nat /\ ~(m < n) /\ ~(n < m)
    BY <1>1, <1>2 DEF Increasing
  <1>4. QED
    BY <1>3

\* Half, one conjunct at a time.
LEMMA GoodFacts ==
    ASSUME NEW d, NEW b, NEW q, NEW F, Good(d, b, q, F), NEW t \in OrderTypes
    PROVE  /\ d.orders \in [0 .. MaxOrders -> OrderRecords] /\ d.orders[0] = NullOrder
           /\ b[t] \in Seq(Ids) /\ q[t] \in Seq(Ids) /\ Distinct(b[t]) /\ Distinct(q[t]) /\ Increasing(q[t])
           /\ Chained(d.orders, b[t]) /\ Chained(d.orders, q[t]) /\ Ranked(d.orders, b[t])
           /\ Owned(d.orders, t, b[t], q[t], F)
           /\ d.firstId[t] = First(b[t]) /\ d.lengthOf[t] = Len(b[t]) /\ d.pendings[t] = Len(q[t])
           /\ q[t] # <<>> => d.firstPending[t] = q[t][1] /\ d.lastPending[t] = q[t][Len(q[t])]
  <1>1. Half(d, t, b[t], q[t], F) /\ Covered(d.orders, b, q, F) /\ d \in DataRecords
    BY DEF Good
  <1>2. d.orders \in [0 .. MaxOrders -> OrderRecords]
    BY <1>1 DEF DataRecords
  <1>3. d.orders[0] = NullOrder
    <2>1. 0 \in 0 .. MaxOrders /\ 0 \notin Ids
      BY OrderBookAssumption DEF Ids
    <2>2. \A u \in OrderTypes : In(b[u]) \union In(q[u]) \subseteq Ids
      <3> SUFFICES ASSUME NEW u \in OrderTypes PROVE In(b[u]) \union In(q[u]) \subseteq Ids
        OBVIOUS
      <3>1. b[u] \in Seq(Ids) /\ q[u] \in Seq(Ids)
        BY DEF Good, Half
      <3>2. QED
        BY <3>1, InIsFinite
    <2>3. QED
      BY <1>1, <2>1, <2>2 DEF Covered
  <1>4. /\ b[t] \in Seq(Ids) /\ q[t] \in Seq(Ids) /\ Distinct(b[t]) /\ Increasing(q[t])
        /\ Chained(d.orders, b[t]) /\ Chained(d.orders, q[t]) /\ Ranked(d.orders, b[t])
        /\ Owned(d.orders, t, b[t], q[t], F)
        /\ d.firstId[t] = First(b[t]) /\ d.lengthOf[t] = Len(b[t]) /\ d.pendings[t] = Len(q[t])
        /\ q[t] # <<>> => d.firstPending[t] = q[t][1] /\ d.lastPending[t] = q[t][Len(q[t])]
    BY <1>1 DEF Half
  <1>5. Distinct(q[t])
    BY <1>4, IncreasingIsDistinct
  <1>6. QED
    BY <1>2, <1>3, <1>4, <1>5

\* Queue, of any Data.
QueueOf(d, t) == [n \in 1 .. d.pendings[t] |-> Follow(d, d.firstPending[t])[n - 1]]

\* The operators Book and Queue of LinkedBook return the two lists.
LEMMA ListsAre ==
    ASSUME NEW d, NEW b, NEW q, NEW F, Good(d, b, q, F), NEW t \in OrderTypes
    PROVE  ListOf(d, d.firstId[t]) = b[t] /\ QueueOf(d, t) = q[t]
  <1>1. /\ d.orders \in [0 .. MaxOrders -> OrderRecords] /\ d.orders[0] = NullOrder
        /\ b[t] \in Seq(Ids) /\ q[t] \in Seq(Ids) /\ Distinct(b[t]) /\ Distinct(q[t])
        /\ Chained(d.orders, b[t]) /\ Chained(d.orders, q[t])
        /\ d.firstId[t] = First(b[t]) /\ d.lengthOf[t] = Len(b[t]) /\ d.pendings[t] = Len(q[t])
        /\ q[t] # <<>> => d.firstPending[t] = q[t][1]
    BY GoodFacts
  <1>2. ListOf(d, d.firstId[t]) = b[t]
    BY <1>1, ListOfIs
  <1>3. QueueOf(d, t) = q[t]
    BY <1>1, QueueOfIs DEF QueueOf
  <1>4. QED
    BY <1>2, <1>3

-----------------------------------------------------------------------------
(* What the operators of OrderBook write. *)

\* The orders with another "next" in one of them.
Relinked(orders, x, next) == [orders EXCEPT ![x].next = next]

\* O are the orders with that "next" in x.
OnlyNext(orders, O, x, next) ==
    /\ O \in [0 .. MaxOrders -> OrderRecords]
    /\ O[x].next = next
    /\ \A y \in 0 .. MaxOrders : /\ y # x => O[y] = orders[y]
                                 /\ O[y].id = orders[y].id
                                 /\ O[y].orderType = orders[y].orderType
                                 /\ O[y].price = orders[y].price
                                 /\ O[y].expiresInTick = orders[y].expiresInTick

\* Only the "next" of x changes.
LEMMA RelinkedIs ==
    ASSUME NEW orders \in [0 .. MaxOrders -> OrderRecords], NEW x \in 0 .. MaxOrders, NEW next \in 0 .. MaxOrders
    PROVE  OnlyNext(orders, Relinked(orders, x, next), x, next)
  <1>1. orders[x] \in OrderRecords
    OBVIOUS
  <1> DEFINE r == [orders[x] EXCEPT !.next = next]
             O == Relinked(orders, x, next)
  <1>2. /\ r \in OrderRecords /\ r.next = next /\ r.id = orders[x].id /\ r.orderType = orders[x].orderType
        /\ r.price = orders[x].price /\ r.expiresInTick = orders[x].expiresInTick
    BY <1>1 DEF OrderRecords
  <1>3. O = [orders EXCEPT ![x] = r]
    BY DEF Relinked
  <1> HIDE DEF r, O
  <1>4. O \in [0 .. MaxOrders -> OrderRecords] /\ O[x] = r /\ \A y \in 0 .. MaxOrders : y # x => O[y] = orders[y]
    BY <1>2, <1>3
  <1>5. OnlyNext(orders, O, x, next)
    BY <1>2, <1>4 DEF OnlyNext
  <1>6. QED
    BY <1>5 DEF O

\* The order that createOrder stores.
Created(t, id, price, expires) ==
    [id |-> id, orderType |-> t, price |-> price, next |-> 0, expiresInTick |-> expires]

\* createOrder writes one order.
LEMMA CreateWrites ==
    ASSUME NEW d \in DataRecords, NEW t \in OrderTypes, NEW id \in Ids, NEW price \in Prices, NEW expires \in Nat
    PROVE  LET e == createOrder(d, t, id, price, expires)
           IN  /\ e \in DataRecords
               /\ e.orders = [d.orders EXCEPT ![id] = Created(t, id, price, expires)]
               /\ e.firstId = d.firstId /\ e.lengthOf = d.lengthOf /\ e.length = d.length
               /\ e.firstPending = d.firstPending /\ e.lastPending = d.lastPending /\ e.pendings = d.pendings
  <1> DEFINE r == Created(t, id, price, expires)
             e == createOrder(d, t, id, price, expires)
             O == [d.orders EXCEPT ![id] = r]
  <1>1. id \in 0 .. MaxOrders /\ 0 \in 0 .. MaxOrders
    BY OrderBookAssumption DEF Ids
  <1>2. r \in OrderRecords
    BY <1>1 DEF OrderRecords, Created
  <1>3. e = [d EXCEPT !.orders = O]
    BY DEF createOrder, Created
  <1> HIDE DEF r
  <1>4. O \in [0 .. MaxOrders -> OrderRecords]
    BY <1>1, <1>2 DEF DataRecords
  <1> HIDE DEF O, e
  <1>5. /\ e \in DataRecords /\ e.orders = O
        /\ e.firstId = d.firstId /\ e.lengthOf = d.lengthOf /\ e.length = d.length
        /\ e.firstPending = d.firstPending /\ e.lastPending = d.lastPending /\ e.pendings = d.pendings
    BY <1>3, <1>4 DEF DataRecords
  <1>6. QED
    BY <1>5 DEF e, O, r

\* The orders after positionOrder.
Placed(d, t, id, previousId) ==
    IF previousId # 0
    THEN Relinked(Relinked(d.orders, id, d.orders[previousId].next), previousId, id)
    ELSE Relinked(d.orders, id, d.firstId[t])

\* positionOrder counts the order and links it.
LEMMA PositionWrites ==
    ASSUME NEW d \in DataRecords, NEW t \in OrderTypes, NEW id \in Ids, NEW previousId \in 0 .. MaxOrders
    PROVE  LET e == positionOrder(d, t, id, previousId)
           IN  /\ e \in DataRecords
               /\ e.orders = Placed(d, t, id, previousId)
               /\ e.firstId = IF previousId # 0 THEN d.firstId ELSE [d.firstId EXCEPT ![t] = id]
               /\ e.lengthOf = [d.lengthOf EXCEPT ![t] = @ + 1]
               /\ e.length = d.length + 1
               /\ e.firstPending = d.firstPending /\ e.lastPending = d.lastPending /\ e.pendings = d.pendings
  <1> DEFINE e == positionOrder(d, t, id, previousId)
             LO == [d.lengthOf EXCEPT ![t] = @ + 1]
             N == d.length + 1
             c == [d EXCEPT !.length = N, !.lengthOf = LO]
             counted == [d EXCEPT !.length = @ + 1, !.lengthOf[t] = @ + 1]
  <1>1. /\ id \in 0 .. MaxOrders
        /\ d.orders \in [0 .. MaxOrders -> OrderRecords] /\ d.orders[previousId].next \in 0 .. MaxOrders
        /\ d.firstId \in [OrderTypes -> 0 .. MaxOrders] /\ d.firstId[t] \in 0 .. MaxOrders
        /\ d.lengthOf \in [OrderTypes -> Nat] /\ d.length \in Nat
    <2>1. id \in 0 .. MaxOrders
      BY OrderBookAssumption DEF Ids
    <2>2. /\ d.orders \in [0 .. MaxOrders -> OrderRecords] /\ d.orders[previousId] \in OrderRecords
          /\ d.firstId \in [OrderTypes -> 0 .. MaxOrders]
          /\ d.lengthOf \in [OrderTypes -> Nat] /\ d.length \in Nat
      BY DEF DataRecords
    <2>3. d.orders[previousId].next \in 0 .. MaxOrders
      BY <2>2 DEF OrderRecords
    <2>4. QED
      BY <2>1, <2>2, <2>3
  <1>2. LO \in [OrderTypes -> Nat] /\ N \in Nat
    BY <1>1
  <1>3. counted = c
    OBVIOUS
  <1> HIDE DEF LO, N
  <1>4. /\ c \in DataRecords /\ c.orders = d.orders /\ c.firstId = d.firstId
        /\ c.lengthOf = LO /\ c.length = N
        /\ c.firstPending = d.firstPending /\ c.lastPending = d.lastPending /\ c.pendings = d.pendings
    BY <1>2 DEF DataRecords
  <1> HIDE DEF c
  <1>5. CASE previousId # 0
    <2> DEFINE O1 == Relinked(d.orders, id, d.orders[previousId].next)
               O2 == Relinked(O1, previousId, id)
               linked == [counted EXCEPT !.orders[id].next = d.orders[previousId].next]
    <2>1. O1 \in [0 .. MaxOrders -> OrderRecords]
      BY <1>1, RelinkedIs DEF OnlyNext
    <2>2. linked = [c EXCEPT !.orders = O1]
      BY <1>3, <1>4 DEF Relinked
    <2>3. e = [linked EXCEPT !.orders[previousId].next = id]
      BY <1>5 DEF positionOrder
    <2> HIDE DEF O1, linked
    <2>4. O2 \in [0 .. MaxOrders -> OrderRecords]
      BY <1>1, <2>1, RelinkedIs DEF OnlyNext
    <2>5. linked.orders = O1 /\ linked = [c EXCEPT !.orders = linked.orders]
      BY <1>4, <2>2 DEF DataRecords
    <2>6. e = [linked EXCEPT !.orders = O2]
      BY <2>3, <2>5 DEF Relinked
    <2> HIDE DEF O2
    <2>7. e = [c EXCEPT !.orders = O2]
      BY <1>4, <2>2, <2>6 DEF DataRecords
    <2> HIDE DEF e
    <2>8. /\ e \in DataRecords /\ e.orders = O2 /\ e.firstId = c.firstId
          /\ e.lengthOf = c.lengthOf /\ e.length = c.length
          /\ e.firstPending = c.firstPending /\ e.lastPending = c.lastPending /\ e.pendings = c.pendings
      BY <1>4, <2>4, <2>7 DEF DataRecords
    <2>9. O2 = Placed(d, t, id, previousId)
      BY <1>5 DEF Placed, O2, O1
    <2>10. QED
      BY <1>4, <1>5, <2>8, <2>9 DEF e, LO, N
  <1>6. CASE previousId = 0
    <2> DEFINE O == Relinked(d.orders, id, d.firstId[t])
               FI == [d.firstId EXCEPT ![t] = id]
    <2>1. O \in [0 .. MaxOrders -> OrderRecords] /\ FI \in [OrderTypes -> 0 .. MaxOrders]
      BY <1>1, RelinkedIs DEF OnlyNext
    <2>2. e = [c EXCEPT !.orders = O, !.firstId = FI]
      <3>1. e = [counted EXCEPT !.orders[id].next = d.firstId[t], !.firstId[t] = id]
        BY <1>6 DEF positionOrder
      <3>2. QED
        BY <1>3, <1>4, <3>1 DEF Relinked
    <2> HIDE DEF e, O, FI
    <2>3. /\ e \in DataRecords /\ e.orders = O /\ e.firstId = FI
          /\ e.lengthOf = c.lengthOf /\ e.length = c.length
          /\ e.firstPending = c.firstPending /\ e.lastPending = c.lastPending /\ e.pendings = c.pendings
      BY <1>4, <2>1, <2>2 DEF DataRecords
    <2>4. O = Placed(d, t, id, previousId)
      BY <1>6 DEF Placed, O
    <2>5. QED
      BY <1>4, <1>6, <2>3, <2>4 DEF e, FI, LO, N
  <1>7. QED
    BY <1>5, <1>6

\* positionOrderAsPending links the order after the last one of the queue, if any.
LEMMA AppendWrites ==
    ASSUME NEW d \in DataRecords, NEW t \in OrderTypes, NEW id \in Ids
    PROVE  LET e == positionOrderAsPending(d, t, id)
           IN  /\ e \in DataRecords
               /\ e.orders = IF d.pendings[t] # 0 THEN Relinked(d.orders, d.lastPending[t], id) ELSE d.orders
               /\ e.firstId = d.firstId /\ e.lengthOf = d.lengthOf /\ e.length = d.length
               /\ e.firstPending = IF d.pendings[t] # 0 THEN d.firstPending ELSE [d.firstPending EXCEPT ![t] = id]
               /\ e.lastPending = [d.lastPending EXCEPT ![t] = id]
               /\ e.pendings = [d.pendings EXCEPT ![t] = @ + 1]
  <1> DEFINE e == positionOrderAsPending(d, t, id)
             LP == [d.lastPending EXCEPT ![t] = id]
             P == [d.pendings EXCEPT ![t] = @ + 1]
             FP == [d.firstPending EXCEPT ![t] = id]
             O == Relinked(d.orders, d.lastPending[t], id)
             longer == [d EXCEPT !.orders = O]
             begun == [d EXCEPT !.firstPending = FP]
  <1>1. /\ id \in 0 .. MaxOrders
        /\ d.orders \in [0 .. MaxOrders -> OrderRecords] /\ d.lastPending[t] \in 0 .. MaxOrders
        /\ d.lastPending \in [OrderTypes -> 0 .. MaxOrders] /\ d.firstPending \in [OrderTypes -> 0 .. MaxOrders]
        /\ d.pendings \in [OrderTypes -> Nat]
    <2>1. id \in 0 .. MaxOrders
      BY OrderBookAssumption DEF Ids
    <2>2. QED
      BY <2>1 DEF DataRecords
  <1>2. /\ LP \in [OrderTypes -> 0 .. MaxOrders] /\ FP \in [OrderTypes -> 0 .. MaxOrders]
        /\ P \in [OrderTypes -> Nat] /\ O \in [0 .. MaxOrders -> OrderRecords]
    <2>1. LP \in [OrderTypes -> 0 .. MaxOrders] /\ FP \in [OrderTypes -> 0 .. MaxOrders]
      BY <1>1
    <2>2. P \in [OrderTypes -> Nat]
      BY <1>1
    <2>3. O \in [0 .. MaxOrders -> OrderRecords]
      BY <1>1, RelinkedIs DEF OnlyNext
    <2>4. QED
      BY <2>1, <2>2, <2>3
  <1>3. CASE d.pendings[t] # 0
    <2>1. e = [longer EXCEPT !.lastPending[t] = id, !.pendings[t] = @ + 1]
      BY <1>3 DEF positionOrderAsPending, Relinked
    <2>2. e = [longer EXCEPT !.lastPending = LP, !.pendings = P]
      <3> HIDE DEF O
      <3>1. longer.lastPending = d.lastPending /\ longer.pendings = d.pendings /\ longer \in DataRecords
        BY <1>2 DEF DataRecords
      <3>2. QED
        BY <2>1, <3>1
    <2> HIDE DEF e, O, LP, P, FP
    <2>3. /\ e \in DataRecords /\ e.orders = O
          /\ e.firstId = d.firstId /\ e.lengthOf = d.lengthOf /\ e.length = d.length
          /\ e.firstPending = d.firstPending /\ e.lastPending = LP /\ e.pendings = P
      BY <1>2, <2>2 DEF DataRecords
    <2>4. QED
      BY <1>3, <2>3 DEF e, O, LP, P
  <1>4. CASE d.pendings[t] = 0
    <2>1. e = [begun EXCEPT !.lastPending[t] = id, !.pendings[t] = @ + 1]
      BY <1>4 DEF positionOrderAsPending
    <2>2. e = [begun EXCEPT !.lastPending = LP, !.pendings = P]
      <3> HIDE DEF FP
      <3>1. begun.lastPending = d.lastPending /\ begun.pendings = d.pendings /\ begun \in DataRecords
        BY <1>2 DEF DataRecords
      <3>2. QED
        BY <2>1, <3>1
    <2> HIDE DEF e, O, LP, P, FP
    <2>3. /\ e \in DataRecords /\ e.orders = d.orders
          /\ e.firstId = d.firstId /\ e.lengthOf = d.lengthOf /\ e.length = d.length
          /\ e.firstPending = FP /\ e.lastPending = LP /\ e.pendings = P
      BY <1>2, <2>2 DEF DataRecords
    <2>4. QED
      BY <1>4, <2>3 DEF e, FP, LP, P
  <1>5. QED
    BY <1>3, <1>4

\* The pop of a pending order writes no order.
LEMMA PopPendingWrites ==
    ASSUME NEW d \in DataRecords, NEW t \in OrderTypes, d.pendings[t] # 0
    PROVE  LET e == PopPending(d, t)
           IN  /\ e \in DataRecords
               /\ e.orders = d.orders
               /\ e.firstId = d.firstId /\ e.lengthOf = d.lengthOf /\ e.length = d.length
               /\ e.firstPending = [d.firstPending EXCEPT ![t] = d.orders[d.firstPending[t]].next]
               /\ e.lastPending = d.lastPending
               /\ e.pendings = [d.pendings EXCEPT ![t] = @ - 1]
  <1> DEFINE e == PopPending(d, t)
             FP == [d.firstPending EXCEPT ![t] = d.orders[d.firstPending[t]].next]
             P == [d.pendings EXCEPT ![t] = @ - 1]
  <1>1. /\ d.orders \in [0 .. MaxOrders -> OrderRecords] /\ d.firstPending \in [OrderTypes -> 0 .. MaxOrders]
        /\ d.pendings \in [OrderTypes -> Nat] /\ d.pendings[t] \in Nat \ {0}
        /\ d.orders[d.firstPending[t]] \in OrderRecords
    BY DEF DataRecords
  <1>2. FP \in [OrderTypes -> 0 .. MaxOrders] /\ P \in [OrderTypes -> Nat]
    <2>1. d.orders[d.firstPending[t]].next \in 0 .. MaxOrders /\ d.pendings[t] - 1 \in Nat
      BY <1>1 DEF OrderRecords
    <2>2. QED
      BY <1>1, <2>1
  <1>3. e = [d EXCEPT !.firstPending = FP, !.pendings = P]
    BY DEF PopPending
  <1> HIDE DEF e, FP, P
  <1>4. /\ e \in DataRecords /\ e.orders = d.orders
        /\ e.firstId = d.firstId /\ e.lengthOf = d.lengthOf /\ e.length = d.length
        /\ e.firstPending = FP /\ e.lastPending = d.lastPending /\ e.pendings = P
    BY <1>2, <1>3 DEF DataRecords
  <1>5. QED
    BY <1>4 DEF e, FP, P

\* DeleteOrder
LEMMA DeleteWrites ==
    ASSUME NEW d \in DataRecords, NEW id \in Ids, NEW t \in OrderTypes, d.orders[id].orderType = t,
           d.length # 0, d.lengthOf[t] # 0
    PROVE  LET e == DeleteOrder(d, id)
           IN  /\ e \in DataRecords
               /\ e.orders = [d.orders EXCEPT ![id] = NullOrder]
               /\ e.firstId = d.firstId
               /\ e.lengthOf = [d.lengthOf EXCEPT ![t] = @ - 1]
               /\ e.length = d.length - 1
               /\ e.firstPending = d.firstPending /\ e.lastPending = d.lastPending /\ e.pendings = d.pendings
  <1> DEFINE e == DeleteOrder(d, id)
             O == [d.orders EXCEPT ![id] = NullOrder]
             LO == [d.lengthOf EXCEPT ![t] = @ - 1]
             N == d.length - 1
  <1>1. /\ d.orders \in [0 .. MaxOrders -> OrderRecords]
        /\ d.lengthOf \in [OrderTypes -> Nat] /\ d.lengthOf[t] \in Nat \ {0} /\ d.length \in Nat \ {0}
    BY DEF DataRecords
  <1>2. O \in [0 .. MaxOrders -> OrderRecords] /\ LO \in [OrderTypes -> Nat] /\ N \in Nat
    <2>1. NullOrder \in OrderRecords
      BY OrderBookAssumption DEF NullOrder, OrderRecords, OrderTypes
    <2>2. d.lengthOf[t] - 1 \in Nat /\ N \in Nat
      BY <1>1
    <2>3. LO \in [OrderTypes -> Nat]
      BY <1>1, <2>2
    <2>4. O \in [0 .. MaxOrders -> OrderRecords]
      BY <1>1, <2>1
    <2>5. QED
      BY <2>2, <2>3, <2>4
  <1>3. e = [d EXCEPT !.orders = O, !.length = N, !.lengthOf = LO]
    BY DEF DeleteOrder
  <1> HIDE DEF e, O, LO, N
  <1>4. /\ e \in DataRecords /\ e.orders = O /\ e.firstId = d.firstId /\ e.lengthOf = LO /\ e.length = N
        /\ e.firstPending = d.firstPending /\ e.lastPending = d.lastPending /\ e.pendings = d.pendings
    BY <1>2, <1>3 DEF DataRecords
  <1>5. QED
    BY <1>4 DEF e, O, LO, N

\* A list pointer that moves.
LEMMA RepointWrites ==
    ASSUME NEW d \in DataRecords, NEW t \in OrderTypes, NEW id \in 0 .. MaxOrders
    PROVE  LET e == [d EXCEPT !.firstId[t] = id]
           IN  /\ e \in DataRecords /\ e.orders = d.orders /\ e.firstId = [d.firstId EXCEPT ![t] = id]
               /\ e.lengthOf = d.lengthOf /\ e.length = d.length
               /\ e.firstPending = d.firstPending /\ e.lastPending = d.lastPending /\ e.pendings = d.pendings
  <1> DEFINE FI == [d.firstId EXCEPT ![t] = id]
             e == [d EXCEPT !.firstId = FI]
  <1>1. FI \in [OrderTypes -> 0 .. MaxOrders]
    BY DEF DataRecords
  <1> HIDE DEF FI
  <1>2. /\ e \in DataRecords /\ e.orders = d.orders /\ e.firstId = FI
        /\ e.lengthOf = d.lengthOf /\ e.length = d.length
        /\ e.firstPending = d.firstPending /\ e.lastPending = d.lastPending /\ e.pendings = d.pendings
    BY <1>1 DEF DataRecords
  <1>3. QED
    BY <1>2 DEF FI

\* One order that is linked to another one.
LEMMA RelinkWrites ==
    ASSUME NEW d \in DataRecords, NEW x \in 0 .. MaxOrders, NEW next \in 0 .. MaxOrders
    PROVE  LET e == [d EXCEPT !.orders[x].next = next]
           IN  /\ e \in DataRecords /\ e.orders = Relinked(d.orders, x, next) /\ e.firstId = d.firstId
               /\ e.lengthOf = d.lengthOf /\ e.length = d.length
               /\ e.firstPending = d.firstPending /\ e.lastPending = d.lastPending /\ e.pendings = d.pendings
  <1> DEFINE O == Relinked(d.orders, x, next)
             e == [d EXCEPT !.orders[x].next = next]
  <1>1. O \in [0 .. MaxOrders -> OrderRecords]
    BY RelinkedIs DEF DataRecords, OnlyNext
  <1>2. e = [d EXCEPT !.orders = O]
    BY DEF Relinked
  <1> HIDE DEF O, e
  <1>3. /\ e \in DataRecords /\ e.orders = O /\ e.firstId = d.firstId
        /\ e.lengthOf = d.lengthOf /\ e.length = d.length
        /\ e.firstPending = d.firstPending /\ e.lastPending = d.lastPending /\ e.pendings = d.pendings
    BY <1>1, <1>2 DEF DataRecords
  <1>4. QED
    BY <1>3 DEF O, e

-----------------------------------------------------------------------------
(* Lists that nothing touches, and lists that grow. *)

\* An order that at most points to another one.
SameOrder(o, p) ==
    o.id = p.id /\ o.orderType = p.orderType /\ o.price = p.price /\ o.expiresInTick = p.expiresInTick

\* What Half says of a type, u, of the Data e is said of d too when they agree about it.
SameHalf(d, e, u, s, w) ==
    /\ \A id \in In(s) \union In(w) : e.orders[id] = d.orders[id]
    /\ e.firstId[u] = d.firstId[u] /\ e.lengthOf[u] = d.lengthOf[u] /\ e.pendings[u] = d.pendings[u]
    /\ e.firstPending[u] = d.firstPending[u] /\ e.lastPending[u] = d.lastPending[u]

\* The ids of a list, by its places.
LEMMA Places ==
    ASSUME NEW s \in Seq(Ids)
    PROVE  /\ DOMAIN s = 1 .. Len(s) /\ Len(s) \in Nat
           /\ \A n \in 1 .. Len(s) : s[n] \in In(s) /\ s[n] \in Ids /\ s[n] \in Nat \ {0} /\ s[n] \in 0 .. MaxOrders
           /\ \A id \in In(s) : id \in Ids /\ \E n \in 1 .. Len(s) : s[n] = id
           /\ Len(s) = 0 <=> s = <<>>
  <1>1. DOMAIN s = 1 .. Len(s) /\ Len(s) \in Nat /\ s \in [1 .. Len(s) -> Ids]
    BY LenProperties
  <1>2. \A i \in Ids : i \in Nat \ {0} /\ i \in 0 .. MaxOrders
    BY OrderBookAssumption DEF Ids
  <1>3. Len(s) = 0 <=> s = <<>>
    BY EmptySeq
  <1>4. QED
    BY <1>1, <1>2, <1>3 DEF In

\* A list whose orders are the same is the same list.
LEMMA HalfFrame ==
    ASSUME NEW d, NEW e, NEW u, NEW s, NEW w, NEW F, NEW G,
           Half(d, u, s, w, F), SameHalf(d, e, u, s, w), \A id \in In(s) \union In(w) : id \notin G
    PROVE  Half(e, u, s, w, G)
  <1>1. s \in Seq(Ids) /\ w \in Seq(Ids)
    BY DEF Half
  <1>2. /\ \A n \in 1 .. Len(s) : e.orders[s[n]] = d.orders[s[n]]
        /\ \A n \in 1 .. Len(w) : e.orders[w[n]] = d.orders[w[n]]
    BY <1>1, Places DEF SameHalf
  <1>3. Chained(e.orders, s) /\ Chained(e.orders, w)
    BY <1>2 DEF Half, Chained
  <1>4. Ranked(e.orders, s)
    BY <1>2 DEF Half, Ranked, Better
  <1>5. Owned(e.orders, u, s, w, G)
    BY DEF Half, Owned, SameHalf
  <1>6. QED
    BY <1>3, <1>4, <1>5 DEF Half, SameHalf

\* A Data is good when one type was changed well and the other not at all.
LEMMA GoodChange ==
    ASSUME NEW d, NEW b, NEW q, NEW F, Good(d, b, q, F), NEW t \in OrderTypes,
           NEW e \in DataRecords, NEW b2, NEW q2, NEW G,
           Half(e, t, b2[t], q2[t], G),
           \A u \in OrderTypes : u # t => /\ b2[u] = b[u] /\ q2[u] = q[u]
                                          /\ SameHalf(d, e, u, b[u], q[u])
                                          /\ \A id \in In(b[u]) \union In(q[u]) : id \notin G,
           e.length = e.lengthOf["LIMIT_ORDER"] + e.lengthOf["MARKET_ORDER"],
           Covered(e.orders, b2, q2, G)
    PROVE  Good(e, b2, q2, G)
  <1>1. \A u \in OrderTypes : Half(d, u, b[u], q[u], F)
    BY DEF Good
  <1>2. ASSUME NEW u \in OrderTypes
        PROVE  Half(e, u, b2[u], q2[u], G)
    <2>1. CASE u = t
      BY <2>1
    <2>2. CASE u # t
      <3>1. Half(d, u, b[u], q[u], F) /\ SameHalf(d, e, u, b[u], q[u]) /\ \A id \in In(b[u]) \union In(q[u]) : id \notin G
        BY <1>1, <2>2
      <3>2. Half(e, u, b[u], q[u], G)
        BY <3>1, HalfFrame
      <3>3. QED
        BY <2>2, <3>2
    <2>3. QED
      BY <2>1, <2>2
  <1>3. QED
    BY <1>2 DEF Good

\* Orders of different types, or on their way, are different.
LEMMA Apart ==
    ASSUME NEW d, NEW b, NEW q, NEW F, Good(d, b, q, F), NEW t \in OrderTypes
    PROVE  /\ \A id \in In(b[t]) \union In(q[t]) :
                 /\ id \in Ids /\ d.orders[id].id = id /\ d.orders[id].orderType = t /\ id \notin F
                 /\ d.orders[id] # NullOrder
           /\ \A u \in OrderTypes : u # t =>
                 \A id \in In(b[u]) \union In(q[u]) : id \notin In(b[t]) \union In(q[t]) /\ d.orders[id].orderType # t
           /\ \A id \in In(b[t]) : id \notin In(q[t])
  <1>1. \A u \in OrderTypes : b[u] \in Seq(Ids) /\ q[u] \in Seq(Ids) /\ Owned(d.orders, u, b[u], q[u], F)
    BY DEF Good, Half
  <1>2. \A u \in OrderTypes : \A id \in In(b[u]) \union In(q[u]) : id \in Ids
    BY <1>1, Places
  <1>3. \A id \in Ids : id \in Nat /\ id # 0
    BY OrderBookAssumption DEF Ids
  <1>4. \A i \in In(b[t]), j \in In(q[t]) : i < j
    BY DEF Good, Half
  <1>5. \A id \in In(b[t]) : id \notin In(q[t])
    <2> SUFFICES ASSUME NEW id \in In(b[t]), id \in In(q[t]) PROVE FALSE
      OBVIOUS
    <2>1. id < id /\ id \in Nat
      BY <1>2, <1>3, <1>4
    <2>2. QED
      BY <2>1
  <1>6. \A u \in OrderTypes : \A id \in In(b[u]) \union In(q[u]) :
             d.orders[id].id = id /\ d.orders[id].orderType = u /\ id \notin F
    BY <1>1 DEF Owned
  <1>7. \A id \in Ids : d.orders[id].id = id => d.orders[id] # NullOrder
    BY <1>3 DEF NullOrder
  <1>8. QED
    BY <1>2, <1>5, <1>6, <1>7

\* e is d with the order id, which is not yet in a list.
HasCreated(d, e, b, q, t, id, price, expires) ==
    /\ Good(e, b, q, {id})
    /\ e.orders[id] = Created(t, id, price, expires)
    /\ \A x \in 0 .. MaxOrders : x # id => e.orders[x] = d.orders[x]
    /\ e.lengthOf = d.lengthOf /\ e.pendings = d.pendings

\* An order that is created is on its way.
LEMMA CreateIsGood ==
    ASSUME NEW d, NEW b, NEW q, Good(d, b, q, {}), NEW t \in OrderTypes,
           NEW id \in Ids, d.orders[id] = NullOrder, NEW price \in Prices, NEW expires \in Nat,
           NEW e, e = createOrder(d, t, id, price, expires)
    PROVE  HasCreated(d, e, b, q, t, id, price, expires)
  <1> DEFINE r == Created(t, id, price, expires)
  <1>1. d \in DataRecords /\ d.orders \in [0 .. MaxOrders -> OrderRecords] /\ id \in 0 .. MaxOrders /\ id \in Nat
    <2>1. d \in DataRecords
      BY DEF Good
    <2>2. d.orders \in [0 .. MaxOrders -> OrderRecords]
      BY <2>1 DEF DataRecords
    <2>3. id \in 0 .. MaxOrders /\ id \in Nat
      BY OrderBookAssumption DEF Ids
    <2>4. QED
      BY <2>1, <2>2, <2>3
  <1>2. /\ e \in DataRecords
        /\ e.orders = [d.orders EXCEPT ![id] = r]
        /\ e.firstId = d.firstId /\ e.lengthOf = d.lengthOf /\ e.length = d.length
        /\ e.firstPending = d.firstPending /\ e.lastPending = d.lastPending /\ e.pendings = d.pendings
    BY <1>1, CreateWrites
  <1>3. r.id = id
    BY DEF Created
  <1> HIDE DEF r
  <1>4. e.orders[id] = r /\ \A x \in 0 .. MaxOrders : x # id => e.orders[x] = d.orders[x]
    BY <1>1, <1>2
  <1>5. \A u \in OrderTypes : \A x \in In(b[u]) \union In(q[u]) : x # id /\ x \in 0 .. MaxOrders
    <2>1. \A x \in Ids : x \in 0 .. MaxOrders
      BY OrderBookAssumption DEF Ids
    <2>2. QED
      BY <2>1, Apart
  <1>6. ASSUME NEW u \in OrderTypes
        PROVE  Half(e, u, b[u], q[u], {id})
    <2>1. Half(d, u, b[u], q[u], {})
      BY DEF Good
    <2>2. SameHalf(d, e, u, b[u], q[u])
      BY <1>2, <1>4, <1>5 DEF SameHalf
    <2>3. \A x \in In(b[u]) \union In(q[u]) : x \notin {id}
      BY <1>5
    <2>4. QED
      BY <2>1, <2>2, <2>3, HalfFrame
  <1>7. Covered(e.orders, b, q, {id})
    BY <1>3, <1>4 DEF Covered, Good
  <1>8. Good(e, b, q, {id})
    BY <1>2, <1>6, <1>7 DEF Good
  <1>9. QED
    BY <1>2, <1>4, <1>8 DEF r, HasCreated

\* The list s with the order o at the place "at".
Inserted(s, at, o) == [k \in 1 .. Len(s) + 1 |-> IF k < at THEN s[k] ELSE IF k = at THEN o ELSE s[k - 1]]

\* The place in the list s of an order of that price: where a walk from its start stops.
Spot(orders, s, price, at) ==
    /\ at \in 1 .. Len(s) + 1
    /\ \A n \in 1 .. at - 1 : ~GoesBefore(price, orders[s[n]].price)
    /\ at <= Len(s) => GoesBefore(price, orders[s[at]].price)

\* What the pointers are after an order is linked at the place "at".
Linked(orders, O, s, at, o) ==
    /\ O[o].next = IF at = Len(s) + 1 THEN 0 ELSE s[at]
    /\ at # 1 => O[s[at - 1]].next = o
    /\ \A n \in 1 .. Len(s) : n # at - 1 => O[s[n]].next = orders[s[n]].next

\* The places of a longer list.
LEMMA InsertedPlaces ==
    ASSUME NEW s \in Seq(Ids), NEW o \in Ids, NEW at \in 1 .. Len(s) + 1, Distinct(s), o \notin In(s),
           NEW r, r = Inserted(s, at, o)
    PROVE  /\ r \in Seq(Ids) /\ Len(r) = Len(s) + 1 /\ Distinct(r) /\ In(r) = In(s) \union {o}
           /\ r[at] = o
           /\ \A k \in 1 .. Len(s) + 1 : (k < at => r[k] = s[k]) /\ (k > at => r[k] = s[k - 1])
  <1>1. r = [k \in 1 .. Len(s) + 1 |-> IF k < at THEN s[k] ELSE IF k = at THEN o ELSE s[k - 1]]
    BY DEF Inserted
  <1>2. Len(s) \in Nat
    BY LenProperties
  <1>3. r \in Seq(Ids) /\ Len(r) = Len(s) + 1 /\ Distinct(r) /\ In(r) = In(s) \union {o}
    BY <1>1, InsertedList
  <1>4. r[at] = o
    BY <1>1, <1>2
  <1>5. \A k \in 1 .. Len(s) + 1 : (k < at => r[k] = s[k]) /\ (k > at => r[k] = s[k - 1])
    BY <1>1, <1>2
  <1>6. QED
    BY <1>3, <1>4, <1>5

\* A list with an order more, and its pointers.
LEMMA InsertedChain ==
    ASSUME NEW orders, NEW O, NEW s \in Seq(Ids), NEW o \in Ids, NEW at \in 1 .. Len(s) + 1,
           Distinct(s), o \notin In(s), Chained(orders, s), Linked(orders, O, s, at, o)
    PROVE  Chained(O, Inserted(s, at, o))
  <1> DEFINE r == Inserted(s, at, o)
             L == Len(s)
  <1>1. /\ Len(r) = L + 1 /\ r[at] = o /\ L \in Nat /\ at \in 1 .. L + 1 /\ at \in Nat
        /\ \A k \in 1 .. L + 1 : (k < at => r[k] = s[k]) /\ (k > at => r[k] = s[k - 1])
    BY InsertedPlaces, LenProperties
  <1>2. /\ O[o].next = IF at = L + 1 THEN 0 ELSE s[at]
        /\ at # 1 => O[s[at - 1]].next = o
        /\ \A n \in 1 .. L : n # at - 1 => O[s[n]].next = orders[s[n]].next
    BY DEF Linked
  <1>3. \A n \in 1 .. L : orders[s[n]].next = IF n = L THEN 0 ELSE s[n + 1]
    BY DEF Chained, Successor
  <1> HIDE DEF r, L
  <1>4. ASSUME NEW k \in 1 .. L + 1
        PROVE  O[r[k]].next = IF k = L + 1 THEN 0 ELSE r[k + 1]
    <2>1. k \in Nat
      BY <1>1
    <2>2. CASE k = at
      <3>1. k # L + 1 => k + 1 \in 1 .. L + 1 /\ k + 1 > at /\ k + 1 - 1 = at
        BY <1>1, <2>2
      <3>2. k # L + 1 => r[k + 1] = s[at]
        BY <1>1, <3>1
      <3>3. QED
        BY <1>1, <1>2, <2>2, <3>2
    <2>3. CASE k > at
      <3>1. k - 1 \in 1 .. L /\ k - 1 # at - 1 /\ k - 1 + 1 = k /\ (k - 1 = L <=> k = L + 1)
        BY <1>1, <2>1, <2>3
      <3>2. r[k] = s[k - 1]
        BY <1>1, <2>3
      <3>3. O[r[k]].next = IF k = L + 1 THEN 0 ELSE s[k]
        BY <1>2, <1>3, <3>1, <3>2
      <3>4. k # L + 1 => k + 1 \in 1 .. L + 1 /\ k + 1 > at /\ k + 1 - 1 = k
        BY <1>1, <2>1, <2>3
      <3>5. k # L + 1 => r[k + 1] = s[k]
        BY <1>1, <3>4
      <3>6. QED
        BY <3>3, <3>5
    <2>4. CASE k < at /\ k = at - 1
      <3>1. at # 1 /\ k # L + 1 /\ k + 1 = at /\ r[k] = s[k]
        BY <1>1, <2>1, <2>4
      <3>2. QED
        BY <1>1, <1>2, <2>4, <3>1
    <2>5. CASE k < at /\ k # at - 1
      <3>1. k \in 1 .. L /\ k # L /\ k # L + 1 /\ k + 1 \in 1 .. L + 1 /\ k + 1 < at
        BY <1>1, <2>1, <2>5
      <3>2. r[k] = s[k] /\ r[k + 1] = s[k + 1]
        BY <1>1, <2>5, <3>1
      <3>3. QED
        BY <1>2, <1>3, <2>5, <3>1, <3>2
    <2>6. QED
      BY <1>1, <2>1, <2>2, <2>3, <2>4, <2>5
  <1>5. \A k \in 1 .. Len(r) : O[r[k]].next = IF k = Len(r) THEN 0 ELSE r[k + 1]
    BY <1>1, <1>4
  <1>6. QED
    BY <1>5 DEF Chained, Successor, r

\* Two orders whose prices are compared.
LEMMA PricesAreOrdered ==
    ASSUME NEW p \in Nat, NEW x \in Nat, NEW y \in Nat
    PROVE  /\ ~GoesBefore(p, x) => GoesBefore(x, p) \/ x = p
           /\ GoesBefore(p, x) /\ (GoesBefore(x, y) \/ x = y) => GoesBefore(p, y)
           /\ ~(GoesBefore(p, x) /\ GoesBefore(x, p)) /\ ~GoesBefore(p, p)
  BY OrderBookAssumption DEF GoesBefore

\* Prices are natural numbers.
LEMMA PriceIsNat ==
    ASSUME NEW orders \in [0 .. MaxOrders -> OrderRecords]
    PROVE  \A x \in 0 .. MaxOrders : orders[x].price \in Nat
  <1> SUFFICES ASSUME NEW x \in 0 .. MaxOrders PROVE orders[x].price \in Nat
    OBVIOUS
  <1>1. orders[x] \in OrderRecords
    OBVIOUS
  <1>2. orders[x].price \in {0} \union Prices
    BY <1>1 DEF OrderRecords
  <1>3. Prices \subseteq Nat
    BY LinkedBookAssumption
  <1>4. \A p \in {0} \union Prices : p \in Nat
    BY <1>3
  <1>5. QED
    BY <1>2, <1>4

\* A list in price and time order that the youngest order enters at its spot.
LEMMA InsertedRanked ==
    ASSUME NEW orders \in [0 .. MaxOrders -> OrderRecords], NEW O \in [0 .. MaxOrders -> OrderRecords],
           NEW s \in Seq(Ids), NEW o \in Ids, NEW at,
           Distinct(s), o \notin In(s), Ranked(orders, s),
           Spot(orders, s, O[o].price, at),
           \A id \in In(s) : id < o,
           \A x \in 0 .. MaxOrders : O[x].price = orders[x].price
    PROVE  Ranked(O, Inserted(s, at, o))
  <1> DEFINE r == Inserted(s, at, o)
             L == Len(s)
             price == O[o].price
  <1>0. at \in 1 .. Len(s) + 1
    BY DEF Spot
  <1>1. /\ Len(r) = L + 1 /\ r[at] = o /\ L \in Nat /\ at \in 1 .. L + 1 /\ at \in Nat
        /\ \A k \in 1 .. L + 1 : (k < at => r[k] = s[k]) /\ (k > at => r[k] = s[k - 1])
    BY <1>0, InsertedPlaces, LenProperties
  <1>2. /\ \A n \in 1 .. L : s[n] \in In(s) /\ s[n] \in Nat \ {0} /\ s[n] \in 0 .. MaxOrders
        /\ o \in 0 .. MaxOrders /\ o \in Nat
    <2>1. o \in 0 .. MaxOrders /\ o \in Nat
      BY OrderBookAssumption DEF Ids
    <2>2. QED
      BY <2>1, Places
  <1>3. \A x \in 0 .. MaxOrders : O[x].price \in Nat
    BY PriceIsNat
  <1>4. /\ \A n \in 1 .. at - 1 : ~GoesBefore(price, O[s[n]].price)
        /\ at <= L => GoesBefore(price, O[s[at]].price)
    <2>1. \A n \in 1 .. at - 1 : s[n] \in 0 .. MaxOrders
      BY <1>1, <1>2
    <2>2. at <= L => s[at] \in 0 .. MaxOrders
      BY <1>1, <1>2
    <2>3. QED
      BY <2>1, <2>2 DEF Spot
  <1>5. \A m, n \in 1 .. L : m < n => Better(O, s[m], s[n])
    BY <1>2 DEF Ranked, Better
  <1> HIDE DEF r, L
  <1>6. ASSUME NEW n \in 1 .. L, n < at
        PROVE  Better(O, s[n], o)
    <2>1. n \in 1 .. at - 1
      BY <1>1, <1>6
    <2>2. GoesBefore(O[s[n]].price, price) \/ O[s[n]].price = price
      BY <1>2, <1>3, <1>4, <2>1, PricesAreOrdered
    <2>3. s[n] < o
      BY <1>2
    <2>4. QED
      BY <2>2, <2>3 DEF Better
  <1>7. ASSUME NEW n \in 1 .. L, n >= at
        PROVE  Better(O, o, s[n])
    <2>1. at \in 1 .. L /\ at <= L
      BY <1>1, <1>7
    <2>2. GoesBefore(price, O[s[at]].price)
      BY <1>4, <2>1
    <2>3. CASE n = at
      BY <2>2, <2>3 DEF Better
    <2>4. CASE n # at
      <3>1. at < n
        BY <1>1, <1>7, <2>4
      <3>2. Better(O, s[at], s[n])
        BY <1>5, <2>1, <3>1
      <3>3. GoesBefore(O[s[at]].price, O[s[n]].price) \/ O[s[at]].price = O[s[n]].price
        BY <3>2 DEF Better
      <3>4. O[s[at]].price \in Nat /\ O[s[n]].price \in Nat /\ price \in Nat
        BY <1>2, <1>3, <2>1
      <3>5. GoesBefore(price, O[s[n]].price)
        BY <2>2, <3>3, <3>4, PricesAreOrdered
      <3>6. QED
        BY <3>5 DEF Better
    <2>5. QED
      BY <2>3, <2>4
  <1> HIDE DEF price
  <1>8. ASSUME NEW m \in 1 .. L + 1, NEW n \in 1 .. L + 1, m < n
        PROVE  Better(O, r[m], r[n])
    <2>1. m \in Nat /\ n \in Nat
      BY <1>1
    <2>2. CASE n < at
      <3>1. m < at /\ m \in 1 .. L /\ n \in 1 .. L
        BY <1>1, <1>8, <2>1, <2>2
      <3>2. r[m] = s[m] /\ r[n] = s[n]
        BY <1>1, <2>2, <3>1
      <3>3. QED
        BY <1>5, <1>8, <3>1, <3>2
    <2>3. CASE n = at
      <3>1. m < at /\ m \in 1 .. L
        BY <1>1, <1>8, <2>1, <2>3
      <3>2. r[m] = s[m] /\ r[n] = o
        BY <1>1, <2>3, <3>1
      <3>3. QED
        BY <1>6, <3>1, <3>2
    <2>4. CASE n > at /\ m < at
      <3>1. m \in 1 .. L /\ n - 1 \in 1 .. L /\ m < n - 1
        BY <1>1, <2>1, <2>4
      <3>2. r[m] = s[m] /\ r[n] = s[n - 1]
        BY <1>1, <2>4
      <3>3. QED
        BY <1>5, <3>1, <3>2
    <2>5. CASE n > at /\ m = at
      <3>1. n - 1 \in 1 .. L /\ n - 1 >= at
        BY <1>1, <2>1, <2>5
      <3>2. r[m] = o /\ r[n] = s[n - 1]
        BY <1>1, <2>5
      <3>3. QED
        BY <1>7, <3>1, <3>2
    <2>6. CASE n > at /\ m > at
      <3>1. n - 1 \in 1 .. L /\ m - 1 \in 1 .. L /\ m - 1 < n - 1
        BY <1>1, <1>8, <2>1, <2>6
      <3>2. r[m] = s[m - 1] /\ r[n] = s[n - 1]
        BY <1>1, <2>6
      <3>3. QED
        BY <1>5, <3>1, <3>2
    <2>7. QED
      BY <1>1, <2>1, <2>2, <2>3, <2>4, <2>5, <2>6
  <1>9. \A m, n \in 1 .. Len(r) : m < n => Better(O, r[m], r[n])
    BY <1>1, <1>8
  <1>10. QED
    BY <1>9 DEF Ranked, r

\* The id after which an order enters the list s at the place "at".
Before1(s, at) == IF at = 1 THEN 0 ELSE s[at - 1]

\* The order that is on its way enters the book at its spot.
LEMMA PositionIsGood ==
    ASSUME NEW d, NEW b, NEW q, NEW id, Good(d, b, q, {id}), NEW t \in OrderTypes, d.orders[id].orderType = t,
           NEW at, Spot(d.orders, b[t], d.orders[id].price, at),
           \A i \in In(b[t]) : i < id, \A j \in In(q[t]) : id < j,
           NEW b2, b2[t] = Inserted(b[t], at, id), \A u \in OrderTypes : u # t => b2[u] = b[u]
    PROVE  LET e == positionOrder(d, t, id, Before1(b[t], at))
           IN  /\ Good(e, b2, q, {})
               /\ \A x \in 0 .. MaxOrders : SameOrder(e.orders[x], d.orders[x])
  <1> DEFINE s == b[t]
             w == q[t]
             r == Inserted(s, at, id)
             L == Len(s)
             previous == Before1(s, at)
             e == positionOrder(d, t, id, previous)
             O == e.orders
  <1>1. /\ d.orders \in [0 .. MaxOrders -> OrderRecords] /\ d.orders[0] = NullOrder
        /\ s \in Seq(Ids) /\ w \in Seq(Ids) /\ Distinct(s) /\ Increasing(w)
        /\ Chained(d.orders, s) /\ Chained(d.orders, w) /\ Ranked(d.orders, s)
        /\ d.firstId[t] = First(s) /\ d.lengthOf[t] = L /\ d.pendings[t] = Len(w)
        /\ w # <<>> => d.firstPending[t] = w[1] /\ d.lastPending[t] = w[Len(w)]
    BY GoodFacts
  <1>2. /\ id \in Ids /\ d.orders[id].id = id /\ d \in DataRecords
        /\ d.length = d.lengthOf["LIMIT_ORDER"] + d.lengthOf["MARKET_ORDER"]
        /\ \A x \in 0 .. MaxOrders :
              \/ d.orders[x] = NullOrder
              \/ d.orders[x].id = x /\ (x \in {id} \/ \E u \in OrderTypes : x \in In(b[u]) \union In(q[u]))
    BY DEF Good, Covered
  <1>3. \A x \in In(s) \union In(w) :
             x \in Ids /\ d.orders[x].id = x /\ d.orders[x].orderType = t /\ x \notin {id}
    BY Apart
  <1>27. \A u \in OrderTypes : u # t =>
             \A x \in In(b[u]) \union In(q[u]) : x \notin In(s) \union In(w) /\ x \in Ids /\ x # id
    BY Apart
  <1>28. \A x \in In(s) : x \notin In(w)
    BY Apart
  <1>4. /\ at \in 1 .. L + 1 /\ L \in Nat /\ at \in Nat /\ 0 \in 0 .. MaxOrders
        /\ \A x \in Ids : x \in 0 .. MaxOrders /\ x \in Nat \ {0}
    BY <1>1, LenProperties, OrderBookAssumption DEF Spot, Ids
  <1>5. id \notin In(s) /\ id \notin In(w)
    BY <1>3
  <1>6. /\ at = 1 => previous = 0
        /\ at # 1 => previous = s[at - 1] /\ previous \in In(s) /\ previous # 0 /\ at - 1 \in 1 .. L
    <2>1. at # 1 => at - 1 \in 1 .. L
      BY <1>4
    <2>2. at # 1 => s[at - 1] \in In(s) /\ s[at - 1] # 0
      BY <1>1, <2>1, Places
    <2>3. QED
      BY <2>1, <2>2 DEF Before1
  <1>7. previous \in 0 .. MaxOrders
    BY <1>3, <1>4, <1>6
  <1> HIDE DEF previous, r
  <1>8. /\ e \in DataRecords
        /\ O = Placed(d, t, id, previous)
        /\ e.firstId = IF previous # 0 THEN d.firstId ELSE [d.firstId EXCEPT ![t] = id]
        /\ e.lengthOf = [d.lengthOf EXCEPT ![t] = @ + 1]
        /\ e.length = d.length + 1
        /\ e.firstPending = d.firstPending /\ e.lastPending = d.lastPending /\ e.pendings = d.pendings
    BY <1>2, <1>7, PositionWrites
  <1> HIDE DEF e
  <1> DEFINE next == IF at = L + 1 THEN 0 ELSE s[at]
  <1>9. /\ next \in 0 .. MaxOrders
        /\ at = 1 => d.firstId[t] = next
        /\ at # 1 => d.orders[previous].next = next
    <2>1. at # L + 1 => at \in 1 .. L
      BY <1>4
    <2>2. next \in 0 .. MaxOrders
      BY <1>1, <2>1, Places, OrderBookAssumption
    <2>3. at = 1 => First(s) = next
      <3>1. L = 0 <=> s = <<>>
        BY <1>1, Places
      <3>2. at = 1 => (at = L + 1 <=> L = 0)
        BY <1>4
      <3>3. QED
        BY <3>1, <3>2 DEF First
    <2>4. at # 1 => d.orders[s[at - 1]].next = next
      <3>1. at # 1 => (at - 1 = L <=> at = L + 1) /\ at - 1 + 1 = at
        BY <1>4
      <3>2. at # 1 => d.orders[s[at - 1]].next = Successor(s, at - 1)
        BY <1>1, <1>6 DEF Chained
      <3>3. QED
        BY <3>1, <3>2 DEF Successor
    <2>5. QED
      BY <1>1, <1>6, <2>2, <2>3, <2>4
  <1> DEFINE O1 == Relinked(d.orders, id, next)
  <1>10. O = IF at # 1 THEN Relinked(O1, previous, id) ELSE O1
    BY <1>6, <1>8, <1>9 DEF Placed
  <1> HIDE DEF next
  <1>11. OnlyNext(d.orders, O1, id, next)
    <2>1. id \in 0 .. MaxOrders
      BY <1>2, <1>4
    <2>2. QED
      BY <1>1, <1>9, <2>1, RelinkedIs
  <1> HIDE DEF O1, O
  <1>12. /\ O \in [0 .. MaxOrders -> OrderRecords]
         /\ at # 1 => O[previous].next = id
         /\ \A y \in 0 .. MaxOrders : /\ y # id /\ (at # 1 => y # previous) => O[y] = d.orders[y]
                                      /\ (at # 1 => y # previous) => O[y] = O1[y]
                                      /\ O[y].id = d.orders[y].id
                                      /\ O[y].orderType = d.orders[y].orderType
                                      /\ O[y].price = d.orders[y].price
                                      /\ O[y].expiresInTick = d.orders[y].expiresInTick
    <2>1. CASE at = 1
      BY <1>10, <1>11, <2>1 DEF OnlyNext
    <2>2. CASE at # 1
      <3> DEFINE O2 == Relinked(O1, previous, id)
      <3>1. id \in 0 .. MaxOrders /\ O1 \in [0 .. MaxOrders -> OrderRecords]
        BY <1>2, <1>4, <1>11 DEF OnlyNext
      <3>2. OnlyNext(O1, O2, previous, id)
        BY <1>7, <3>1, RelinkedIs
      <3> HIDE DEF O2
      <3>3. O = O2
        BY <1>10, <2>2 DEF O2
      <3>4. QED
        BY <1>11, <2>2, <3>2, <3>3 DEF OnlyNext
    <2>3. QED
      BY <2>1, <2>2
  <1>13. at # 1 => previous # id
    BY <1>5, <1>6
  <1>14. O[id].next = next
    BY <1>2, <1>4, <1>11, <1>12, <1>13 DEF OnlyNext
  <1>15. Linked(d.orders, O, s, at, id)
    <2>1. at # 1 => O[s[at - 1]].next = id
      BY <1>6, <1>12
    <2>2. ASSUME NEW n \in 1 .. L, n # at - 1
          PROVE  O[s[n]].next = d.orders[s[n]].next
      <3>1. s[n] \in In(s) /\ s[n] \in 0 .. MaxOrders /\ s[n] # id
        BY <1>1, <1>5, Places
      <3>2. at # 1 => s[n] # s[at - 1]
        <4>1. DOMAIN s = 1 .. L
          BY <1>1, LenProperties
        <4>2. QED
          BY <1>1, <1>6, <2>2, <4>1 DEF Distinct
      <3>3. O[s[n]] = d.orders[s[n]]
        BY <1>6, <1>12, <3>1, <3>2
      <3>4. QED
        BY <3>3
    <2>3. QED
      BY <1>14, <2>1, <2>2 DEF Linked, next
  <1>16. Chained(O, r)
    BY <1>1, <1>2, <1>4, <1>5, <1>15, InsertedChain DEF r
  <1>17. Ranked(O, r)
    <2>1. O[id].price = d.orders[id].price
      BY <1>2, <1>4, <1>12
    <2>2. Spot(d.orders, s, O[id].price, at)
      BY <2>1
    <2>3. \A x \in 0 .. MaxOrders : O[x].price = d.orders[x].price
      BY <1>12
    <2>4. QED
      BY <1>1, <1>2, <1>5, <1>12, <2>2, <2>3, InsertedRanked DEF r
  <1>18. r \in Seq(Ids) /\ Len(r) = L + 1 /\ Distinct(r) /\ In(r) = In(s) \union {id} /\ r[at] = id /\ (at # 1 => r[1] = s[1])
    <2>1. at # 1 => 1 \in 1 .. L + 1 /\ 1 < at
      BY <1>4
    <2>2. r \in Seq(Ids) /\ Len(r) = L + 1 /\ Distinct(r) /\ In(r) = In(s) \union {id}
      BY <1>1, <1>2, <1>4, <1>5, InsertedPlaces DEF r
    <2>3. r[at] = id /\ \A k \in 1 .. L + 1 : k < at => r[k] = s[k]
      <3>1. r = Inserted(s, at, id)
        BY DEF r
      <3>2. s \in Seq(Ids) /\ Distinct(s) /\ id \in Ids /\ id \notin In(s) /\ at \in 1 .. L + 1
        BY <1>1, <1>2, <1>4, <1>5
      <3> HIDE DEF s
      <3>3. r[at] = id /\ \A k \in 1 .. L + 1 : (k < at => r[k] = s[k]) /\ (k > at => r[k] = s[k - 1])
        BY <3>1, <3>2, InsertedPlaces
      <3>4. QED
        BY <3>3
    <2>4. QED
      BY <2>1, <2>2, <2>3
  <1>19. Chained(O, w)
    <2>1. ASSUME NEW n \in 1 .. Len(w)
          PROVE  O[w[n]] = d.orders[w[n]]
      <3>1. w[n] \in In(w) /\ w[n] \in 0 .. MaxOrders
        BY <1>1, Places
      <3>2. w[n] # id /\ (at # 1 => w[n] # previous)
        <4>1. previous \in In(s) => previous \notin In(w)
          BY <1>28
        <4>2. QED
          BY <1>5, <1>6, <3>1, <4>1
      <3>3. QED
        BY <1>12, <3>1, <3>2
    <2>2. QED
      BY <1>1, <2>1 DEF Chained
  <1>20. e.firstId[t] = First(r) /\ e.lengthOf[t] = L + 1
    <2>1. r # <<>>
      BY <1>4, <1>18
    <2>2. d.firstId[t] \in 0 .. MaxOrders /\ d.firstId \in [OrderTypes -> 0 .. MaxOrders] /\ d.lengthOf \in [OrderTypes -> Nat]
      BY <1>2 DEF DataRecords
    <2>3. at # 1 => First(s) = s[1]
      <3>1. at # 1 => L # 0
        BY <1>4
      <3>2. QED
        BY <1>1, <3>1, Places DEF First
    <2>6. e.lengthOf[t] = L + 1
      BY <1>1, <1>8, <2>2
    <2>4. CASE at = 1
      <3>1. e.firstId = [d.firstId EXCEPT ![t] = id]
        BY <1>6, <1>8, <2>4
      <3>2. e.firstId[t] = id
        BY <2>2, <3>1
      <3>3. QED
        BY <1>18, <2>1, <2>4, <3>2, <2>6 DEF First
    <2>5. CASE at # 1
      BY <1>1, <1>6, <1>8, <1>18, <2>1, <2>2, <2>3, <2>5, <2>6 DEF First
    <2>7. QED
      BY <2>4, <2>5, <2>6
  <1>21. Half(e, t, r, w, {})
    <2>1. Owned(O, t, r, w, {})
      <3> SUFFICES ASSUME NEW x \in In(r) \union In(w) PROVE O[x].id = x /\ O[x].orderType = t /\ x \notin {}
        BY DEF Owned
      <3>1. x \in 0 .. MaxOrders /\ d.orders[x].id = x /\ d.orders[x].orderType = t
        BY <1>2, <1>3, <1>4, <1>18
      <3>2. QED
        BY <1>12, <3>1
    <2>2. \A i \in In(r), j \in In(w) : i < j
      <3>1. \A i \in In(s), j \in In(w) : i < j
        BY DEF Good, Half
      <3>2. QED
        BY <1>18, <3>1
    <2>3. e.pendings[t] = Len(w) /\ (w # <<>> => e.firstPending[t] = w[1] /\ e.lastPending[t] = w[Len(w)])
      BY <1>1, <1>8
    <2>4. e.orders = O
      BY DEF O
    <2>5. QED
      BY <1>1, <1>16, <1>17, <1>18, <1>19, <1>20, <2>1, <2>2, <2>3, <2>4 DEF Half
  <1>22. ASSUME NEW u \in OrderTypes, u # t
         PROVE  SameHalf(d, e, u, b[u], q[u])
    <2>1. ASSUME NEW x \in In(b[u]) \union In(q[u])
          PROVE  e.orders[x] = d.orders[x]
      <3>1. x \in 0 .. MaxOrders /\ x # id /\ x \notin In(s)
        <4>1. x \in Ids /\ x # id /\ x \notin In(s) \union In(w)
          BY <1>27, <1>22
        <4>2. QED
          BY <1>4, <4>1
      <3>2. at # 1 => x # previous
        BY <1>6, <3>1
      <3>3. QED
        BY <1>12, <3>1, <3>2 DEF O
    <2>2. d.firstId \in [OrderTypes -> 0 .. MaxOrders] /\ d.lengthOf \in [OrderTypes -> Nat]
      BY <1>2 DEF DataRecords
    <2>3. e.firstId[u] = d.firstId[u] /\ e.lengthOf[u] = d.lengthOf[u]
      BY <1>8, <1>22, <2>2
    <2>4. QED
      BY <1>8, <2>1, <2>3 DEF SameHalf
  <1>23. e.length = e.lengthOf["LIMIT_ORDER"] + e.lengthOf["MARKET_ORDER"]
    <2>1. d.lengthOf \in [OrderTypes -> Nat] /\ d.length \in Nat
      BY <1>2 DEF DataRecords
    <2>2. QED
      BY <1>2, <1>8, <2>1 DEF OrderTypes
  <1>24. Covered(O, b2, q, {})
    <2> SUFFICES ASSUME NEW x \in 0 .. MaxOrders
                 PROVE  \/ O[x] = NullOrder
                        \/ O[x].id = x /\ \E u \in OrderTypes : x \in In(b2[u]) \union In(q[u])
      BY DEF Covered
    <2>1. In(b2[t]) = In(s) \union {id} /\ \A u \in OrderTypes : u # t => b2[u] = b[u]
      BY <1>18 DEF r
    <2>2. CASE d.orders[x] = NullOrder
      <3>1. x # id
        BY <1>2, <1>4, <2>2 DEF NullOrder
      <3>2. at # 1 => x # previous
        <4>1. at # 1 => d.orders[previous].id # 0
          BY <1>3, <1>6
        <4>2. QED
          BY <2>2, <4>1 DEF NullOrder
      <3>3. QED
        BY <1>12, <2>2, <3>1, <3>2
    <2>3. CASE d.orders[x] # NullOrder
      <3>1. d.orders[x].id = x /\ (x = id \/ \E u \in OrderTypes : x \in In(b[u]) \union In(q[u]))
        BY <1>2, <2>3
      <3>2. \E u \in OrderTypes : x \in In(b2[u]) \union In(q[u])
        BY <2>1, <3>1
      <3>3. QED
        BY <1>12, <3>1, <3>2
    <2>4. QED
      BY <2>2, <2>3
  <1>25. Good(e, b2, q, {})
    <2>1. Half(e, t, b2[t], q[t], {})
      BY <1>21 DEF r
    <2>2. \A u \in OrderTypes : u # t => /\ b2[u] = b[u] /\ q[u] = q[u]
                                         /\ SameHalf(d, e, u, b[u], q[u])
                                         /\ \A x \in In(b[u]) \union In(q[u]) : x \notin {}
      BY <1>22
    <2>3. Covered(e.orders, b2, q, {})
      BY <1>24 DEF O
    <2>4. e \in DataRecords
      BY <1>8
    <2>5. QED
      BY <1>23, <2>1, <2>2, <2>3, <2>4, GoodChange
  <1>26. QED
    BY <1>12, <1>25 DEF e, O, previous, SameOrder

\* Covered, when every order that was in a list or on its way is in a list.
LEMMA CoveredByLists ==
    ASSUME NEW orders, NEW O, NEW b, NEW q, NEW b2, NEW q2, NEW F, Covered(orders, b, q, F),
           \A x \in 0 .. MaxOrders : O[x].id = orders[x].id /\ (orders[x] = NullOrder => O[x] = NullOrder),
           \A u \in OrderTypes : In(b[u]) \union In(q[u]) \subseteq In(b2[u]) \union In(q2[u]),
           NEW t \in OrderTypes, F \subseteq In(b2[t]) \union In(q2[t])
    PROVE  Covered(O, b2, q2, {})
  <1> SUFFICES ASSUME NEW x \in 0 .. MaxOrders
               PROVE  \/ O[x] = NullOrder
                      \/ O[x].id = x /\ \E u \in OrderTypes : x \in In(b2[u]) \union In(q2[u])
    BY DEF Covered
  <1>1. CASE orders[x] = NullOrder
    BY <1>1
  <1>2. CASE orders[x] # NullOrder
    <2>1. orders[x].id = x /\ (x \in F \/ \E u \in OrderTypes : x \in In(b[u]) \union In(q[u]))
      BY <1>2 DEF Covered
    <2>2. \E u \in OrderTypes : x \in In(b2[u]) \union In(q2[u])
      <3>1. CASE x \in F
        BY <3>1
      <3>2. CASE \E u \in OrderTypes : x \in In(b[u]) \union In(q[u])
        BY <3>2
      <3>3. QED
        BY <2>1, <3>1, <3>2
    <2>3. QED
      BY <2>1, <2>2
  <1>3. QED
    BY <1>1, <1>2

\* The order that is on its way, younger than the others of its type, joins the queue.
LEMMA AppendIsGood ==
    ASSUME NEW d, NEW b, NEW q, NEW id, Good(d, b, q, {id}), NEW t \in OrderTypes, d.orders[id].orderType = t,
           d.orders[id].next = 0,
           \A i \in In(b[t]) \union In(q[t]) : i < id,
           NEW q2, q2[t] = Inserted(q[t], Len(q[t]) + 1, id), \A u \in OrderTypes : u # t => q2[u] = q[u]
    PROVE  LET e == positionOrderAsPending(d, t, id)
           IN  /\ Good(e, b, q2, {})
               /\ \A x \in 0 .. MaxOrders : SameOrder(e.orders[x], d.orders[x])
  <1> DEFINE s == b[t]
             w == q[t]
             L == Len(w)
             r == Inserted(w, L + 1, id)
             e == positionOrderAsPending(d, t, id)
             O == e.orders
             last == d.lastPending[t]
  <1>1. /\ d.orders \in [0 .. MaxOrders -> OrderRecords] /\ d.orders[0] = NullOrder
        /\ s \in Seq(Ids) /\ w \in Seq(Ids) /\ Distinct(s) /\ Increasing(w) /\ Distinct(w)
        /\ Chained(d.orders, s) /\ Chained(d.orders, w) /\ Ranked(d.orders, s)
        /\ d.firstId[t] = First(s) /\ d.lengthOf[t] = Len(s) /\ d.pendings[t] = L
        /\ w # <<>> => d.firstPending[t] = w[1] /\ d.lastPending[t] = w[L]
    BY GoodFacts
  <1>2. /\ id \in Ids /\ d.orders[id].id = id /\ d \in DataRecords
        /\ d.length = d.lengthOf["LIMIT_ORDER"] + d.lengthOf["MARKET_ORDER"]
    BY DEF Good, Covered
  <1>3. \A x \in In(s) \union In(w) :
             x \in Ids /\ d.orders[x].id = x /\ d.orders[x].orderType = t /\ x \notin {id} /\ d.orders[x] # NullOrder
    BY Apart
  <1>4. \A u \in OrderTypes : u # t =>
             \A x \in In(b[u]) \union In(q[u]) : x \notin In(s) \union In(w) /\ x \in Ids /\ x # id
    BY Apart
  <1>5. \A x \in In(s) : x \notin In(w)
    BY Apart
  <1>6. /\ L \in Nat /\ DOMAIN w = 1 .. L /\ (L = 0 <=> w = <<>>)
        /\ \A x \in Ids : x \in 0 .. MaxOrders /\ x \in Nat \ {0}
    BY <1>1, Places, OrderBookAssumption DEF Ids
  <1>7. id \notin In(s) /\ id \notin In(w) /\ id \in 0 .. MaxOrders
    BY <1>2, <1>3, <1>6
  <1>8. L # 0 => last = w[L] /\ last \in In(w) /\ last \in 0 .. MaxOrders /\ last # id /\ L \in 1 .. L
    <2>1. L # 0 => L \in 1 .. L
      BY <1>6
    <2>2. L # 0 => w[L] \in In(w)
      BY <1>1, <2>1, Places
    <2>3. L # 0 => last = w[L]
      BY <1>1, <1>6
    <2>4. QED
      BY <1>3, <1>6, <1>7, <2>1, <2>2, <2>3
  <1>9. /\ e \in DataRecords
        /\ O = IF L # 0 THEN Relinked(d.orders, last, id) ELSE d.orders
        /\ e.firstId = d.firstId /\ e.lengthOf = d.lengthOf /\ e.length = d.length
        /\ e.firstPending = IF L # 0 THEN d.firstPending ELSE [d.firstPending EXCEPT ![t] = id]
        /\ e.lastPending = [d.lastPending EXCEPT ![t] = id]
        /\ e.pendings = [d.pendings EXCEPT ![t] = @ + 1]
    <2>1. /\ e \in DataRecords
          /\ O = IF d.pendings[t] # 0 THEN Relinked(d.orders, last, id) ELSE d.orders
          /\ e.firstId = d.firstId /\ e.lengthOf = d.lengthOf /\ e.length = d.length
          /\ e.firstPending = IF d.pendings[t] # 0 THEN d.firstPending ELSE [d.firstPending EXCEPT ![t] = id]
          /\ e.lastPending = [d.lastPending EXCEPT ![t] = id]
          /\ e.pendings = [d.pendings EXCEPT ![t] = @ + 1]
      BY <1>2, AppendWrites
    <2>2. d.pendings[t] = L
      BY <1>1
    <2> HIDE DEF e, O, last, L
    <2>3. QED
      BY <2>1, <2>2
  <1> HIDE DEF e, r
  <1>10. L # 0 => OnlyNext(d.orders, O, last, id)
    <2> SUFFICES ASSUME L # 0 PROVE OnlyNext(d.orders, O, last, id)
      OBVIOUS
    <2>1. O = Relinked(d.orders, last, id)
      BY <1>9
    <2>2. last \in 0 .. MaxOrders
      BY <1>8
    <2> HIDE DEF O, last
    <2>3. QED
      BY <1>1, <1>7, <2>1, <2>2, RelinkedIs
  <1>11. L = 0 => O = d.orders
    BY <1>9
  <1> HIDE DEF O, last
  <1>12. /\ O \in [0 .. MaxOrders -> OrderRecords]
         /\ \A y \in 0 .. MaxOrders : /\ (L # 0 => y # last) => O[y] = d.orders[y]
                                      /\ O[y].id = d.orders[y].id
                                      /\ O[y].orderType = d.orders[y].orderType
                                      /\ O[y].price = d.orders[y].price
                                      /\ O[y].expiresInTick = d.orders[y].expiresInTick
    BY <1>1, <1>10, <1>11 DEF OnlyNext
  <1>13. Linked(d.orders, O, w, L + 1, id)
    <2>1. O[id].next = 0
      BY <1>7, <1>8, <1>12
    <2>2. L + 1 # 1 => O[w[L + 1 - 1]].next = id
      <3>1. L + 1 # 1 => L # 0 /\ L + 1 - 1 = L
        BY <1>6
      <3>2. QED
        BY <1>8, <1>10, <3>1 DEF OnlyNext
    <2>3. ASSUME NEW n \in 1 .. L, n # L + 1 - 1
          PROVE  O[w[n]].next = d.orders[w[n]].next
      <3>1. w[n] \in 0 .. MaxOrders /\ n # L
        BY <1>1, <1>6, <2>3, Places
      <3>2. L # 0 => w[n] # last
        <4> SUFFICES ASSUME L # 0, w[n] = w[L] PROVE FALSE
          BY <1>8
        <4>1. n \in DOMAIN w /\ L \in DOMAIN w
          BY <1>6, <1>8
        <4>2. n = L
          BY <1>1, <4>1 DEF Distinct
        <4>3. QED
          BY <3>1, <4>2
      <3>3. QED
        BY <1>12, <3>1, <3>2
    <2>4. QED
      BY <2>1, <2>2, <2>3 DEF Linked
  <1>14. L + 1 \in 1 .. L + 1
    BY <1>6
  <1>15. Chained(O, r)
    BY <1>1, <1>2, <1>7, <1>13, <1>14, InsertedChain DEF r
  <1>16. /\ r \in Seq(Ids) /\ Len(r) = L + 1 /\ In(r) = In(w) \union {id} /\ r[L + 1] = id
         /\ \A k \in 1 .. L : r[k] = w[k]
    <2>1. r = Inserted(w, L + 1, id)
      BY DEF r
    <2>2. /\ r \in Seq(Ids) /\ Len(r) = L + 1 /\ In(r) = In(w) \union {id} /\ r[L + 1] = id
          /\ \A k \in 1 .. L + 1 : (k < L + 1 => r[k] = w[k]) /\ (k > L + 1 => r[k] = w[k - 1])
      <3> DEFINE at == L + 1
      <3>1. w \in Seq(Ids) /\ Distinct(w) /\ id \in Ids /\ id \notin In(w) /\ at \in 1 .. Len(w) + 1 /\ r = Inserted(w, at, id)
        BY <1>1, <1>2, <1>7, <1>14, <2>1
      <3> HIDE DEF at, w
      <3>2. /\ r \in Seq(Ids) /\ Len(r) = Len(w) + 1 /\ In(r) = In(w) \union {id} /\ r[at] = id
            /\ \A k \in 1 .. Len(w) + 1 : (k < at => r[k] = w[k]) /\ (k > at => r[k] = w[k - 1])
        BY <3>1, InsertedPlaces
      <3>3. QED
        BY <3>2 DEF at
    <2>3. \A k \in 1 .. L : k \in 1 .. L + 1 /\ k < L + 1
      BY <1>6
    <2>4. QED
      BY <2>2, <2>3
  <1>17. Increasing(r)
    <2> SUFFICES ASSUME NEW m \in 1 .. L + 1, NEW n \in 1 .. L + 1, m < n PROVE r[m] < r[n]
      BY <1>16 DEF Increasing
    <2>1. m \in 1 .. L /\ (n = L + 1 \/ n \in 1 .. L)
      BY <1>6
    <2>2. w[m] \in In(w)
      BY <1>1, <2>1, Places
    <2>3. QED
      BY <1>1, <1>16, <2>1, <2>2 DEF Increasing
  <1>18. /\ \A x \in In(s) : x \in 0 .. MaxOrders /\ O[x] = d.orders[x]
    <2> SUFFICES ASSUME NEW x \in In(s) PROVE x \in 0 .. MaxOrders /\ O[x] = d.orders[x]
      OBVIOUS
    <2>1. x \in 0 .. MaxOrders /\ x \notin In(w)
      BY <1>3, <1>5, <1>6
    <2>2. QED
      BY <1>8, <1>12, <2>1
  <1>19. Chained(O, s) /\ Ranked(O, s)
    <2>1. \A n \in 1 .. Len(s) : O[s[n]] = d.orders[s[n]]
      BY <1>1, <1>18, Places
    <2>2. Chained(O, s)
      BY <1>1, <2>1 DEF Chained
    <2>3. Ranked(O, s)
      <3> SUFFICES ASSUME NEW m \in 1 .. Len(s), NEW n \in 1 .. Len(s), m < n PROVE Better(O, s[m], s[n])
        BY DEF Ranked
      <3>1. Better(d.orders, s[m], s[n])
        BY <1>1 DEF Ranked
      <3>2. QED
        BY <2>1, <3>1 DEF Better
    <2>4. QED
      BY <2>2, <2>3
  <1>20. e.pendings[t] = L + 1 /\ e.firstPending[t] = r[1] /\ e.lastPending[t] = r[L + 1]
    <2>1. d.firstPending \in [OrderTypes -> 0 .. MaxOrders] /\ d.lastPending \in [OrderTypes -> 0 .. MaxOrders]
          /\ d.pendings \in [OrderTypes -> Nat]
      BY <1>2 DEF DataRecords
    <2>2. e.pendings[t] = L + 1
      BY <1>1, <1>9, <2>1
    <2>3. e.lastPending[t] = r[L + 1]
      BY <1>9, <1>16, <2>1
    <2>4. L # 0 => e.firstPending[t] = r[1]
      <3>1. L # 0 => 1 \in 1 .. L
        BY <1>6
      <3>2. QED
        BY <1>1, <1>6, <1>9, <1>16, <3>1
    <2>5. L = 0 => e.firstPending[t] = r[1]
      BY <1>9, <1>16, <2>1
    <2>6. QED
      BY <2>2, <2>3, <2>4, <2>5
  <1>21. Half(e, t, s, r, {})
    <2>1. Owned(O, t, s, r, {})
      <3> SUFFICES ASSUME NEW x \in In(s) \union In(r) PROVE O[x].id = x /\ O[x].orderType = t /\ x \notin {}
        BY DEF Owned
      <3>1. x \in 0 .. MaxOrders /\ d.orders[x].id = x /\ d.orders[x].orderType = t
        BY <1>2, <1>3, <1>6, <1>16
      <3>2. QED
        BY <1>12, <3>1
    <2>2. \A i \in In(s), j \in In(r) : i < j
      <3>1. \A i \in In(s), j \in In(w) : i < j
        BY DEF Good, Half
      <3>2. QED
        BY <1>16, <3>1
    <2>3. e.firstId[t] = First(s) /\ e.lengthOf[t] = Len(s)
      BY <1>1, <1>9
    <2>4. e.orders = O
      BY DEF O
    <2>5. QED
      BY <1>1, <1>15, <1>16, <1>17, <1>19, <1>20, <2>1, <2>2, <2>3, <2>4 DEF Half
  <1>22. ASSUME NEW u \in OrderTypes, u # t
         PROVE  SameHalf(d, e, u, b[u], q[u])
    <2>1. ASSUME NEW x \in In(b[u]) \union In(q[u])
          PROVE  e.orders[x] = d.orders[x]
      <3>1. x \in 0 .. MaxOrders /\ x \notin In(w)
        <4>1. x \in Ids /\ x \notin In(s) \union In(w)
          BY <1>4, <1>22
        <4>2. QED
          BY <1>6, <4>1
      <3>2. QED
        BY <1>8, <1>12, <3>1 DEF O
    <2>2. d.firstPending \in [OrderTypes -> 0 .. MaxOrders] /\ d.lastPending \in [OrderTypes -> 0 .. MaxOrders]
          /\ d.pendings \in [OrderTypes -> Nat]
      BY <1>2 DEF DataRecords
    <2>3. e.lastPending[u] = d.lastPending[u] /\ e.pendings[u] = d.pendings[u]
      BY <1>9, <1>22, <2>2
    <2>4. e.firstPending[u] = d.firstPending[u]
      BY <1>9, <1>22, <2>2
    <2>5. QED
      BY <1>9, <2>1, <2>3, <2>4 DEF SameHalf
  <1>23. Covered(O, b, q2, {})
    <2>1. Covered(d.orders, b, q, {id})
      BY DEF Good
    <2>2. In(q2[t]) = In(w) \union {id}
      BY <1>16 DEF r
    <2>3. \A u \in OrderTypes : In(b[u]) \union In(q[u]) \subseteq In(b[u]) \union In(q2[u])
      BY <2>2
    <2>4. {id} \subseteq In(b[t]) \union In(q2[t])
      BY <2>2
    <2>5. \A x \in 0 .. MaxOrders : O[x].id = d.orders[x].id /\ (d.orders[x] = NullOrder => O[x] = NullOrder)
      <3> SUFFICES ASSUME NEW x \in 0 .. MaxOrders
                   PROVE  O[x].id = d.orders[x].id /\ (d.orders[x] = NullOrder => O[x] = NullOrder)
        OBVIOUS
      <3>1. L # 0 /\ x = last => d.orders[x] # NullOrder
        BY <1>3, <1>8
      <3>2. QED
        BY <1>12, <3>1
    <2>6. QED
      BY <2>1, <2>3, <2>4, <2>5, CoveredByLists
  <1>24. Good(e, b, q2, {})
    <2>1. Half(e, t, b[t], q2[t], {})
      BY <1>21 DEF r
    <2>2. \A u \in OrderTypes : u # t => /\ b[u] = b[u] /\ q2[u] = q[u]
                                         /\ SameHalf(d, e, u, b[u], q[u])
                                         /\ \A x \in In(b[u]) \union In(q[u]) : x \notin {}
      BY <1>22
    <2>3. Covered(e.orders, b, q2, {})
      BY <1>23 DEF O
    <2>4. e \in DataRecords /\ e.length = e.lengthOf["LIMIT_ORDER"] + e.lengthOf["MARKET_ORDER"]
      BY <1>2, <1>9
    <2>5. QED
      BY <2>1, <2>2, <2>3, <2>4, GoodChange
  <1>25. QED
    BY <1>12, <1>24 DEF e, O, SameOrder

\* popped is d without the pending order id, which was the oldest one.
IsPopped(d, popped, b, q2, t, id) ==
    /\ Good(popped, b, q2, {id})
    /\ popped.orders = d.orders /\ popped.firstId = d.firstId /\ popped.lengthOf = d.lengthOf
    /\ id = d.firstPending[t] /\ id \in Ids /\ d.orders[id].orderType = t /\ d.orders[id].id = id
    /\ \A i \in In(b[t]) : i < id
    /\ \A j \in In(q2[t]) : id < j

\* The oldest pending order leaves the queue: it is on its way to the book.
LEMMA PopPendingIsGood ==
    ASSUME NEW d, NEW b, NEW q, Good(d, b, q, {}), NEW t \in OrderTypes, q[t] # <<>>,
           NEW id, id = q[t][1],
           NEW q2, q2[t] = Tail(q[t]), \A u \in OrderTypes : u # t => q2[u] = q[u],
           NEW popped, popped = PopPending(d, t)
    PROVE  IsPopped(d, popped, b, q2, t, id)
  <1> DEFINE s == b[t]
             w == q[t]
             L == Len(w)
             r == Tail(w)
             e == PopPending(d, t)
             O == d.orders
  <1>1. /\ O \in [0 .. MaxOrders -> OrderRecords] /\ O[0] = NullOrder
        /\ s \in Seq(Ids) /\ w \in Seq(Ids) /\ Distinct(s) /\ Increasing(w) /\ Distinct(w)
        /\ Chained(O, s) /\ Chained(O, w) /\ Ranked(O, s)
        /\ d.firstId[t] = First(s) /\ d.lengthOf[t] = Len(s) /\ d.pendings[t] = L
        /\ d.firstPending[t] = id /\ d.lastPending[t] = w[L]
    <2>1. /\ O \in [0 .. MaxOrders -> OrderRecords] /\ O[0] = NullOrder
          /\ s \in Seq(Ids) /\ w \in Seq(Ids) /\ Distinct(s) /\ Increasing(w) /\ Distinct(w)
          /\ Chained(O, s) /\ Chained(O, w) /\ Ranked(O, s)
          /\ d.firstId[t] = First(s) /\ d.lengthOf[t] = Len(s) /\ d.pendings[t] = L
      BY GoodFacts
    <2>2. w # <<>> => d.firstPending[t] = w[1] /\ d.lastPending[t] = w[L]
      BY GoodFacts
    <2>3. QED
      BY <2>1, <2>2
  <1>2. d \in DataRecords /\ d.length = d.lengthOf["LIMIT_ORDER"] + d.lengthOf["MARKET_ORDER"]
    BY DEF Good
  <1>3. \A x \in In(s) \union In(w) : x \in Ids /\ O[x].id = x /\ O[x].orderType = t /\ O[x] # NullOrder
    BY Apart
  <1>4. \A u \in OrderTypes : u # t => \A x \in In(b[u]) \union In(q[u]) : x \notin In(s) \union In(w) /\ x \in Ids
    BY Apart
  <1>5. \A i \in In(s), j \in In(w) : i < j
    BY DEF Good, Half
  <1>6. L \in Nat \ {0} /\ DOMAIN w = 1 .. L /\ 1 \in 1 .. L
    <2>1. L \in Nat /\ DOMAIN w = 1 .. L /\ (L = 0 <=> w = <<>>)
      BY <1>1, Places
    <2>2. QED
      BY <2>1
  <1>7. id \in In(w) /\ id \in Ids /\ O[id].orderType = t /\ O[id].id = id /\ id \notin In(s)
    <2>1. id \in In(w)
      BY <1>1, <1>6, Places
    <2>2. \A x \in In(s) : x \notin In(w)
      BY Apart
    <2>3. QED
      BY <1>3, <2>1, <2>2
  <1>8. /\ r \in Seq(Ids) /\ Len(r) = L - 1 /\ Distinct(r) /\ In(r) = In(w) \ {id}
        /\ \A i \in 1 .. L - 1 : r[i] = w[i + 1]
    <2>1. /\ r \in Seq(Ids) /\ Distinct(r) /\ Len(r) = L - 1 /\ \A i \in 1 .. L - 1 : r[i] = w[i + 1]
      BY <1>1, TailList
    <2>2. Head(w) = w[1] /\ In(r) = In(w) \ {Head(w)}
      BY <1>1, TailList
    <2>3. QED
      BY <2>1, <2>2
  <1> HIDE DEF r
  <1>9. Increasing(r)
    <2> SUFFICES ASSUME NEW m \in 1 .. L - 1, NEW n \in 1 .. L - 1, m < n PROVE r[m] < r[n]
      BY <1>8 DEF Increasing
    <2>1. m + 1 \in 1 .. L /\ n + 1 \in 1 .. L /\ m + 1 < n + 1
      BY <1>6
    <2>2. w[m + 1] < w[n + 1]
      BY <1>1, <2>1 DEF Increasing
    <2>3. QED
      BY <1>8, <2>2
  <1>10. Chained(O, r)
    <2> SUFFICES ASSUME NEW n \in 1 .. L - 1 PROVE O[r[n]].next = Successor(r, n)
      BY <1>8 DEF Chained
    <2>1. n + 1 \in 1 .. L /\ (n = L - 1 <=> n + 1 = L)
      BY <1>6
    <2>2. O[w[n + 1]].next = IF n + 1 = L THEN 0 ELSE w[n + 1 + 1]
      BY <1>1, <2>1 DEF Chained, Successor
    <2>3. n # L - 1 => n + 1 \in 1 .. L - 1
      BY <1>6
    <2>4. n # L - 1 => r[n + 1] = w[n + 1 + 1]
      BY <1>8, <2>3
    <2>5. QED
      BY <1>8, <2>1, <2>2, <2>4 DEF Successor
  <1>11. \A j \in In(r) : id < j
    <2> SUFFICES ASSUME NEW j \in In(r) PROVE id < j
      OBVIOUS
    <2>1. PICK n \in 1 .. L : w[n] = j
      <3>1. j \in In(w)
        BY <1>8
      <3>2. QED
        BY <1>1, <3>1, Places
    <2>2. n # 1 /\ n \in Nat
      BY <1>1, <1>6, <1>8, <2>1
    <2>3. 1 < n
      BY <2>2
    <2>4. w[1] < w[n]
      BY <1>1, <1>6, <2>3 DEF Increasing
    <2>5. QED
      BY <2>1, <2>4
  <1>12. /\ e \in DataRecords
         /\ e.orders = O
         /\ e.firstId = d.firstId /\ e.lengthOf = d.lengthOf /\ e.length = d.length
         /\ e.firstPending = [d.firstPending EXCEPT ![t] = O[d.firstPending[t]].next]
         /\ e.lastPending = d.lastPending
         /\ e.pendings = [d.pendings EXCEPT ![t] = @ - 1]
    <2>1. d.pendings[t] # 0
      BY <1>1, <1>6
    <2>2. QED
      BY <1>2, <2>1, PopPendingWrites
  <1> HIDE DEF e
  <1>13. d.firstPending \in [OrderTypes -> 0 .. MaxOrders] /\ d.pendings \in [OrderTypes -> Nat]
    BY <1>2 DEF DataRecords
  <1>14. e.pendings[t] = L - 1 /\ (r # <<>> => e.firstPending[t] = r[1] /\ e.lastPending[t] = r[L - 1])
    <2>1. e.pendings[t] = L - 1
      BY <1>1, <1>12, <1>13
    <2>2. r # <<>> => L - 1 # 0
      BY <1>8, Places
    <2>3. L - 1 # 0 => 1 \in 1 .. L - 1 /\ L - 1 \in 1 .. L - 1 /\ L - 1 + 1 = L /\ L # 1
      <3>1. \A l \in Nat \ {0} : l - 1 # 0 => 1 \in 1 .. l - 1 /\ l - 1 \in 1 .. l - 1 /\ l - 1 + 1 = l /\ l # 1
        OBVIOUS
      <3>2. QED
        BY <1>6, <3>1
    <2>4. L # 1 => O[id].next = w[2]
      <3>1. O[w[1]].next = Successor(w, 1)
        BY <1>1, <1>6 DEF Chained
      <3>2. Successor(w, 1) = IF 1 = L THEN 0 ELSE w[2]
        BY DEF Successor
      <3>3. QED
        BY <3>1, <3>2
    <2>5. e.firstPending[t] = O[id].next
      BY <1>1, <1>12, <1>13
    <2>6. L - 1 # 0 => r[1] = w[2] /\ r[L - 1] = w[L]
      <3>1. L - 1 # 0 => r[1] = w[1 + 1] /\ r[L - 1] = w[L - 1 + 1]
        BY <1>8, <2>3
      <3>2. QED
        BY <2>3, <3>1
    <2>7. QED
      BY <1>1, <1>12, <2>1, <2>2, <2>3, <2>4, <2>5, <2>6
  <1>15. Half(e, t, s, r, {id})
    <2>1. Owned(O, t, s, r, {id})
      BY <1>3, <1>7, <1>8 DEF Owned
    <2>2. \A i \in In(s), j \in In(r) : i < j
      BY <1>5, <1>8
    <2>3. e.firstId[t] = First(s) /\ e.lengthOf[t] = Len(s)
      BY <1>1, <1>12
    <2>4. QED
      BY <1>1, <1>8, <1>9, <1>10, <1>12, <1>14, <2>1, <2>2, <2>3 DEF Half
  <1>16. ASSUME NEW u \in OrderTypes, u # t
         PROVE  SameHalf(d, e, u, b[u], q[u]) /\ \A x \in In(b[u]) \union In(q[u]) : x \notin {id}
    <2>1. e.firstPending[u] = d.firstPending[u] /\ e.pendings[u] = d.pendings[u]
      BY <1>12, <1>13, <1>16
    <2>2. SameHalf(d, e, u, b[u], q[u])
      BY <1>12, <2>1 DEF SameHalf
    <2>3. QED
      BY <1>4, <1>7, <1>16, <2>2
  <1>17. Covered(O, b, q2, {id})
    <2>1. In(q2[t]) = In(w) \ {id}
      BY <1>8 DEF r
    <2>2. ASSUME NEW x \in 0 .. MaxOrders
          PROVE  \/ O[x] = NullOrder
                 \/ O[x].id = x /\ (x \in {id} \/ \E u \in OrderTypes : x \in In(b[u]) \union In(q2[u]))
      <3>1. \/ O[x] = NullOrder
            \/ O[x].id = x /\ \E u \in OrderTypes : x \in In(b[u]) \union In(q[u])
        BY DEF Good, Covered
      <3>2. QED
        BY <2>1, <3>1
    <2>3. QED
      BY <1>7, <2>2 DEF Covered
  <1>18. Good(e, b, q2, {id})
    <2>1. Half(e, t, b[t], q2[t], {id})
      BY <1>15 DEF r
    <2>2. \A u \in OrderTypes : u # t => /\ b[u] = b[u] /\ q2[u] = q[u]
                                         /\ SameHalf(d, e, u, b[u], q[u])
                                         /\ \A x \in In(b[u]) \union In(q[u]) : x \notin {id}
      BY <1>16
    <2>3. Covered(e.orders, b, q2, {id})
      BY <1>12, <1>17
    <2>4. e \in DataRecords /\ e.length = e.lengthOf["LIMIT_ORDER"] + e.lengthOf["MARKET_ORDER"]
      BY <1>2, <1>12
    <2>5. QED
      BY <2>1, <2>2, <2>3, <2>4, GoodChange
  <1>19. QED
    <2>1. \A i \in In(b[t]) : i < id
      BY <1>5, <1>7
    <2>2. \A j \in In(q2[t]) : id < j
      BY <1>11 DEF r
    <2>3. QED
      BY <1>1, <1>7, <1>12, <1>18, <2>1, <2>2 DEF e, IsPopped

-----------------------------------------------------------------------------
(* Lists that shrink. *)

\* The list s without what is at the place "at".
Cut(s, at) == [k \in 1 .. Len(s) - 1 |-> IF k < at THEN s[k] ELSE s[k + 1]]

\* The places of a shorter list.
LEMMA CutPlaces ==
    ASSUME NEW s \in Seq(Ids), NEW at \in 1 .. Len(s), Distinct(s), NEW r, r = Cut(s, at)
    PROVE  /\ r \in Seq(Ids) /\ Len(r) = Len(s) - 1 /\ Distinct(r) /\ In(r) = In(s) \ {s[at]}
           /\ \A k \in 1 .. Len(s) - 1 : (k < at => r[k] = s[k]) /\ (k >= at => r[k] = s[k + 1])
  <1> DEFINE L == Len(s)
             old == 1 .. L
             new == 1 .. L - 1
             From(k) == IF k < at THEN k ELSE k + 1
  <1>1. DOMAIN s = old /\ L \in Nat \ {0} /\ s \in [old -> Ids] /\ at \in Nat /\ at \in old /\ L - 1 \in Nat
    <2>1. DOMAIN s = old /\ L \in Nat /\ s \in [old -> Ids]
      BY LenProperties
    <2>2. QED
      BY <2>1
  <1>2. DOMAIN r = new /\ r = [k \in new |-> IF k < at THEN s[k] ELSE s[k + 1]]
    BY DEF Cut
  <1>3. \A k \in new : From(k) \in old /\ From(k) # at /\ r[k] = s[From(k)]
    <2>1. \A l \in Nat, a \in Nat : \A k \in 1 .. l - 1 :
              (k < a => k \in 1 .. l /\ k # a) /\ (~(k < a) => k + 1 \in 1 .. l /\ k + 1 # a)
      OBVIOUS
    <2>2. \A k \in new : From(k) \in old /\ From(k) # at
      BY <1>1, <2>1
    <2>3. QED
      BY <1>2, <2>2
  <1>4. \A k, j \in new : From(k) = From(j) => k = j
    BY <1>1
  <1>5. \A n \in old : n # at => \E k \in new : From(k) = n
    <2> SUFFICES ASSUME NEW n \in old, n # at
                 PROVE  \E k \in new : From(k) = n
      OBVIOUS
    <2>1. CASE n < at
      <3>1. n \in new /\ From(n) = n
        BY <1>1, <2>1
      <3>2. QED
        BY <3>1
    <2>2. CASE ~(n < at)
      <3>1. n - 1 \in new /\ From(n - 1) = n
        BY <1>1, <2>2
      <3>2. QED
        BY <3>1
    <2>3. QED
      BY <2>1, <2>2
  <1>6. \A k \in new : (k < at => r[k] = s[k]) /\ (k >= at => r[k] = s[k + 1])
    BY <1>1, <1>2
  <1> HIDE DEF From, L
  <1>7. r \in Seq(Ids) /\ Len(r) = L - 1
    <2>1. \A k \in new : r[k] \in Ids
      BY <1>1, <1>3
    <2>2. r \in [1 .. L - 1 -> Ids]
      BY <1>2, <2>1
    <2>3. QED
      BY <1>1, <2>2
  <1>8. Distinct(r)
    <2> SUFFICES ASSUME NEW k \in new, NEW j \in new, r[k] = r[j]
                 PROVE  k = j
      BY <1>2 DEF Distinct
    <2>1. From(k) = From(j)
      BY <1>1, <1>3 DEF Distinct
    <2>2. QED
      BY <1>4, <2>1
  <1>9. In(r) = In(s) \ {s[at]}
    <2>1. ASSUME NEW k \in new
          PROVE  r[k] \in In(s) \ {s[at]}
      <3>1. r[k] = s[From(k)] /\ From(k) \in DOMAIN s /\ at \in DOMAIN s /\ From(k) # at
        BY <1>1, <1>3
      <3>2. s[From(k)] # s[at]
        BY <3>1 DEF Distinct
      <3>3. QED
        BY <3>1, <3>2 DEF In
    <2>2. ASSUME NEW n \in old, s[n] # s[at]
          PROVE  s[n] \in In(r)
      <3>1. PICK k \in new : From(k) = n
        BY <1>5, <2>2
      <3>2. r[k] = s[n]
        BY <1>3, <3>1
      <3>3. QED
        BY <1>2, <3>2 DEF In
    <2>3. In(r) \subseteq In(s) \ {s[at]}
      BY <1>2, <2>1 DEF In
    <2>4. In(s) \ {s[at]} \subseteq In(r)
      BY <1>1, <2>2 DEF In
    <2>5. QED
      BY <2>3, <2>4
  <1>10. QED
    BY <1>6, <1>7, <1>8, <1>9 DEF L

\* What the pointers are after the order at the place "at" is unlinked.
Unlinked(orders, O, s, at) ==
    /\ at # 1 => O[s[at - 1]].next = orders[s[at]].next
    /\ \A n \in 1 .. Len(s) : n # at - 1 /\ n # at => O[s[n]].next = orders[s[n]].next

\* A list with an order less, and its pointers.
LEMMA CutChain ==
    ASSUME NEW orders, NEW O, NEW s \in Seq(Ids), NEW at \in 1 .. Len(s),
           Distinct(s), Chained(orders, s), Unlinked(orders, O, s, at)
    PROVE  Chained(O, Cut(s, at))
  <1> DEFINE r == Cut(s, at)
             L == Len(s)
  <1>1. /\ Len(r) = L - 1 /\ \A k \in 1 .. L - 1 : (k < at => r[k] = s[k]) /\ (k >= at => r[k] = s[k + 1])
    BY CutPlaces
  <1>2. L \in Nat /\ at \in 1 .. L /\ at \in Nat
    BY LenProperties
  <1>3. \A n \in 1 .. L : orders[s[n]].next = IF n = L THEN 0 ELSE s[n + 1]
    BY DEF Chained, Successor
  <1>4. /\ at # 1 => O[s[at - 1]].next = orders[s[at]].next
        /\ \A n \in 1 .. L : n # at - 1 /\ n # at => O[s[n]].next = orders[s[n]].next
    BY DEF Unlinked
  <1> HIDE DEF r, L
  <1>5. ASSUME NEW k \in 1 .. L - 1
        PROVE  O[r[k]].next = IF k = L - 1 THEN 0 ELSE r[k + 1]
    <2>1. k \in Nat /\ k \in 1 .. L /\ k + 1 \in 1 .. L /\ (k = L - 1 <=> k + 1 = L) /\ (k # L - 1 => k + 1 \in 1 .. L - 1)
      BY <1>2
    <2>2. CASE k >= at
      <3>1. r[k] = s[k + 1] /\ k + 1 # at - 1 /\ k + 1 # at
        BY <1>1, <1>2, <2>1, <2>2
      <3>2. O[r[k]].next = IF k + 1 = L THEN 0 ELSE s[k + 1 + 1]
        BY <1>3, <1>4, <2>1, <3>1
      <3>3. k # L - 1 => k + 1 >= at
        BY <1>2, <2>1, <2>2
      <3>4. k # L - 1 => r[k + 1] = s[k + 1 + 1]
        BY <1>1, <2>1, <3>3
      <3>5. QED
        BY <2>1, <3>2, <3>4
    <2>3. CASE k = at - 1
      <3>1. at # 1 /\ k < at /\ k + 1 = at
        BY <1>2, <2>1, <2>3
      <3>2. O[r[k]].next = IF at = L THEN 0 ELSE s[at + 1]
        BY <1>1, <1>2, <1>3, <1>4, <2>3, <3>1
      <3>3. k # L - 1 => r[k + 1] = s[at + 1]
        <4>1. k # L - 1 => k + 1 >= at
          BY <1>2, <2>1, <3>1
        <4>2. k # L - 1 => r[k + 1] = s[k + 1 + 1]
          BY <1>1, <2>1, <4>1
        <4>3. QED
          BY <3>1, <4>2
      <3>4. QED
        BY <2>1, <3>1, <3>2, <3>3
    <2>4. CASE k < at - 1
      <3>1. k < at /\ k # at - 1 /\ k # at /\ k + 1 < at /\ k # L - 1 /\ k # L
        BY <1>2, <2>1, <2>4
      <3>2. r[k] = s[k] /\ r[k + 1] = s[k + 1]
        BY <1>1, <2>1, <3>1
      <3>3. O[s[k]].next = s[k + 1]
        BY <1>3, <1>4, <2>1, <3>1
      <3>4. QED
        BY <3>1, <3>2, <3>3
    <2>5. QED
      BY <1>2, <2>1, <2>2, <2>3, <2>4
  <1>6. QED
    BY <1>1, <1>5 DEF Chained, Successor, r

\* What is left of a ranked list is ranked.
LEMMA CutRanked ==
    ASSUME NEW orders, NEW O, NEW s \in Seq(Ids), NEW at \in 1 .. Len(s), Distinct(s), Ranked(orders, s),
           \A n \in 1 .. Len(s) : n # at => O[s[n]].price = orders[s[n]].price
    PROVE  Ranked(O, Cut(s, at))
  <1> DEFINE r == Cut(s, at)
             L == Len(s)
  <1>1. /\ Len(r) = L - 1 /\ \A k \in 1 .. L - 1 : (k < at => r[k] = s[k]) /\ (k >= at => r[k] = s[k + 1])
    BY CutPlaces
  <1>2. L \in Nat /\ at \in 1 .. L /\ at \in Nat
    BY LenProperties
  <1>3. \A m, n \in 1 .. L : m < n /\ m # at /\ n # at => Better(O, s[m], s[n])
    BY DEF Ranked, Better
  <1> HIDE DEF r, L
  <1>4. ASSUME NEW m \in 1 .. L - 1, NEW n \in 1 .. L - 1, m < n
        PROVE  Better(O, r[m], r[n])
    <2>1. \E i \in 1 .. L : r[m] = s[i] /\ i # at /\ (IF m < at THEN i = m ELSE i = m + 1)
      BY <1>1, <1>2
    <2>2. \E j \in 1 .. L : r[n] = s[j] /\ j # at /\ (IF n < at THEN j = n ELSE j = n + 1)
      BY <1>1, <1>2
    <2>3. PICK i \in 1 .. L, j \in 1 .. L : /\ r[m] = s[i] /\ i # at /\ (IF m < at THEN i = m ELSE i = m + 1)
                                            /\ r[n] = s[j] /\ j # at /\ (IF n < at THEN j = n ELSE j = n + 1)
      BY <2>1, <2>2
    <2>4. i < j
      BY <1>2, <1>4, <2>3
    <2>5. QED
      BY <1>3, <2>3, <2>4
  <1>5. QED
    BY <1>1, <1>4 DEF Ranked, r

\* The Data d after the order at the place "at" of the list s, a book of type t, is removed.
Without1(d, t, s, at) ==
    IF at = 1
    THEN [d EXCEPT !.firstId[t] = d.orders[s[at]].next]
    ELSE [d EXCEPT !.orders[s[at - 1]].next = d.orders[s[at]].next]

Removed(d, t, s, at) == DeleteOrder(Without1(d, t, s, at), s[at])

\* The unlinking writes a pointer.
LEMMA UnlinkWrites ==
    ASSUME NEW d, NEW b, NEW q, NEW F, Good(d, b, q, F), NEW t \in OrderTypes, NEW at \in 1 .. Len(b[t])
    PROVE  LET c == Without1(d, t, b[t], at)
               next == d.orders[b[t][at]].next
           IN  /\ c \in DataRecords
               /\ at = 1 => c.orders = d.orders /\ c.firstId = [d.firstId EXCEPT ![t] = next]
               /\ at # 1 => OnlyNext(d.orders, c.orders, b[t][at - 1], next) /\ c.firstId = d.firstId
               /\ c.lengthOf = d.lengthOf /\ c.length = d.length
               /\ c.firstPending = d.firstPending /\ c.lastPending = d.lastPending /\ c.pendings = d.pendings
  <1> DEFINE s == b[t]
             id == s[at]
             next == d.orders[id].next
             previous == s[at - 1]
             c == Without1(d, t, s, at)
  <1>1. d \in DataRecords /\ d.orders \in [0 .. MaxOrders -> OrderRecords] /\ s \in Seq(Ids)
    <2>1. d \in DataRecords
      BY DEF Good
    <2>2. QED
      BY <2>1, GoodFacts
  <1>2. id \in 0 .. MaxOrders
    BY <1>1, Places
  <1>3. at # 1 => previous \in 0 .. MaxOrders
    <2>1. at # 1 => at - 1 \in 1 .. Len(s)
      <3>1. \A l \in Nat : \A a \in 1 .. l : a # 1 => a - 1 \in 1 .. l
        OBVIOUS
      <3>2. Len(s) \in Nat
        BY <1>1, Places
      <3>3. QED
        BY <3>1, <3>2
    <2>2. QED
      BY <1>1, <2>1, Places
  <1>4. next \in 0 .. MaxOrders
    <2>1. d.orders[id] \in OrderRecords
      BY <1>1, <1>2
    <2>2. QED
      BY <2>1 DEF OrderRecords
  <1>5. CASE at = 1
    <2>1. c = [d EXCEPT !.firstId[t] = next]
      BY <1>5 DEF Without1
    <2> HIDE DEF c, next
    <2>2. /\ c \in DataRecords /\ c.orders = d.orders /\ c.firstId = [d.firstId EXCEPT ![t] = next]
          /\ c.lengthOf = d.lengthOf /\ c.length = d.length
          /\ c.firstPending = d.firstPending /\ c.lastPending = d.lastPending /\ c.pendings = d.pendings
      BY <1>1, <1>4, <2>1, RepointWrites
    <2>3. QED
      BY <1>5, <2>2 DEF c, next
  <1>6. CASE at # 1
    <2>1. c = [d EXCEPT !.orders[previous].next = next]
      BY <1>6 DEF Without1
    <2>2. previous \in 0 .. MaxOrders
      BY <1>3, <1>6
    <2> HIDE DEF c, next, previous
    <2>3. /\ c \in DataRecords /\ c.orders = Relinked(d.orders, previous, next) /\ c.firstId = d.firstId
          /\ c.lengthOf = d.lengthOf /\ c.length = d.length
          /\ c.firstPending = d.firstPending /\ c.lastPending = d.lastPending /\ c.pendings = d.pendings
      BY <1>1, <1>4, <2>1, <2>2, RelinkWrites
    <2>4. OnlyNext(d.orders, c.orders, previous, next)
      BY <1>1, <1>4, <2>2, <2>3, RelinkedIs
    <2>5. QED
      BY <1>6, <2>3, <2>4 DEF c, next, previous
  <1>7. QED
    BY <1>5, <1>6

\* The removal of an order of a book.
LEMMA RemovedIsGood ==
    ASSUME NEW d, NEW b, NEW q, Good(d, b, q, {}), NEW t \in OrderTypes, NEW at \in 1 .. Len(b[t]),
           NEW b2, b2[t] = Cut(b[t], at), \A u \in OrderTypes : u # t => b2[u] = b[u],
           NEW e, e = Removed(d, t, b[t], at)
    PROVE  /\ Good(e, b2, q, {})
           /\ e.orders[b[t][at]] = NullOrder
           /\ \A x \in 0 .. MaxOrders : x # b[t][at] => SameOrder(e.orders[x], d.orders[x])
           /\ e.pendings = d.pendings /\ e.firstPending = d.firstPending
  <1> DEFINE s == b[t]
             w == q[t]
             L == Len(s)
             id == s[at]
             next == d.orders[id].next
             previous == s[at - 1]
             r == Cut(s, at)
             c == Without1(d, t, s, at)
             C == c.orders
             O == e.orders
  <1>1. /\ d.orders \in [0 .. MaxOrders -> OrderRecords] /\ d.orders[0] = NullOrder
        /\ s \in Seq(Ids) /\ w \in Seq(Ids) /\ Distinct(s) /\ Increasing(w)
        /\ Chained(d.orders, s) /\ Chained(d.orders, w) /\ Ranked(d.orders, s)
        /\ d.firstId[t] = First(s) /\ d.lengthOf[t] = L /\ d.pendings[t] = Len(w)
        /\ w # <<>> => d.firstPending[t] = w[1] /\ d.lastPending[t] = w[Len(w)]
    BY GoodFacts
  <1>2. d \in DataRecords /\ d.length = d.lengthOf["LIMIT_ORDER"] + d.lengthOf["MARKET_ORDER"]
    BY DEF Good
  <1>3. \A x \in In(s) \union In(w) :
             x \in Ids /\ d.orders[x].id = x /\ d.orders[x].orderType = t /\ d.orders[x] # NullOrder
    BY Apart
  <1>4. \A u \in OrderTypes : u # t => \A x \in In(b[u]) \union In(q[u]) : x \notin In(s) \union In(w) /\ x \in Ids
    BY Apart
  <1>5. \A x \in In(s) : x \notin In(w)
    BY Apart
  <1>6. /\ L \in Nat \ {0} /\ DOMAIN s = 1 .. L /\ at \in Nat
        /\ \A x \in Ids : x \in 0 .. MaxOrders /\ x \in Nat \ {0}
    <2>1. L \in Nat /\ DOMAIN s = 1 .. L
      BY <1>1, Places
    <2>2. QED
      BY <2>1, OrderBookAssumption DEF Ids
  <1>7. id \in In(s) /\ id \in Ids /\ id \in 0 .. MaxOrders /\ id \notin In(w)
    <2>1. id \in In(s)
      BY <1>1, Places
    <2>2. QED
      BY <1>3, <1>5, <1>6, <2>1
  <1>8. at # 1 => previous \in In(s) /\ previous \in 0 .. MaxOrders /\ previous # id /\ at - 1 \in 1 .. L
    <2>1. at # 1 => at - 1 \in 1 .. L /\ at - 1 # at
      <3>1. \A l \in Nat : \A a \in 1 .. l : a # 1 => a - 1 \in 1 .. l /\ a - 1 # a
        OBVIOUS
      <3>2. QED
        BY <1>6, <3>1
    <2>2. at # 1 => previous \in In(s)
      BY <1>1, <2>1, Places
    <2>3. at # 1 => previous # id
      BY <1>1, <1>6, <2>1 DEF Distinct
    <2>4. QED
      BY <1>3, <1>6, <2>1, <2>2, <2>3
  <1>9. /\ c \in DataRecords
        /\ at = 1 => C = d.orders /\ c.firstId = [d.firstId EXCEPT ![t] = next]
        /\ at # 1 => OnlyNext(d.orders, C, previous, next) /\ c.firstId = d.firstId
        /\ c.lengthOf = d.lengthOf /\ c.length = d.length
        /\ c.firstPending = d.firstPending /\ c.lastPending = d.lastPending /\ c.pendings = d.pendings
    BY UnlinkWrites
  <1>10. e = DeleteOrder(c, id)
    BY DEF Removed
  <1> HIDE DEF c, r
  <1>11. /\ C \in [0 .. MaxOrders -> OrderRecords]
         /\ \A y \in 0 .. MaxOrders : /\ (at # 1 => y # previous) => C[y] = d.orders[y]
                                      /\ SameOrder(C[y], d.orders[y])
         /\ at # 1 => C[previous].next = next
    <2> HIDE DEF C
    <2>1. CASE at = 1
      BY <1>1, <1>9, <2>1 DEF SameOrder
    <2>2. CASE at # 1
      BY <1>9, <2>2 DEF OnlyNext, SameOrder
    <2>3. QED
      BY <2>1, <2>2
  <1>12. d.lengthOf \in [OrderTypes -> Nat] /\ d.length \in Nat /\ d.length # 0 /\ d.firstId \in [OrderTypes -> 0 .. MaxOrders]
    <2>1. d.lengthOf \in [OrderTypes -> Nat] /\ d.length \in Nat /\ d.firstId \in [OrderTypes -> 0 .. MaxOrders]
      BY <1>2 DEF DataRecords
    <2>2. d.lengthOf["LIMIT_ORDER"] \in Nat /\ d.lengthOf["MARKET_ORDER"] \in Nat /\ d.lengthOf[t] # 0
      BY <1>1, <1>6, <2>1 DEF OrderTypes
    <2>3. t = "LIMIT_ORDER" \/ t = "MARKET_ORDER"
      BY DEF OrderTypes
    <2>4. QED
      BY <1>2, <2>1, <2>2, <2>3
  <1>13. /\ e \in DataRecords
         /\ O = [C EXCEPT ![id] = NullOrder]
         /\ e.firstId = c.firstId
         /\ e.lengthOf = [d.lengthOf EXCEPT ![t] = @ - 1]
         /\ e.length = d.length - 1
         /\ e.firstPending = d.firstPending /\ e.lastPending = d.lastPending /\ e.pendings = d.pendings
    <2>1. c.orders[id].orderType = t
      BY <1>3, <1>7, <1>11 DEF SameOrder
    <2>2. c.length # 0 /\ c.lengthOf[t] # 0
      BY <1>1, <1>6, <1>9, <1>12
    <2>3. /\ e \in DataRecords
          /\ O = [C EXCEPT ![id] = NullOrder]
          /\ e.firstId = c.firstId
          /\ e.lengthOf = [c.lengthOf EXCEPT ![t] = @ - 1]
          /\ e.length = c.length - 1
          /\ e.firstPending = c.firstPending /\ e.lastPending = c.lastPending /\ e.pendings = c.pendings
      <3>1. c \in DataRecords /\ id \in Ids /\ c.orders[id].orderType = t /\ c.length # 0 /\ c.lengthOf[t] # 0
        BY <1>7, <1>9, <2>1, <2>2
      <3> HIDE DEF id
      <3>2. QED
        BY <1>10, <3>1, DeleteWrites
    <2>4. QED
      BY <1>9, <2>3
  <1> HIDE DEF C
  <1>14. /\ O[id] = NullOrder
         /\ \A y \in 0 .. MaxOrders : /\ y # id /\ (at # 1 => y # previous) => O[y] = d.orders[y]
                                      /\ y # id => SameOrder(O[y], d.orders[y])
         /\ at # 1 => O[previous].next = next
    <2>1. O[id] = NullOrder /\ \A y \in 0 .. MaxOrders : y # id => O[y] = C[y]
      BY <1>7, <1>11, <1>13
    <2>2. QED
      BY <1>8, <1>11, <2>1
  <1> HIDE DEF O
  <1>15. Chained(O, r)
    <2>1. at # 1 => O[s[at - 1]].next = d.orders[s[at]].next
      BY <1>14
    <2>2. ASSUME NEW n \in 1 .. L, n # at - 1, n # at
          PROVE  O[s[n]].next = d.orders[s[n]].next
      <3>1. s[n] \in 0 .. MaxOrders /\ s[n] # id
        <4>1. s[n] \in 0 .. MaxOrders
          BY <1>1, Places
        <4>2. QED
          BY <1>1, <1>6, <2>2, <4>1 DEF Distinct
      <3>2. at # 1 => s[n] # previous
        BY <1>1, <1>6, <1>8, <2>2 DEF Distinct
      <3>3. QED
        BY <1>14, <3>1, <3>2
    <2>3. Unlinked(d.orders, O, s, at)
      BY <2>1, <2>2 DEF Unlinked
    <2>4. QED
      BY <1>1, <2>3, CutChain DEF r
  <1>16. Ranked(O, r)
    <2>1. ASSUME NEW n \in 1 .. L, n # at
          PROVE  O[s[n]].price = d.orders[s[n]].price
      <3>1. s[n] \in 0 .. MaxOrders
        BY <1>1, Places
      <3>2. s[n] # id
        BY <1>1, <1>6, <2>1 DEF Distinct
      <3>3. QED
        BY <1>14, <3>1, <3>2 DEF SameOrder
    <2>2. QED
      BY <1>1, <2>1, CutRanked DEF r
  <1>17. /\ r \in Seq(Ids) /\ Len(r) = L - 1 /\ Distinct(r) /\ In(r) = In(s) \ {id}
         /\ at # 1 => L - 1 # 0 /\ r[1] = s[1]
         /\ at = 1 /\ L # 1 => L - 1 # 0 /\ r[1] = s[2]
    <2>1. r = Cut(s, at)
      BY DEF r
    <2>2. /\ r \in Seq(Ids) /\ Len(r) = L - 1 /\ Distinct(r) /\ In(r) = In(s) \ {id}
          /\ \A k \in 1 .. L - 1 : (k < at => r[k] = s[k]) /\ (k >= at => r[k] = s[k + 1])
      <3>1. s \in Seq(Ids) /\ Distinct(s) /\ at \in 1 .. Len(s)
        BY <1>1
      <3> HIDE DEF s
      <3>2. QED
        BY <2>1, <3>1, CutPlaces
    <2>3. at # 1 => 1 \in 1 .. L - 1 /\ 1 < at /\ L - 1 # 0
      <3>1. \A l \in Nat : \A a \in 1 .. l : a # 1 => 1 \in 1 .. l - 1 /\ 1 < a /\ l - 1 # 0
        OBVIOUS
      <3>2. QED
        BY <1>6, <3>1
    <2>4. L # 1 => 1 \in 1 .. L - 1 /\ L - 1 # 0
      <3>1. \A l \in Nat \ {0} : l # 1 => 1 \in 1 .. l - 1 /\ l - 1 # 0
        OBVIOUS
      <3>2. QED
        BY <1>6, <3>1
    <2>5. at = 1 /\ L # 1 => r[1] = s[1 + 1]
      BY <2>2, <2>4
    <2>6. 1 + 1 = 2
      OBVIOUS
    <2>7. QED
      BY <2>2, <2>3, <2>4, <2>5, <2>6
  <1>18. Chained(O, w)
    <2>1. ASSUME NEW n \in 1 .. Len(w)
          PROVE  O[w[n]] = d.orders[w[n]]
      <3>1. w[n] \in In(w) /\ w[n] \in 0 .. MaxOrders
        BY <1>1, Places
      <3>2. w[n] # id /\ (at # 1 => w[n] # previous)
        BY <1>5, <1>7, <1>8, <3>1
      <3>3. QED
        BY <1>14, <3>1, <3>2
    <2>2. QED
      BY <1>1, <2>1 DEF Chained
  <1>19. e.firstId[t] = First(r) /\ e.lengthOf[t] = L - 1
    <2>1. e.lengthOf[t] = L - 1
      BY <1>1, <1>12, <1>13
    <2>2. CASE at # 1
      <3>1. r # <<>> /\ s # <<>>
        BY <1>6, <1>17, <2>2
      <3>2. QED
        BY <1>1, <1>9, <1>13, <1>17, <2>1, <2>2, <3>1 DEF First
    <2>3. CASE at = 1
      <3>1. e.firstId[t] = next
        BY <1>9, <1>12, <1>13, <2>3
      <3>2. next = IF 1 = L THEN 0 ELSE s[1 + 1]
        BY <1>1, <2>3 DEF Chained, Successor
      <3>3. 1 + 1 = 2
        OBVIOUS
      <3>4. L = 1 <=> r = <<>>
        <4>1. Len(r) = 0 <=> r = <<>>
          BY <1>17, Places
        <4>2. L - 1 = 0 <=> L = 1
          BY <1>6
        <4>3. QED
          BY <1>17, <4>1, <4>2
      <3> HIDE DEF next, L
      <3>5. QED
        BY <1>17, <2>1, <2>3, <3>1, <3>2, <3>3, <3>4 DEF First
    <2>4. QED
      BY <2>2, <2>3
  <1>20. Half(e, t, r, w, {})
    <2>1. Owned(O, t, r, w, {})
      <3> SUFFICES ASSUME NEW x \in In(r) \union In(w) PROVE O[x].id = x /\ O[x].orderType = t /\ x \notin {}
        BY DEF Owned
      <3>1. x \in 0 .. MaxOrders /\ x # id /\ d.orders[x].id = x /\ d.orders[x].orderType = t
        BY <1>3, <1>6, <1>7, <1>17
      <3>2. QED
        BY <1>14, <3>1 DEF SameOrder
    <2>2. \A i \in In(r), j \in In(w) : i < j
      <3>1. \A i \in In(s), j \in In(w) : i < j
        BY DEF Good, Half
      <3>2. QED
        BY <1>17, <3>1
    <2>3. e.pendings[t] = Len(w) /\ (w # <<>> => e.firstPending[t] = w[1] /\ e.lastPending[t] = w[Len(w)])
      BY <1>1, <1>13
    <2>4. e.orders = O
      BY DEF O
    <2>5. QED
      BY <1>1, <1>15, <1>16, <1>17, <1>18, <1>19, <2>1, <2>2, <2>3, <2>4 DEF Half
  <1>21. ASSUME NEW u \in OrderTypes, u # t
         PROVE  SameHalf(d, e, u, b[u], q[u])
    <2>1. ASSUME NEW x \in In(b[u]) \union In(q[u])
          PROVE  e.orders[x] = d.orders[x]
      <3>1. x \in 0 .. MaxOrders /\ x \notin In(s)
        <4>1. x \in Ids /\ x \notin In(s) \union In(w)
          BY <1>4, <1>21
        <4>2. QED
          BY <1>6, <4>1
      <3>2. x # id /\ (at # 1 => x # previous)
        BY <1>7, <1>8, <3>1
      <3>3. QED
        BY <1>14, <3>1, <3>2 DEF O
    <2>2. e.firstId[u] = d.firstId[u] /\ e.lengthOf[u] = d.lengthOf[u]
      BY <1>9, <1>12, <1>13, <1>21
    <2>3. QED
      BY <1>13, <2>1, <2>2 DEF SameHalf
  <1>22. e.length = e.lengthOf["LIMIT_ORDER"] + e.lengthOf["MARKET_ORDER"]
    <2>1. d.lengthOf["LIMIT_ORDER"] \in Nat /\ d.lengthOf["MARKET_ORDER"] \in Nat /\ d.lengthOf[t] # 0
      BY <1>1, <1>6, <1>12 DEF OrderTypes
    <2>2. t = "LIMIT_ORDER" \/ t = "MARKET_ORDER"
      BY DEF OrderTypes
    <2>3. QED
      BY <1>2, <1>12, <1>13, <2>1, <2>2 DEF OrderTypes
  <1>23. Covered(O, b2, q, {})
    <2> SUFFICES ASSUME NEW x \in 0 .. MaxOrders
                 PROVE  \/ O[x] = NullOrder
                        \/ O[x].id = x /\ \E u \in OrderTypes : x \in In(b2[u]) \union In(q[u])
      BY DEF Covered
    <2>1. In(b2[t]) = In(s) \ {id}
      BY <1>17 DEF r
    <2>2. CASE x = id
      BY <1>14, <2>2
    <2>3. CASE x # id /\ d.orders[x] = NullOrder
      <3>1. at # 1 => x # previous
        BY <1>3, <1>8, <2>3
      <3>2. QED
        BY <1>14, <2>3, <3>1
    <2>4. CASE x # id /\ d.orders[x] # NullOrder
      <3>1. d.orders[x].id = x /\ \E u \in OrderTypes : x \in In(b[u]) \union In(q[u])
        BY <2>4 DEF Good, Covered
      <3>2. \E u \in OrderTypes : x \in In(b2[u]) \union In(q[u])
        BY <2>1, <2>4, <3>1
      <3>3. QED
        BY <1>14, <2>4, <3>1, <3>2 DEF SameOrder
    <2>5. QED
      BY <2>2, <2>3, <2>4
  <1>24. Good(e, b2, q, {})
    <2>1. Half(e, t, b2[t], q[t], {})
      BY <1>20 DEF r
    <2>2. \A u \in OrderTypes : u # t => /\ b2[u] = b[u] /\ q[u] = q[u]
                                         /\ SameHalf(d, e, u, b[u], q[u])
                                         /\ \A x \in In(b[u]) \union In(q[u]) : x \notin {}
      BY <1>21
    <2>3. Covered(e.orders, b2, q, {})
      BY <1>23 DEF O
    <2>4. e \in DataRecords
      BY <1>13
    <2>5. QED
      BY <1>22, <2>1, <2>2, <2>3, <2>4, GoodChange
  <1>25. QED
    BY <1>13, <1>14, <1>24 DEF O

\* Only the previous order of a book points to an order of it.
LEMMA OnlyThePreviousPoints ==
    ASSUME NEW d, NEW b, NEW q, Good(d, b, q, {}), NEW t \in OrderTypes, NEW at \in 1 .. Len(b[t]),
           NEW x \in 0 .. MaxOrders, d.orders[x].next = b[t][at]
    PROVE  at # 1 /\ at - 1 \in 1 .. Len(b[t]) /\ x = b[t][at - 1]
  <1> DEFINE id == b[t][at]
  <1>1. \A u \in OrderTypes : /\ b[u] \in Seq(Ids) /\ q[u] \in Seq(Ids)
                              /\ Chained(d.orders, b[u]) /\ Chained(d.orders, q[u])
    BY DEF Good, Half
  <1>2. b[t] \in Seq(Ids) /\ Distinct(b[t])
    BY GoodFacts
  <1>3. id \in In(b[t]) /\ id # 0
    <2>1. id \in In(b[t]) /\ id \in Nat \ {0}
      BY <1>2, Places
    <2>2. QED
      BY <2>1
  <1>4. \A u \in OrderTypes : u # t => id \notin In(b[u]) \union In(q[u])
    <2>1. \A u \in OrderTypes : u # t => \A y \in In(b[u]) \union In(q[u]) : y \notin In(b[t]) \union In(q[t])
      BY Apart
    <2>2. QED
      BY <1>3, <2>1
  <1>5. id \notin In(q[t])
    <2>1. \A y \in In(b[t]) : y \notin In(q[t])
      BY Apart
    <2>2. QED
      BY <1>3, <2>1
  <1>6. PICK u \in OrderTypes : x \in In(b[u]) \union In(q[u])
    <2>1. d.orders[x] # NullOrder
      BY <1>3 DEF NullOrder
    <2>2. \E u \in OrderTypes : x \in In(b[u]) \union In(q[u])
      BY <2>1 DEF Good, Covered
    <2>3. QED
      BY <2>2
  <1>7. ASSUME NEW s \in Seq(Ids), NEW n \in 1 .. Len(s), s[n] = x, Chained(d.orders, s)
        PROVE  n + 1 \in 1 .. Len(s) /\ s[n + 1] = id /\ id \in In(s)
    <2>1. Successor(s, n) = id
      BY <1>7 DEF Chained
    <2>2. n # Len(s) /\ s[n + 1] = id
      BY <1>3, <2>1 DEF Successor
    <2>3. \A l \in Nat : \A k \in 1 .. l : k # l => k + 1 \in 1 .. l
      OBVIOUS
    <2>4. Len(s) \in Nat
      BY Places
    <2>5. n + 1 \in 1 .. Len(s)
      BY <2>2, <2>3, <2>4
    <2>6. s[n + 1] \in In(s)
      BY <2>5, Places
    <2>7. QED
      BY <2>2, <2>5, <2>6
  <1>8. x \notin In(q[u])
    <2> SUFFICES ASSUME x \in In(q[u]) PROVE FALSE
      OBVIOUS
    <2>1. PICK n \in 1 .. Len(q[u]) : q[u][n] = x
      BY <1>1, Places
    <2>2. id \in In(q[u])
      BY <1>1, <1>7, <2>1
    <2>3. QED
      BY <1>4, <1>5, <2>2
  <1>9. x \in In(b[u])
    BY <1>6, <1>8
  <1>10. PICK n \in 1 .. Len(b[u]) : b[u][n] = x
    BY <1>1, <1>9, Places
  <1>11. n + 1 \in 1 .. Len(b[u]) /\ b[u][n + 1] = id /\ id \in In(b[u])
    BY <1>1, <1>7, <1>10
  <1>12. u = t
    BY <1>4, <1>11
  <1>13. n + 1 = at
    <2>1. DOMAIN b[t] = 1 .. Len(b[t])
      BY <1>2, Places
    <2>2. QED
      BY <1>2, <1>11, <1>12, <2>1 DEF Distinct
  <1>14. Len(b[t]) \in Nat
    BY <1>2, Places
  <1>15. n \in Nat /\ n \in 1 .. Len(b[t]) /\ b[t][n] = x
    BY <1>10, <1>12, <1>14
  <1>16. \A k \in Nat : k \in 1 .. Len(b[t]) => k + 1 # 1 /\ k + 1 - 1 = k
    BY <1>14
  <1>17. QED
    BY <1>13, <1>15, <1>16

\* An order of a book, and whether it is the first one.
LEMMA FirstOfBook ==
    ASSUME NEW d, NEW b, NEW q, Good(d, b, q, {}), NEW t \in OrderTypes, NEW at \in 1 .. Len(b[t])
    PROVE  /\ d.orders[b[t][at]].orderType = t
           /\ b[t][at] \in Ids /\ b[t][at] \in 0 .. MaxOrders
           /\ IsFirst(d, b[t][at]) <=> at = 1
           /\ d.lengthOf[t] # 0
           /\ d.firstId[t] = b[t][1] /\ d.firstId[t] \in 0 .. MaxOrders
  <1>1. b[t] \in Seq(Ids) /\ Distinct(b[t]) /\ d.firstId[t] = First(b[t]) /\ d.lengthOf[t] = Len(b[t])
    BY GoodFacts
  <1>2. Len(b[t]) \in Nat \ {0} /\ DOMAIN b[t] = 1 .. Len(b[t]) /\ 1 \in 1 .. Len(b[t]) /\ b[t] # <<>>
    <2>1. Len(b[t]) \in Nat /\ DOMAIN b[t] = 1 .. Len(b[t]) /\ (Len(b[t]) = 0 <=> b[t] = <<>>)
      BY <1>1, Places
    <2>2. \A l \in Nat : \A a \in 1 .. l : l # 0 /\ 1 \in 1 .. l
      OBVIOUS
    <2>3. Len(b[t]) # 0 /\ 1 \in 1 .. Len(b[t])
      BY <2>1, <2>2
    <2>4. QED
      BY <2>1, <2>3
  <1>3. b[t][at] \in In(b[t]) /\ b[t][1] \in 0 .. MaxOrders
    BY <1>1, <1>2, Places
  <1>4. d.orders[b[t][at]].orderType = t /\ b[t][at] \in Ids
    BY <1>3, Apart
  <1>5. d.firstId[t] = b[t][1]
    BY <1>1, <1>2 DEF First
  <1>6. IsFirst(d, b[t][at]) <=> b[t][1] = b[t][at]
    BY <1>4, <1>5 DEF IsFirst
  <1>7. b[t][1] = b[t][at] <=> at = 1
    BY <1>1, <1>2 DEF Distinct
  <1>8. b[t][at] \in 0 .. MaxOrders
    BY <1>4, OrderBookAssumption DEF Ids
  <1>9. QED
    BY <1>1, <1>2, <1>3, <1>4, <1>5, <1>6, <1>7, <1>8

\* Where the removal of an order starts to look for the previous one.
StartOf(d, id, startFromId) == IF startFromId = 0 THEN d.firstId[d.orders[id].orderType] ELSE startFromId

\* Whatever the hint, the removal of an order is the removal at its place.
LEMMA RemoveIsRemoved ==
    ASSUME NEW d, NEW b, NEW q, Good(d, b, q, {}), NEW t \in OrderTypes, NEW at \in 1 .. Len(b[t]),
           NEW id, id = b[t][at], NEW hint \in 0 .. MaxOrders, CanRemove(d, id, hint)
    PROVE  removeOrder(d, id, hint) = Removed(d, t, b[t], at)
  <1> DEFINE walk == Follow(d, StartOf(d, id, hint))
             found == FoundAt(d, id, hint)
  <1>1. /\ d.orders[id].orderType = t /\ id \in Ids /\ id \in 0 .. MaxOrders
        /\ IsFirst(d, id) <=> at = 1
        /\ d.firstId[t] = b[t][1] /\ d.firstId[t] \in 0 .. MaxOrders
    BY FirstOfBook
  <1>2. d.orders \in [0 .. MaxOrders -> OrderRecords]
    BY GoodFacts
  <1>3. StartOf(d, id, hint) \in 0 .. MaxOrders
    BY <1>1 DEF StartOf
  <1>4. walk \in [0 .. MaxOrders -> 0 .. MaxOrders]
    BY <1>2, <1>3, FollowIs
  <1>5. found = {k \in 0 .. MaxOrders : d.orders[walk[k]].next = id}
    BY DEF FoundAt, StartOf
  <1>6. findPreviousOrder(d, id, hint) = walk[FirstIn(found)]
    BY DEF findPreviousOrder, StartOf
  <1> HIDE DEF walk, found
  <1>7. CASE at = 1
    BY <1>1, <1>7 DEF removeOrder, Removed, Without1
  <1>8. CASE at # 1
    <2>1. found # {}
      BY <1>1, <1>8 DEF CanRemove, found
    <2>2. found \subseteq Nat
      BY <1>5, OrderBookAssumption
    <2>3. PICK m \in found : \A j \in found : m <= j
      BY <2>1, <2>2, LeastNat
    <2>4. FirstIn(found) = m
      BY <2>2, <2>3, FirstInIs
    <2>5. m \in 0 .. MaxOrders /\ d.orders[walk[m]].next = id /\ walk[m] \in 0 .. MaxOrders
      BY <1>4, <1>5, <2>3
    <2>6. walk[m] = b[t][at - 1]
      BY <2>5, OnlyThePreviousPoints
    <2>7. findPreviousOrder(d, id, hint) = b[t][at - 1]
      BY <1>6, <2>4, <2>6
    <2>8. removeOrder(d, id, hint) = DeleteOrder([d EXCEPT !.orders[findPreviousOrder(d, id, hint)].next = d.orders[id].next], id)
      BY <1>1, <1>8 DEF removeOrder
    <2>9. QED
      BY <1>8, <2>7, <2>8 DEF Removed, Without1
  <1>9. QED
    BY <1>7, <1>8

\* Without a hint, every order of a book can be removed.
LEMMA EveryOrderCanBeRemoved ==
    ASSUME NEW d, NEW b, NEW q, Good(d, b, q, {}), NEW t \in OrderTypes, NEW at \in 1 .. Len(b[t])
    PROVE  CanRemove(d, b[t][at], 0)
  <1> DEFINE id == b[t][at]
             s == b[t]
             walk == Follow(d, First(s))
  <1>1. /\ d.orders[id].orderType = t /\ id \in Ids /\ id \in 0 .. MaxOrders
        /\ IsFirst(d, id) <=> at = 1
        /\ d.lengthOf[t] # 0
    BY FirstOfBook
  <1>2. /\ d.orders \in [0 .. MaxOrders -> OrderRecords] /\ d.orders[0] = NullOrder
        /\ s \in Seq(Ids) /\ Distinct(s) /\ Chained(d.orders, s) /\ d.firstId[t] = First(s)
    BY GoodFacts
  <1>3. \A k \in 0 .. MaxOrders : walk[k] = IF k < Len(s) THEN s[k + 1] ELSE 0
    BY <1>2, WalkIs
  <1>4. FoundAt(d, id, 0) = {k \in 0 .. MaxOrders : d.orders[walk[k]].next = id}
    BY <1>1, <1>2 DEF FoundAt
  <1> HIDE DEF walk
  <1>5. ASSUME at # 1
        PROVE  FoundAt(d, id, 0) # {}
    <2>1. Len(s) \in 0 .. MaxOrders /\ MaxOrders \in Nat
      BY <1>2, ListsAreShort, OrderBookAssumption
    <2>2. \A l \in Nat, m \in Nat : \A a \in 1 .. l : a # 1 /\ l <= m =>
              /\ a - 2 \in 0 .. m /\ a - 2 < l /\ a - 2 + 1 = a - 1
              /\ a - 1 \in 1 .. l /\ a - 1 # l /\ a - 1 + 1 = a
      OBVIOUS
    <2>3. /\ at - 2 \in 0 .. MaxOrders /\ at - 2 < Len(s) /\ at - 2 + 1 = at - 1
          /\ at - 1 \in 1 .. Len(s) /\ at - 1 # Len(s) /\ at - 1 + 1 = at
      <3>1. Len(s) \in Nat /\ Len(s) <= MaxOrders
        BY <2>1
      <3>2. QED
        BY <1>5, <2>1, <2>2, <3>1
    <2>4. walk[at - 2] = s[at - 1]
      BY <1>3, <2>3
    <2>5. d.orders[s[at - 1]].next = s[at]
      BY <1>2, <2>3 DEF Chained, Successor
    <2>6. QED
      BY <1>4, <2>3, <2>4, <2>5
  <1>6. QED
    BY <1>1, <1>5 DEF CanRemove

\* The pop of the first order is its removal.
LEMMA PopIsRemoved ==
    ASSUME NEW d, NEW b, NEW q, Good(d, b, q, {}), NEW t \in OrderTypes, b[t] # <<>>
    PROVE  PopFirst(d, t) = Removed(d, t, b[t], 1)
  <1> DEFINE s == b[t]
  <1>1. /\ d.orders \in [0 .. MaxOrders -> OrderRecords] /\ d.orders[0] = NullOrder
        /\ s \in Seq(Ids) /\ Distinct(s) /\ Chained(d.orders, s) /\ d.firstId[t] = First(s)
    BY GoodFacts
  <1>2. Len(s) \in Nat \ {0} /\ 1 \in 1 .. Len(s)
    <2>1. Len(s) \in Nat /\ (Len(s) = 0 <=> s = <<>>)
      BY <1>1, Places
    <2>2. QED
      BY <2>1
  <1>3. d.firstId[t] = s[1]
    BY <1>1 DEF First
  <1> DEFINE next == d.orders[s[1]].next
  <1>4. next = IF 1 = Len(s) THEN 0 ELSE s[1 + 1]
    BY <1>1, <1>2 DEF Chained, Successor
  <1>5. d.orders[next].id = next
    <2>1. CASE 1 = Len(s)
      BY <1>1, <1>4, <2>1 DEF NullOrder
    <2>2. CASE 1 # Len(s)
      <3>1. 1 + 1 \in 1 .. Len(s)
        <4>1. \A l \in Nat \ {0} : 1 # l => 1 + 1 \in 1 .. l
          OBVIOUS
        <4>2. QED
          BY <1>2, <2>2, <4>1
      <3>2. s[1 + 1] \in In(s)
        BY <1>1, <3>1, Places
      <3>3. next \in In(s)
        BY <1>4, <2>2, <3>2
      <3>4. \A x \in In(b[t]) \union In(q[t]) : d.orders[x].id = x
        BY Apart
      <3>5. QED
        BY <3>3, <3>4
    <2>3. QED
      BY <2>1, <2>2
  <1>6. PopFirst(d, t) = DeleteOrder([d EXCEPT !.firstId[t] = d.orders[d.orders[d.firstId[t]].next].id], d.firstId[t])
    BY DEF PopFirst
  <1>7. PopFirst(d, t) = DeleteOrder([d EXCEPT !.firstId[t] = next], s[1])
    BY <1>3, <1>5, <1>6
  <1>8. QED
    BY <1>7 DEF Removed, Without1

-----------------------------------------------------------------------------
(* Where an order goes. *)

\* There is one such place.
LEMMA SpotIsUnique ==
    ASSUME NEW orders, NEW s \in Seq(Ids), NEW price, NEW i, NEW j, Spot(orders, s, price, i), Spot(orders, s, price, j)
    PROVE  i = j
  <1>1. Len(s) \in Nat
    BY Places
  <1>2. ASSUME NEW x \in 1 .. Len(s) + 1, NEW y \in 1 .. Len(s) + 1, Spot(orders, s, price, x), Spot(orders, s, price, y)
        PROVE  ~(x < y)
    <2> SUFFICES ASSUME x < y PROVE FALSE
      OBVIOUS
    <2>1. x \in 1 .. y - 1 /\ x <= Len(s)
      BY <1>1
    <2>2. QED
      BY <1>2, <2>1 DEF Spot
  <1>3. i \in 1 .. Len(s) + 1 /\ j \in 1 .. Len(s) + 1
    BY DEF Spot
  <1>4. ~(i < j) /\ ~(j < i)
    BY <1>2, <1>3
  <1>5. QED
    BY <1>1, <1>3, <1>4

\* It depends on the orders of the list only.
LEMMA SpotFrame ==
    ASSUME NEW orders, NEW O, NEW s \in Seq(Ids), NEW price, NEW at, Spot(orders, s, price, at),
           \A x \in In(s) : O[x].price = orders[x].price
    PROVE  Spot(O, s, price, at)
  <1>1. Len(s) \in Nat /\ at \in 1 .. Len(s) + 1
    BY Places DEF Spot
  <1>2. \A n \in 1 .. Len(s) : O[s[n]].price = orders[s[n]].price
    BY Places
  <1>3. \A n \in 1 .. at - 1 : n \in 1 .. Len(s)
    BY <1>1
  <1>4. at <= Len(s) => at \in 1 .. Len(s)
    BY <1>1
  <1>5. QED
    BY <1>2, <1>3, <1>4 DEF Spot

\* What findPreviousOrderToPrice looks for.
Stops(d, walk, price, k) ==
    LET next == d.orders[walk[k]].next
    IN  next = 0 \/ GoesBefore(price, d.orders[next].price)

\* findPreviousOrderToPrice finds it.
LEMMA FindIsSpot ==
    ASSUME NEW d, NEW b, NEW q, NEW F, Good(d, b, q, F), NEW t \in OrderTypes, NEW price \in Nat
    PROVE  \E at : /\ Spot(d.orders, b[t], price, at)
                   /\ findPreviousOrderToPrice(d, t, price) = Before1(b[t], at)
  <1> DEFINE s == b[t]
             L == Len(s)
             walk == Follow(d, d.firstId[t])
             T == {k \in 0 .. MaxOrders : Stops(d, walk, price, k)}
             early == d.lengthOf[t] = 0 \/ GoesBefore(price, d.orders[d.firstId[t]].price)
  <1>1. /\ d.orders \in [0 .. MaxOrders -> OrderRecords] /\ d.orders[0] = NullOrder
        /\ s \in Seq(Ids) /\ Distinct(s) /\ Chained(d.orders, s) /\ d.firstId[t] = First(s) /\ d.lengthOf[t] = L
    BY GoodFacts
  <1>2. L \in Nat /\ L \in 0 .. MaxOrders /\ MaxOrders \in Nat /\ (L = 0 <=> s = <<>>)
    BY <1>1, ListsAreShort, OrderBookAssumption, Places
  <1>3. findPreviousOrderToPrice(d, t, price) = IF early THEN 0 ELSE walk[FirstIn(T)]
    BY DEF findPreviousOrderToPrice, Stops
  <1>4. L # 0 => d.firstId[t] = s[1]
    BY <1>1, <1>2 DEF First
  <1>5. \A k \in 0 .. MaxOrders : walk[k] = IF k < L THEN s[k + 1] ELSE 0
    BY <1>1, WalkIs
  <1> HIDE DEF walk
  <1>6. CASE early
    <2>1. 1 \in 1 .. L + 1 /\ ~(\E n \in 1 .. 1 - 1 : TRUE) /\ (1 <= L => L # 0)
      BY <1>2
    <2>2. 1 <= L => GoesBefore(price, d.orders[s[1]].price)
      BY <1>1, <1>4, <1>6, <2>1
    <2>3. Spot(d.orders, s, price, 1)
      BY <2>1, <2>2 DEF Spot
    <2>4. Before1(s, 1) = 0
      BY DEF Before1
    <2>5. QED
      BY <1>3, <1>6, <2>3, <2>4
  <1>7. CASE ~early
    <2>1. L # 0 /\ ~GoesBefore(price, d.orders[s[1]].price)
      BY <1>1, <1>4, <1>7
    <2>2. ASSUME NEW k \in 0 .. L - 1
          PROVE  /\ k \in 0 .. MaxOrders /\ walk[k] = s[k + 1]
                 /\ Stops(d, walk, price, k) <=> k = L - 1 \/ GoesBefore(price, d.orders[s[k + 2]].price)
      <3>1. /\ k \in 0 .. MaxOrders /\ k < L /\ k + 1 \in 1 .. L /\ (k + 1 = L <=> k = L - 1) /\ k + 1 + 1 = k + 2
            /\ (k # L - 1 => k + 2 \in 1 .. L)
        <4>1. \A l \in Nat, m \in Nat : l <= m => \A j \in 0 .. l - 1 :
                  /\ j \in 0 .. m /\ j < l /\ j + 1 \in 1 .. l /\ (j + 1 = l <=> j = l - 1) /\ j + 1 + 1 = j + 2
                  /\ (j # l - 1 => j + 2 \in 1 .. l)
          OBVIOUS
        <4>2. L <= MaxOrders
          BY <1>2
        <4>3. QED
          BY <1>2, <4>1, <4>2
      <3>2. walk[k] = s[k + 1]
        BY <1>5, <3>1
      <3>3. d.orders[walk[k]].next = IF k = L - 1 THEN 0 ELSE s[k + 2]
        BY <1>1, <3>1, <3>2 DEF Chained, Successor
      <3>4. k # L - 1 => s[k + 2] # 0
        <4>1. \A n \in 1 .. L : s[n] # 0
          BY <1>1, Places
        <4>2. QED
          BY <3>1, <4>1
      <3>5. QED
        BY <3>1, <3>2, <3>3, <3>4 DEF Stops
    <2>3. L - 1 \in 0 .. L - 1
      BY <1>2, <2>1
    <2>4. L - 1 \in T /\ T \subseteq Nat
      BY <1>2, <2>2, <2>3
    <2> HIDE DEF T
    <2>5. PICK m \in T : \A j \in T : m <= j
      BY <2>4, LeastNat
    <2>6. FirstIn(T) = m
      BY <2>4, <2>5, FirstInIs
    <2>7. m \in 0 .. L - 1 /\ Stops(d, walk, price, m) /\ \A j \in 0 .. m - 1 : ~Stops(d, walk, price, j)
      <3>1. m \in Nat /\ m <= L - 1
        BY <2>4, <2>5
      <3>2. m \in 0 .. L - 1
        BY <1>2, <3>1
      <3>3. Stops(d, walk, price, m)
        BY <2>5 DEF T
      <3>4. ASSUME NEW j \in 0 .. m - 1
            PROVE  ~Stops(d, walk, price, j)
        <4>1. j \in 0 .. L - 1 /\ ~(m <= j)
          BY <1>2, <3>2
        <4>2. j \in 0 .. MaxOrders /\ j \notin T
          BY <2>2, <2>5, <4>1
        <4>3. QED
          BY <4>2 DEF T
      <3>5. QED
        BY <3>2, <3>3, <3>4
    <2>8. m \in Nat
      BY <1>2, <2>7
    <2> DEFINE at == m + 2
    <2>9. at \in 1 .. L + 1
      <3>1. \A l \in Nat : \A j \in 0 .. l - 1 : j + 2 \in 1 .. l + 1
        OBVIOUS
      <3>2. QED
        BY <1>2, <2>7, <3>1
    <2>10. ASSUME NEW n \in 1 .. at - 1
           PROVE  ~GoesBefore(price, d.orders[s[n]].price)
      <3>1. CASE n = 1
        BY <2>1, <3>1
      <3>2. CASE n # 1
        <4>1. n - 2 \in 0 .. m - 1 /\ n - 2 + 2 = n /\ n - 2 \in 0 .. L - 1
          <5>1. \A l \in Nat : \A j \in 0 .. l - 1 : \A k \in 1 .. j + 2 - 1 : k # 1 =>
                    k - 2 \in 0 .. j - 1 /\ k - 2 + 2 = k /\ k - 2 \in 0 .. l - 1
            OBVIOUS
          <5>2. QED
            BY <1>2, <2>7, <3>2, <5>1
        <4>2. ~Stops(d, walk, price, n - 2)
          BY <2>7, <4>1
        <4>3. QED
          BY <2>2, <4>1, <4>2
      <3>3. QED
        BY <3>1, <3>2
    <2>11. at <= L => GoesBefore(price, d.orders[s[at]].price)
      <3>1. at <= L => m # L - 1
        BY <1>2, <2>8
      <3>2. QED
        BY <2>2, <2>7, <3>1
    <2>12. Spot(d.orders, s, price, at)
      BY <2>9, <2>10, <2>11 DEF Spot
    <2>13. Before1(s, at) = s[m + 1]
      <3>1. at # 1 /\ at - 1 = m + 1
        BY <2>8
      <3>2. QED
        BY <3>1 DEF Before1
    <2>14. walk[m] = s[m + 1]
      BY <2>2, <2>7
    <2>15. findPreviousOrderToPrice(d, t, price) = walk[m]
      BY <1>3, <1>7, <2>6
    <2>16. QED
      BY <2>12, <2>13, <2>14, <2>15
  <1>8. QED
    BY <1>6, <1>7

\* A hint that is accepted, and that is no pending order, is the same place.
LEMMA HintIsSpot ==
    ASSUME NEW d, NEW b, NEW q, NEW F, Good(d, b, q, F), NEW t \in OrderTypes, NEW price \in Nat,
           NEW hint \in 0 .. MaxOrders, validatePreviousOrder(d, t, price, hint), hint \notin In(q[t]), hint \notin F
    PROVE  \E at : Spot(d.orders, b[t], price, at) /\ hint = Before1(b[t], at)
  <1> DEFINE s == b[t]
             L == Len(s)
  <1>1. /\ d.orders \in [0 .. MaxOrders -> OrderRecords] /\ d.orders[0] = NullOrder
        /\ s \in Seq(Ids) /\ Distinct(s) /\ Chained(d.orders, s) /\ d.firstId[t] = First(s) /\ d.lengthOf[t] = L
        /\ Ranked(d.orders, s)
    BY GoodFacts
  <1>2. L \in Nat /\ (L = 0 <=> s = <<>>) /\ \A n \in 1 .. L : s[n] \in In(s) /\ s[n] \in 0 .. MaxOrders /\ s[n] # 0
    BY <1>1, Places
  <1>3. CASE hint = 0
    <2>1. 1 \in 1 .. L + 1 /\ ~(\E n \in 1 .. 1 - 1 : TRUE) /\ (1 <= L => L # 0)
      BY <1>2
    <2>2. L # 0 => d.firstId[t] = s[1]
      BY <1>1, <1>2 DEF First
    <2>3. 1 <= L => GoesBefore(price, d.orders[s[1]].price)
      BY <1>1, <1>3, <2>1, <2>2 DEF validatePreviousOrder
    <2>4. Spot(d.orders, s, price, 1)
      BY <2>1, <2>3 DEF Spot
    <2>5. QED
      BY <1>3, <2>4 DEF Before1
  <1>4. CASE hint # 0
    <2>1. /\ d.orders[hint].id # 0 /\ d.orders[hint].orderType = t /\ ~GoesBefore(price, d.orders[hint].price)
          /\ d.orders[d.orders[hint].next].id = 0 \/ GoesBefore(price, d.orders[d.orders[hint].next].price)
      BY <1>4 DEF validatePreviousOrder
    <2>2. d.orders[hint] # NullOrder
      BY <2>1 DEF NullOrder
    <2>3. PICK u \in OrderTypes : hint \in In(b[u]) \union In(q[u])
      <3>1. hint \in F \/ \E u \in OrderTypes : hint \in In(b[u]) \union In(q[u])
        BY <2>2 DEF Good, Covered
      <3>2. QED
        BY <3>1
    <2>4. d.orders[hint].orderType = u
      BY <2>3, Apart
    <2>5. hint \in In(s)
      BY <2>1, <2>3, <2>4
    <2>6. PICK n \in 1 .. L : s[n] = hint
      BY <1>1, <2>5, Places
    <2> DEFINE at == n + 1
    <2>7. at \in 1 .. L + 1 /\ at - 1 = n /\ at # 1 /\ n \in Nat
      BY <1>2
    <2>8. ASSUME NEW m \in 1 .. at - 1
          PROVE  ~GoesBefore(price, d.orders[s[m]].price)
      <3>1. m \in 1 .. L /\ (m = n \/ m < n)
        BY <1>2, <2>7
      <3>2. CASE m = n
        BY <2>1, <2>6, <3>2
      <3>3. CASE m < n
        <4>1. Better(d.orders, s[m], s[n])
          BY <1>1, <3>1, <3>3 DEF Ranked
        <4>2. GoesBefore(d.orders[s[m]].price, d.orders[s[n]].price) \/ d.orders[s[m]].price = d.orders[s[n]].price
          BY <4>1 DEF Better
        <4>3. d.orders[s[m]].price \in Nat /\ d.orders[s[n]].price \in Nat
          BY <1>1, <1>2, <3>1, PriceIsNat
        <4>4. ~GoesBefore(price, d.orders[s[n]].price)
          BY <2>1, <2>6
        <4>5. QED
          BY <4>2, <4>3, <4>4, PricesAreOrdered
      <3>4. QED
        BY <3>1, <3>2, <3>3
    <2>9. at <= L => GoesBefore(price, d.orders[s[at]].price)
      <3> SUFFICES ASSUME at <= L PROVE GoesBefore(price, d.orders[s[at]].price)
        OBVIOUS
      <3>1. at \in 1 .. L /\ n # L
        BY <1>2, <2>7
      <3>2. d.orders[hint].next = s[at]
        BY <1>1, <2>6, <3>1 DEF Chained, Successor
      <3>3. d.orders[s[at]].id = s[at] /\ s[at] # 0
        <4>1. s[at] \in In(s) /\ s[at] # 0
          BY <1>2, <3>1
        <4>2. \A x \in In(b[t]) \union In(q[t]) : d.orders[x].id = x
          BY Apart
        <4>3. QED
          BY <4>1, <4>2
      <3>4. QED
        BY <2>1, <3>2, <3>3
    <2>10. Spot(d.orders, s, price, at)
      BY <2>7, <2>8, <2>9 DEF Spot
    <2>11. Before1(s, at) = hint
      BY <2>6, <2>7 DEF Before1
    <2>12. QED
      BY <2>10, <2>11
  <1>5. QED
    BY <1>3, <1>4

-----------------------------------------------------------------------------
(* Expiration. *)

\* A stored order is in the book or in the queue of its type.
LEMMA StoredIsListed ==
    ASSUME NEW d, NEW b, NEW q, NEW F, Good(d, b, q, F), NEW x \in 0 .. MaxOrders, d.orders[x].id # 0, x \notin F
    PROVE  /\ d.orders[x].id = x /\ d.orders[x].orderType \in OrderTypes /\ x \in Ids
           /\ x \in In(b[d.orders[x].orderType]) \union In(q[d.orders[x].orderType])
  <1>1. d.orders[x] # NullOrder
    BY DEF NullOrder
  <1>2. d.orders[x].id = x /\ \E u \in OrderTypes : x \in In(b[u]) \union In(q[u])
    BY <1>1 DEF Good, Covered
  <1>3. PICK u \in OrderTypes : x \in In(b[u]) \union In(q[u])
    BY <1>2
  <1>4. d.orders[x].orderType = u /\ x \in Ids
    BY <1>3, Apart
  <1>5. QED
    BY <1>2, <1>3, <1>4

\* A stored order is followed by nothing or by a stored order of its type.
LEMMA NextIsOfItsType ==
    ASSUME NEW d, NEW b, NEW q, Good(d, b, q, {}), NEW x \in 0 .. MaxOrders, d.orders[x].id # 0,
           NEW next, next = d.orders[x].next
    PROVE  /\ next \in 0 .. MaxOrders /\ next # x
           /\ d.orders[next].id # 0 => d.orders[next].orderType = d.orders[x].orderType
  <1> DEFINE t == d.orders[x].orderType
  <1>1. x \in In(b[t]) \union In(q[t]) /\ t \in OrderTypes
    BY StoredIsListed
  <1>2. /\ d.orders \in [0 .. MaxOrders -> OrderRecords] /\ d.orders[0] = NullOrder
        /\ b[t] \in Seq(Ids) /\ q[t] \in Seq(Ids) /\ Distinct(b[t]) /\ Distinct(q[t])
        /\ Chained(d.orders, b[t]) /\ Chained(d.orders, q[t])
    BY <1>1, GoodFacts
  <1>3. next \in 0 .. MaxOrders
    <2>1. d.orders[x] \in OrderRecords
      BY <1>2
    <2>2. QED
      BY <2>1 DEF OrderRecords
  <1>4. \A y \in In(b[t]) \union In(q[t]) : d.orders[y].orderType = t
    BY <1>1, Apart
  <1> HIDE DEF t
  <1>5. ASSUME NEW s \in Seq(Ids), Distinct(s), Chained(d.orders, s), x \in In(s)
        PROVE  next # x /\ (next = 0 \/ next \in In(s))
    <2>1. PICK n \in 1 .. Len(s) : s[n] = x
      BY <1>5, Places
    <2>2. next = IF n = Len(s) THEN 0 ELSE s[n + 1]
      BY <1>5, <2>1 DEF Chained, Successor
    <2>3. x # 0
      BY <2>1, Places
    <2>4. CASE n = Len(s)
      BY <2>2, <2>3, <2>4
    <2>5. CASE n # Len(s)
      <3>1. n + 1 \in 1 .. Len(s) /\ n + 1 # n
        <4>1. \A l \in Nat : \A k \in 1 .. l : k # l => k + 1 \in 1 .. l /\ k + 1 # k
          OBVIOUS
        <4>2. Len(s) \in Nat
          BY Places
        <4>3. QED
          BY <2>5, <4>1, <4>2
      <3>2. s[n + 1] \in In(s) /\ DOMAIN s = 1 .. Len(s)
        BY <3>1, Places
      <3>3. s[n + 1] # s[n]
        BY <1>5, <3>1, <3>2 DEF Distinct
      <3>4. QED
        BY <2>1, <2>2, <2>5, <3>2, <3>3
    <2>6. QED
      BY <2>4, <2>5
  <1>6. next # x /\ (next = 0 \/ next \in In(b[t]) \union In(q[t]))
    BY <1>1, <1>2, <1>5
  <1>7. d.orders[next].id # 0 => d.orders[next].orderType = t
    <2>1. CASE next = 0
      BY <1>2, <2>1 DEF NullOrder
    <2>2. CASE next # 0
      BY <1>4, <1>6, <2>2
    <2>3. QED
      BY <2>1, <2>2
  <1>8. QED
    BY <1>3, <1>6, <1>7 DEF t

\* The states of the loop of processExpired.
LoopStates ==
    [self : DataRecords, at : 0 .. MaxOrders, previous : 0 .. MaxOrders, processed : BOOLEAN, reverted : BOOLEAN]

\* The loop, which began with the Data d and its lists b and q, came to the state s, with the books b2:
\* it removed expired orders of the book of type t, and is about to look at an order of that type.
Swept(d, b, q, t, now, s, b2) ==
    /\ s \in LoopStates
    /\ Good(s.self, b2, q, {})
    /\ \A u \in OrderTypes : u # t => b2[u] = b[u]
    /\ In(b2[t]) \subseteq In(b[t])
    /\ \A x \in In(b[t]) : x \notin In(b2[t]) => isExpired(d.orders[x], now)
    /\ s.processed <=> In(b2[t]) # In(b[t])
    /\ \A x \in 0 .. MaxOrders : s.self.orders[x].id # 0 => SameOrder(s.self.orders[x], d.orders[x])
    /\ s.self.orders[s.at].id # 0 => s.self.orders[s.at].orderType = t

\* The books with another book of type t.
BooksWith(b, t, s) == [u \in OrderTypes |-> IF u = t THEN s ELSE b[u]]

\* The records of the loop.
LEMMA LoopWrites ==
    ASSUME NEW s \in LoopStates, NEW at \in 0 .. MaxOrders, NEW e \in DataRecords
    PROVE  /\ [s EXCEPT !.previous = s.at, !.at = at] \in LoopStates
           /\ [s EXCEPT !.previous = s.at, !.at = at].self = s.self
           /\ [s EXCEPT !.previous = s.at, !.at = at].at = at
           /\ [s EXCEPT !.previous = s.at, !.at = at].previous = s.at
           /\ [s EXCEPT !.previous = s.at, !.at = at].processed = s.processed
           /\ [s EXCEPT !.previous = s.at, !.at = at].reverted = s.reverted
           /\ [s EXCEPT !.self = e, !.at = at, !.processed = TRUE] \in LoopStates
           /\ [s EXCEPT !.self = e, !.at = at, !.processed = TRUE].self = e
           /\ [s EXCEPT !.self = e, !.at = at, !.processed = TRUE].at = at
           /\ [s EXCEPT !.self = e, !.at = at, !.processed = TRUE].previous = s.previous
           /\ [s EXCEPT !.self = e, !.at = at, !.processed = TRUE].processed = TRUE
           /\ [s EXCEPT !.self = e, !.at = at, !.processed = TRUE].reverted = s.reverted
           /\ [s EXCEPT !.reverted = TRUE] \in LoopStates
           /\ [s EXCEPT !.reverted = TRUE].self = s.self
           /\ [s EXCEPT !.reverted = TRUE].at = s.at
           /\ [s EXCEPT !.reverted = TRUE].processed = s.processed
  BY DEF LoopStates

\* The removal, by an iteration, of the order it looks at.
LEMMA RemovalIsSwept ==
    ASSUME NEW d, NEW b, NEW q, NEW t \in OrderTypes, NEW now, NEW s, NEW b2, Swept(d, b, q, t, now, s, b2),
           NEW n \in 1 .. Len(b2[t]), s.at = b2[t][n],
           NEW next, next = s.self.orders[s.at].next,
           isExpired(s.self.orders[s.at], now),
           NEW e, e = Removed(s.self, t, b2[t], n),
           NEW s2, s2 = [s EXCEPT !.self = e, !.at = next, !.processed = TRUE]
    PROVE  Swept(d, b, q, t, now, s2, BooksWith(b2, t, Cut(b2[t], n))) /\ next \in 0 .. MaxOrders
  <1> DEFINE c == s.self
             id == s.at
             r == Cut(b2[t], n)
             b3 == BooksWith(b2, t, r)
  <1>1. s \in LoopStates /\ Good(c, b2, q, {}) /\ \A u \in OrderTypes : u # t => b2[u] = b[u]
    BY DEF Swept
  <1>2. b2[t] \in Seq(Ids) /\ Distinct(b2[t]) /\ c.orders[0] = NullOrder
    BY <1>1, GoodFacts
  <1>3. id \in In(b2[t]) /\ id # 0 /\ id \in 0 .. MaxOrders
    <2>1. id \in In(b2[t]) /\ id \in Nat \ {0} /\ id \in 0 .. MaxOrders
      BY <1>2, Places
    <2>2. QED
      BY <2>1
  <1>4. c.orders[id].id = id /\ c.orders[id].orderType = t
    <2>1. \A x \in In(b2[t]) \union In(q[t]) : c.orders[x].id = x /\ c.orders[x].orderType = t
      BY <1>1, Apart
    <2>2. QED
      BY <1>3, <2>1
  <1>5. b3[t] = r /\ \A u \in OrderTypes : u # t => b3[u] = b2[u]
    BY DEF BooksWith
  <1> HIDE DEF b3, r, c
  <1>6. /\ Good(e, b3, q, {})
        /\ e.orders[b2[t][n]] = NullOrder
        /\ \A x \in 0 .. MaxOrders : x # b2[t][n] => SameOrder(e.orders[x], c.orders[x])
    BY <1>1, <1>5, RemovedIsGood DEF c, r
  <1>7. In(r) = In(b2[t]) \ {id}
    BY <1>2, CutPlaces DEF r
  <1>8. /\ next \in 0 .. MaxOrders /\ next # id
        /\ c.orders[next].id # 0 => c.orders[next].orderType = t
    <2>1. c.orders[id].id # 0 /\ next = c.orders[id].next
      BY <1>3, <1>4 DEF c
    <2>2. QED
      BY <1>1, <1>3, <1>4, <2>1, NextIsOfItsType
  <1>9. /\ s2 \in LoopStates /\ s2.self = e /\ s2.at = next /\ s2.processed = TRUE
    <2>1. e \in DataRecords
      BY <1>6 DEF Good
    <2>2. s \in LoopStates /\ next \in 0 .. MaxOrders
      BY <1>1, <1>8
    <2>3. QED
      BY <2>1, <2>2 DEF LoopStates
  <1>10. In(b2[t]) \subseteq In(b[t]) /\ \A x \in In(b[t]) : x \notin In(b2[t]) => isExpired(d.orders[x], now)
    BY DEF Swept
  <1>11. \A x \in 0 .. MaxOrders : c.orders[x].id # 0 => SameOrder(c.orders[x], d.orders[x])
    BY DEF Swept, c
  <1>12. isExpired(d.orders[id], now)
    <2>1. SameOrder(c.orders[id], d.orders[id])
      BY <1>3, <1>4, <1>11
    <2>2. QED
      BY <2>1 DEF SameOrder, isExpired, c
  <1>13. \A x \in 0 .. MaxOrders : e.orders[x].id # 0 => x # id /\ SameOrder(e.orders[x], d.orders[x])
    <2> SUFFICES ASSUME NEW x \in 0 .. MaxOrders, e.orders[x].id # 0 PROVE x # id /\ SameOrder(e.orders[x], d.orders[x])
      OBVIOUS
    <2>1. x # id
      BY <1>6 DEF NullOrder
    <2>2. SameOrder(e.orders[x], c.orders[x])
      BY <1>6, <2>1
    <2>3. SameOrder(c.orders[x], d.orders[x])
      BY <1>11, <2>2 DEF SameOrder
    <2>4. QED
      BY <2>1, <2>2, <2>3 DEF SameOrder
  <1>14. e.orders[next].id # 0 => e.orders[next].orderType = t
    <2>1. SameOrder(e.orders[next], c.orders[next])
      BY <1>6, <1>8
    <2>2. QED
      BY <1>8, <2>1 DEF SameOrder
  <1>15. Swept(d, b, q, t, now, s2, b3)
    <2>1. \A u \in OrderTypes : u # t => b3[u] = b[u]
      BY <1>1, <1>5
    <2>2. In(b3[t]) = In(b2[t]) \ {id}
      BY <1>5, <1>7
    <2>3. \A x \in In(b[t]) : x \notin In(b3[t]) => isExpired(d.orders[x], now)
      BY <1>10, <1>12, <2>2
    <2>4. In(b3[t]) \subseteq In(b[t]) /\ In(b3[t]) # In(b[t])
      BY <1>3, <1>10, <2>2
    <2>5. \A x \in 0 .. MaxOrders : e.orders[x].id # 0 => SameOrder(e.orders[x], d.orders[x])
      BY <1>13
    <2>6. QED
      BY <1>6, <1>9, <1>14, <2>1, <2>3, <2>4, <2>5 DEF Swept
  <1>16. QED
    BY <1>8, <1>15 DEF b3, r

\* The step, by an iteration, to the next order.
LEMMA AdvanceIsSwept ==
    ASSUME NEW d, NEW b, NEW q, NEW t \in OrderTypes, NEW now, NEW s, NEW b2, Swept(d, b, q, t, now, s, b2),
           s.self.orders[s.at].id # 0,
           NEW next, next = s.self.orders[s.at].next,
           NEW s2, s2 = [s EXCEPT !.previous = s.at, !.at = next]
    PROVE  Swept(d, b, q, t, now, s2, b2) /\ next \in 0 .. MaxOrders
  <1> DEFINE c == s.self
  <1>1. s \in LoopStates /\ Good(c, b2, q, {}) /\ c.orders[s.at].orderType = t
    BY DEF Swept
  <1>2. s.at \in 0 .. MaxOrders /\ c \in DataRecords
    BY <1>1 DEF LoopStates
  <1>3. /\ next \in 0 .. MaxOrders
        /\ c.orders[next].id # 0 => c.orders[next].orderType = t
    BY <1>1, <1>2, NextIsOfItsType
  <1>4. s2 \in LoopStates /\ s2.self = c /\ s2.at = next /\ s2.processed = s.processed
    BY <1>1, <1>2, <1>3 DEF LoopStates
  <1>5. Swept(d, b, q, t, now, s2, b2)
    BY <1>3, <1>4 DEF Swept
  <1>6. QED
    BY <1>3, <1>5

\* One iteration.  The orders of the queue have not expired.
LEMMA IterationIsSwept ==
    ASSUME NEW d, NEW b, NEW q, NEW t \in OrderTypes, NEW now, NEW s, NEW b2, Swept(d, b, q, t, now, s, b2),
           \A x \in In(q[t]) : ~isExpired(d.orders[x], now)
    PROVE  \E b3 : Swept(d, b, q, t, now, ExpireIteration(s, now), b3)
  <1> DEFINE c == s.self
             order == c.orders[s.at]
             s2 == ExpireIteration(s, now)
  <1>1. s \in LoopStates /\ Good(c, b2, q, {})
    BY DEF Swept
  <1>2. s.at \in 0 .. MaxOrders /\ s.previous \in 0 .. MaxOrders /\ c \in DataRecords
    BY <1>1 DEF LoopStates
  <1>3. CASE s.at = 0 \/ order.id = 0 \/ s.reverted
    <2>1. s2 = s
      BY <1>3 DEF ExpireIteration
    <2>2. QED
      BY <2>1
  <1>4. CASE ~(s.at = 0 \/ order.id = 0 \/ s.reverted) /\ ~isExpired(order, now)
    <2> DEFINE next == order.next
    <2>1. s2 = [s EXCEPT !.previous = s.at, !.at = next]
      BY <1>4 DEF ExpireIteration
    <2>2. s.self.orders[s.at].id # 0 /\ next = s.self.orders[s.at].next
      BY <1>4
    <2> HIDE DEF next, s2
    <2>3. Swept(d, b, q, t, now, s2, b2)
      BY <2>1, <2>2, AdvanceIsSwept
    <2>4. QED
      BY <2>3 DEF s2
  <1>5. CASE ~(s.at = 0 \/ order.id = 0 \/ s.reverted) /\ isExpired(order, now) /\ CanRemove(c, s.at, s.previous)
    <2>1. s2 = [s EXCEPT !.self = removeOrder(@, s.at, s.previous), !.at = order.next, !.processed = TRUE]
      BY <1>5 DEF ExpireIteration
    <2>2. order.orderType = t /\ SameOrder(order, d.orders[s.at])
      BY <1>2, <1>5 DEF Swept
    <2>3. s.at \in In(b2[t]) \union In(q[t])
      BY <1>1, <1>2, <1>5, <2>2, StoredIsListed
    <2>4. s.at \in In(b2[t])
      BY <1>5, <2>2, <2>3 DEF SameOrder, isExpired
    <2>5. b2[t] \in Seq(Ids)
      BY <1>1, GoodFacts
    <2>6. PICK n \in 1 .. Len(b2[t]) : s.at = b2[t][n]
      BY <2>4, <2>5, Places
    <2> DEFINE e == Removed(c, t, b2[t], n)
               next == order.next
    <2>7. removeOrder(c, s.at, s.previous) = e
      BY <1>1, <1>2, <1>5, <2>6, RemoveIsRemoved
    <2>8. s2 = [s EXCEPT !.self = e, !.at = next, !.processed = TRUE]
      BY <1>1, <2>1, <2>7 DEF LoopStates
    <2> HIDE DEF e, s2
    <2>9. Swept(d, b, q, t, now, s2, BooksWith(b2, t, Cut(b2[t], n)))
      <3>1. next = s.self.orders[s.at].next /\ isExpired(s.self.orders[s.at], now) /\ e = Removed(s.self, t, b2[t], n)
        BY <1>5 DEF e
      <3> HIDE DEF next
      <3>2. QED
        BY <2>6, <2>8, <3>1, RemovalIsSwept
    <2>10. QED
      BY <2>9 DEF s2
  <1>6. CASE ~(s.at = 0 \/ order.id = 0 \/ s.reverted) /\ isExpired(order, now) /\ ~CanRemove(c, s.at, s.previous)
    <2>1. s2 = [s EXCEPT !.reverted = TRUE]
      BY <1>6 DEF ExpireIteration
    <2> HIDE DEF s2
    <2>2. s2 \in LoopStates /\ s2.self = c /\ s2.at = s.at /\ s2.processed = s.processed
      BY <1>1, <1>2, <2>1, LoopWrites
    <2>3. Swept(d, b, q, t, now, s2, b2)
      BY <2>2 DEF Swept
    <2>4. QED
      BY <2>3 DEF s2
  <1>7. QED
    BY <1>3, <1>4, <1>5, <1>6

\* The state in which the loop of processExpired begins.
LoopStart(d, start, hint) ==
    [self |-> d, at |-> start, previous |-> hint, processed |-> FALSE, reverted |-> FALSE]

\* loop is the function that ExpireLoop defines.
Loops(loop, d, now, start, hint, steps) ==
    /\ loop[0] = LoopStart(d, start, hint)
    /\ \A k \in 0 .. steps : k # 0 => loop[k] = ExpireIteration(loop[k - 1], now)
    /\ ExpireLoop(d, now, start, hint, steps) = loop[steps]

\* The loop of processExpired removes expired orders of one book, and nothing else.
LEMMA LoopIsSwept ==
    ASSUME NEW d, NEW b, NEW q, Good(d, b, q, {}), NEW t \in OrderTypes, NEW now,
           \A x \in In(q[t]) : ~isExpired(d.orders[x], now),
           NEW start \in 0 .. MaxOrders, d.orders[start].id # 0 => d.orders[start].orderType = t,
           NEW hint \in 0 .. MaxOrders, NEW steps \in Nat
    PROVE  \E loop : /\ Loops(loop, d, now, start, hint, steps)
                     /\ \A k \in 0 .. steps : \E b2 : Swept(d, b, q, t, now, loop[k], b2)
  <1> DEFINE A == {s \in LoopStates : \E b2 : Swept(d, b, q, t, now, s, b2)}
             a == LoopStart(d, start, hint)
             step == [p \in Nat \X A |-> ExpireIteration(p[2], now)]
             Eq(f) == f = [k \in 0 .. steps |-> IF k = 0 THEN a ELSE ExpireIteration(f[k - 1], now)]
             loop == CHOOSE f : Eq(f)
  <1>1. a \in A
    <2>1. a \in LoopStates /\ a.self = d /\ a.at = start /\ a.processed = FALSE
      <3>1. d \in DataRecords
        BY DEF Good
      <3>2. QED
        BY <3>1 DEF LoopStates, LoopStart
    <2> HIDE DEF a
    <2>2. \A x \in 0 .. MaxOrders : SameOrder(d.orders[x], d.orders[x])
      BY DEF SameOrder
    <2>3. Swept(d, b, q, t, now, a, b)
      BY <2>1, <2>2 DEF Swept
    <2>4. QED
      BY <2>1, <2>3
  <1>2. step \in [Nat \X A -> A]
    <2>1. ASSUME NEW s \in A
          PROVE  ExpireIteration(s, now) \in A
      <3>1. PICK b2 : Swept(d, b, q, t, now, s, b2)
        OBVIOUS
      <3>2. \E b3 : Swept(d, b, q, t, now, ExpireIteration(s, now), b3)
        BY <3>1, IterationIsSwept
      <3>3. ExpireIteration(s, now) \in LoopStates
        BY <3>2 DEF Swept
      <3>4. QED
        BY <3>2, <3>3
    <2> HIDE DEF A
    <2>2. \A p \in Nat \X A : p[2] \in A
      OBVIOUS
    <2>3. QED
      BY <2>1, <2>2
  <1> HIDE DEF a
  <1>3. PICK f \in [0 .. steps -> A] : Recurses(f, steps, a, step)
    <2> HIDE DEF step, A
    <2>1. QED
      BY <1>1, <1>2, RecursionExists
  <1>4. ASSUME NEW k \in 0 .. steps, k # 0
        PROVE  f[k] = ExpireIteration(f[k - 1], now) /\ k - 1 \in 0 .. steps
    <2>1. k \in Nat /\ k - 1 \in 0 .. steps
      BY <1>4
    <2> HIDE DEF A
    <2>2. f[k - 1] \in A
      BY <2>1
    <2>3. f[k] = step[<<k, f[k - 1]>>]
      BY <1>3, <1>4 DEF Recurses
    <2>4. QED
      BY <2>1, <2>2, <2>3
  <1>5. f[0] = a /\ 0 \in 0 .. steps /\ steps \in 0 .. steps
    <2>1. 0 \in 0 .. steps /\ steps \in 0 .. steps
      OBVIOUS
    <2>2. QED
      BY <1>3, <2>1 DEF Recurses
  <1> HIDE DEF step, A
  <1>6. Eq(f)
    BY <1>4, <1>5
  <1>7. Eq(loop)
    BY <1>6
  <1>8. ExpireLoop(d, now, start, hint, steps) = loop[steps]
    BY DEF ExpireLoop, a, LoopStart
  <1> HIDE DEF loop
  <1>9. loop[0] = a /\ \A k \in 0 .. steps : k # 0 => loop[k] = ExpireIteration(loop[k - 1], now)
    <2>1. \A k \in 0 .. steps : loop[k] = IF k = 0 THEN a ELSE ExpireIteration(loop[k - 1], now)
      BY <1>7
    <2>2. QED
      BY <1>5, <2>1
  <1>10. Loops(loop, d, now, start, hint, steps)
    BY <1>8, <1>9 DEF Loops, a
  <1> DEFINE S == {n \in Nat : n <= steps => loop[n] \in A}
  <1>11. 0 \in S
    BY <1>1, <1>9
  <1>12. ASSUME NEW n \in Nat, n \in S
         PROVE  n + 1 \in S
    <2> SUFFICES ASSUME n + 1 <= steps
                 PROVE  loop[n + 1] \in A
      OBVIOUS
    <2>1. n + 1 \in 0 .. steps /\ n + 1 # 0 /\ n + 1 - 1 = n /\ n <= steps
      OBVIOUS
    <2>2. loop[n] \in A
      BY <1>12, <2>1
    <2>3. loop[n + 1] = ExpireIteration(loop[n], now)
      BY <1>9, <2>1
    <2>4. PICK b2 : Swept(d, b, q, t, now, loop[n], b2)
      BY <2>2 DEF A
    <2>5. \E b3 : Swept(d, b, q, t, now, ExpireIteration(loop[n], now), b3)
      BY <2>4, IterationIsSwept
    <2>6. loop[n + 1] \in LoopStates
      BY <2>3, <2>5 DEF Swept
    <2>7. QED
      BY <2>3, <2>5, <2>6 DEF A
  <1> HIDE DEF S
  <1>13. Nat \subseteq S
    BY <1>11, <1>12, NaturalInduction
  <1>14. \A k \in 0 .. steps : \E b2 : Swept(d, b, q, t, now, loop[k], b2)
    <2> SUFFICES ASSUME NEW k \in 0 .. steps PROVE \E b2 : Swept(d, b, q, t, now, loop[k], b2)
      OBVIOUS
    <2>1. k \in S /\ k <= steps
      BY <1>13
    <2>2. QED
      BY <2>1 DEF S, A
  <1>15. QED
    BY <1>10, <1>14

-----------------------------------------------------------------------------
(* A whole sweep of a book, from its first order and without a hint. *)

\* The sweep is at the place "at" of the book s; "order" is what is there, "previous" what is before.
Sweeping(d, b, q, t, now, s, b2, at, left) ==
    /\ Swept(d, b, q, t, now, s, b2)
    /\ ~s.reverted
    /\ at \in 1 .. Len(b2[t]) + 1
    /\ s.at = IF at = Len(b2[t]) + 1 THEN 0 ELSE b2[t][at]
    /\ s.previous = Before1(b2[t], at)
    /\ \A n \in 1 .. Len(b2[t]) : n < at => ~isExpired(d.orders[b2[t][n]], now)
    /\ Len(b2[t]) + 1 - at <= left

\* The order it looks at can be removed: the hint is the previous order.
LEMMA HintIsPrevious ==
    ASSUME NEW d, NEW b, NEW q, Good(d, b, q, {}), NEW t \in OrderTypes, NEW at \in 1 .. Len(b[t]),
           NEW id, id = b[t][at], NEW hint, hint = Before1(b[t], at)
    PROVE  CanRemove(d, id, hint) /\ hint \in 0 .. MaxOrders
  <1>1. /\ d.orders[id].orderType = t /\ id \in Ids /\ id \in 0 .. MaxOrders
        /\ IsFirst(d, id) <=> at = 1
        /\ d.lengthOf[t] # 0
    BY FirstOfBook
  <1>2. d.orders \in [0 .. MaxOrders -> OrderRecords] /\ b[t] \in Seq(Ids) /\ Chained(d.orders, b[t])
    BY GoodFacts
  <1>3. CASE at = 1
    BY <1>1, <1>3, OrderBookAssumption DEF CanRemove, Before1
  <1>4. CASE at # 1
    <2>1. at - 1 \in 1 .. Len(b[t]) /\ at - 1 # Len(b[t]) /\ at - 1 + 1 = at
      <3>1. \A l \in Nat : \A a \in 1 .. l : a # 1 => a - 1 \in 1 .. l /\ a - 1 # l /\ a - 1 + 1 = a
        OBVIOUS
      <3>2. Len(b[t]) \in Nat
        BY <1>2, Places
      <3>3. QED
        BY <1>4, <3>1, <3>2
    <2>2. hint = b[t][at - 1] /\ hint \in 0 .. MaxOrders /\ hint # 0
      <3>1. b[t][at - 1] \in 0 .. MaxOrders /\ b[t][at - 1] # 0
        BY <1>2, <2>1, Places
      <3>2. QED
        BY <1>4, <3>1 DEF Before1
    <2>3. d.orders[hint].next = id
      BY <1>2, <2>1, <2>2 DEF Chained, Successor
    <2>4. 0 \in 0 .. MaxOrders
      BY OrderBookAssumption
    <2>5. Follow(d, hint)[0] = hint
      BY <1>2, <2>2, FollowIs
    <2>6. 0 \in FoundAt(d, id, hint)
      BY <2>2, <2>3, <2>4, <2>5 DEF FoundAt
    <2>7. QED
      BY <1>1, <2>2, <2>6 DEF CanRemove
  <1>5. QED
    BY <1>3, <1>4

\* An iteration brings the sweep one order nearer to the end.
LEMMA SweepGoesOn ==
    ASSUME NEW d, NEW b, NEW q, NEW t \in OrderTypes, NEW now, NEW s, NEW b2, NEW at, NEW left \in Nat,
           Sweeping(d, b, q, t, now, s, b2, at, left + 1)
    PROVE  \E b3, at3 : Sweeping(d, b, q, t, now, ExpireIteration(s, now), b3, at3, left)
  <1> DEFINE c == s.self
             L == Len(b2[t])
             order == c.orders[s.at]
             s2 == ExpireIteration(s, now)
  <1>1. /\ Swept(d, b, q, t, now, s, b2) /\ ~s.reverted /\ at \in 1 .. L + 1
        /\ s.at = IF at = L + 1 THEN 0 ELSE b2[t][at]
        /\ s.previous = Before1(b2[t], at)
        /\ \A n \in 1 .. L : n < at => ~isExpired(d.orders[b2[t][n]], now)
        /\ L + 1 - at <= left + 1
    BY DEF Sweeping
  <1>2. s \in LoopStates /\ Good(c, b2, q, {})
    BY <1>1 DEF Swept
  <1>3. b2[t] \in Seq(Ids) /\ Chained(c.orders, b2[t]) /\ Distinct(b2[t])
    BY <1>2, GoodFacts
  <1>4. L \in Nat /\ at \in Nat
    BY <1>1, <1>3, Places
  <1>5. CASE at = L + 1
    <2>1. s.at = 0
      BY <1>1, <1>5
    <2>2. s2 = s
      BY <2>1 DEF ExpireIteration
    <2>3. L + 1 - at <= left
      BY <1>4, <1>5
    <2>4. Sweeping(d, b, q, t, now, s2, b2, at, left)
      BY <1>1, <2>2, <2>3 DEF Sweeping
    <2>5. QED
      BY <2>4
  <1>6. CASE at # L + 1
    <2>1. at \in 1 .. L /\ s.at = b2[t][at]
      BY <1>1, <1>4, <1>6
    <2>2. s.at \in In(b2[t]) /\ s.at # 0 /\ s.at \in 0 .. MaxOrders
      BY <1>3, <2>1, Places
    <2>3. order.id # 0 /\ order.orderType = t
      <3>1. \A x \in In(b2[t]) \union In(q[t]) : c.orders[x].id = x /\ c.orders[x].orderType = t
        BY <1>2, Apart
      <3>2. QED
        BY <2>2, <3>1
    <2>4. SameOrder(order, d.orders[s.at])
      BY <1>1, <2>2, <2>3 DEF Swept
    <2>5. order.next = IF at = L THEN 0 ELSE b2[t][at + 1]
      BY <1>3, <2>1 DEF Chained, Successor
    <2>6. CASE ~isExpired(order, now)
      <3>1. s2 = [s EXCEPT !.previous = s.at, !.at = order.next]
        BY <1>1, <2>2, <2>3, <2>6 DEF ExpireIteration
      <3> DEFINE next == order.next
      <3> HIDE DEF s2
      <3>2. Swept(d, b, q, t, now, s2, b2) /\ next \in 0 .. MaxOrders
        <4>1. s2 = [s EXCEPT !.previous = s.at, !.at = next] /\ s.self.orders[s.at].id # 0 /\ next = s.self.orders[s.at].next
          BY <2>3, <3>1
        <4> HIDE DEF next
        <4>2. QED
          BY <1>1, <4>1, AdvanceIsSwept
      <3>3. s2.previous = s.at /\ s2.at = next /\ ~s2.reverted
        BY <1>1, <1>2, <3>1 DEF LoopStates
      <3>4. /\ at + 1 \in 1 .. L + 1 /\ (at + 1 = L + 1 <=> at = L) /\ L + 1 - (at + 1) <= left
            /\ at + 1 # 1 /\ at + 1 - 1 = at
        <4>1. \A l \in Nat : \A a \in 1 .. l : l + 1 - a <= left + 1 =>
                  /\ a + 1 \in 1 .. l + 1 /\ (a + 1 = l + 1 <=> a = l) /\ l + 1 - (a + 1) <= left
                  /\ a + 1 # 1 /\ a + 1 - 1 = a
          OBVIOUS
        <4>2. QED
          BY <1>1, <1>4, <2>1, <4>1
      <3>5. s2.at = IF at + 1 = L + 1 THEN 0 ELSE b2[t][at + 1]
        BY <2>5, <3>3, <3>4
      <3>6. s2.previous = Before1(b2[t], at + 1)
        BY <2>1, <3>3, <3>4 DEF Before1
      <3>7. ASSUME NEW n \in 1 .. L, n < at + 1
            PROVE  ~isExpired(d.orders[b2[t][n]], now)
        <4>1. n < at \/ n = at
          BY <1>4, <3>7
        <4>2. ~isExpired(d.orders[s.at], now)
          BY <2>4, <2>6 DEF SameOrder, isExpired
        <4>3. QED
          BY <1>1, <2>1, <4>1, <4>2
      <3>8. Sweeping(d, b, q, t, now, s2, b2, at + 1, left)
        BY <3>2, <3>3, <3>4, <3>5, <3>6, <3>7 DEF Sweeping
      <3>9. QED
        BY <3>8 DEF s2
    <2>7. CASE isExpired(order, now)
      <3> DEFINE next == order.next
                 e == Removed(c, t, b2[t], at)
                 r == Cut(b2[t], at)
                 b3 == BooksWith(b2, t, r)
      <3>1. CanRemove(c, s.at, s.previous) /\ s.previous \in 0 .. MaxOrders
        BY <1>1, <1>2, <2>1, HintIsPrevious
      <3>2. removeOrder(c, s.at, s.previous) = e
        BY <1>2, <2>1, <3>1, RemoveIsRemoved
      <3>3. s2 = [s EXCEPT !.self = e, !.at = next, !.processed = TRUE]
        <4>1. s2 = [s EXCEPT !.self = removeOrder(@, s.at, s.previous), !.at = order.next, !.processed = TRUE]
          BY <1>1, <2>2, <2>3, <2>7, <3>1 DEF ExpireIteration
        <4>2. QED
          BY <1>2, <3>2, <4>1 DEF LoopStates
      <3> HIDE DEF s2, e
      <3>4. Swept(d, b, q, t, now, s2, b3) /\ next \in 0 .. MaxOrders
        <4>1. next = s.self.orders[s.at].next /\ isExpired(s.self.orders[s.at], now) /\ e = Removed(s.self, t, b2[t], at)
          BY <2>7 DEF e
        <4> HIDE DEF next
        <4>2. QED
          BY <1>1, <2>1, <3>3, <4>1, RemovalIsSwept
      <3>5. s2.previous = s.previous /\ s2.at = next /\ ~s2.reverted
        BY <1>1, <1>2, <3>3 DEF LoopStates
      <3> HIDE DEF r
      <3>6. b3[t] = r
        BY DEF BooksWith
      <3> HIDE DEF b3
      <3>7. Len(r) = L - 1 /\ \A k \in 1 .. L - 1 : (k < at => r[k] = b2[t][k]) /\ (k >= at => r[k] = b2[t][k + 1])
        BY <1>3, <2>1, CutPlaces DEF r
      <3> HIDE DEF L
      <3>8. /\ at \in 1 .. L - 1 + 1 /\ L - 1 + 1 = L /\ L - at <= left
            /\ at # L => at \in 1 .. L - 1
            /\ \A n \in 1 .. L - 1 : n \in 1 .. L
            /\ at # 1 => at - 1 \in 1 .. L - 1 /\ at - 1 < at
        BY <1>1, <1>4, <2>1
      <3>9. s2.at = IF at = Len(r) + 1 THEN 0 ELSE r[at]
        <4>1. at # L => r[at] = b2[t][at + 1]
          BY <1>4, <3>7, <3>8
        <4>2. QED
          BY <2>5, <3>5, <3>7, <3>8, <4>1
      <3>10. s2.previous = Before1(r, at)
        <4>2. at # 1 => r[at - 1] = b2[t][at - 1]
          BY <3>7, <3>8
        <4>3. QED
          BY <1>1, <3>5, <4>2 DEF Before1
      <3>11. \A n \in 1 .. Len(r) : n < at => ~isExpired(d.orders[r[n]], now)
        BY <1>1, <3>7, <3>8
      <3>12. Sweeping(d, b, q, t, now, s2, b3, at, left)
        BY <3>4, <3>5, <3>6, <3>7, <3>8, <3>9, <3>10, <3>11 DEF Sweeping
      <3>13. QED
        BY <3>12 DEF s2
    <2>8. QED
      BY <2>6, <2>7
  <1>7. QED
    BY <1>5, <1>6

\* From its first order and without a hint, the loop of processExpired goes through, and removes an order
\* of the book exactly if one of its orders has expired.
LEMMA SweepRemoves ==
    ASSUME NEW d, NEW b, NEW q, Good(d, b, q, {}), NEW t \in OrderTypes, NEW now,
           \A x \in In(q[t]) : ~isExpired(d.orders[x], now)
    PROVE  LET end == ExpireLoop(d, now, d.firstId[t], 0, MaxOrders)
           IN  /\ ~end.reverted
               /\ end.processed <=> \E x \in In(b[t]) : isExpired(d.orders[x], now)
  <1> DEFINE start == d.firstId[t]
             end == ExpireLoop(d, now, start, 0, MaxOrders)
             s == b[t]
  <1>1. /\ s \in Seq(Ids) /\ Distinct(s) /\ start = First(s) /\ d.orders[0] = NullOrder
    BY GoodFacts
  <1>2. Len(s) \in Nat /\ Len(s) \in 0 .. MaxOrders /\ MaxOrders \in Nat /\ (Len(s) = 0 <=> s = <<>>)
    BY <1>1, ListsAreShort, Places, OrderBookAssumption
  <1>3. start = (IF 1 = Len(s) + 1 THEN 0 ELSE s[1]) /\ 1 \in 1 .. Len(s) + 1 /\ (1 # Len(s) + 1 => 1 \in 1 .. Len(s))
    BY <1>1, <1>2 DEF First
  <1>4. start \in 0 .. MaxOrders /\ (d.orders[start].id # 0 => d.orders[start].orderType = t)
    <2>1. CASE 1 = Len(s) + 1
      BY <1>1, <1>2, <1>3, <2>1 DEF NullOrder
    <2>2. CASE 1 # Len(s) + 1
      <3>1. s[1] \in In(s) /\ s[1] \in 0 .. MaxOrders
        BY <1>1, <1>3, <2>2, Places
      <3>2. \A x \in In(b[t]) \union In(q[t]) : d.orders[x].orderType = t
        BY Apart
      <3>3. QED
        BY <1>3, <2>2, <3>1, <3>2
    <2>3. QED
      BY <2>1, <2>2
  <1> HIDE DEF start
  <1>5. PICK loop : /\ Loops(loop, d, now, start, 0, MaxOrders)
                    /\ \A k \in 0 .. MaxOrders : \E b2 : Swept(d, b, q, t, now, loop[k], b2)
    <2>1. 0 \in 0 .. MaxOrders /\ MaxOrders \in Nat
      BY <1>2
    <2>2. QED
      BY <1>4, <2>1, LoopIsSwept
  <1>6. /\ loop[0] = LoopStart(d, start, 0) /\ end = loop[MaxOrders]
        /\ \A k \in 0 .. MaxOrders : k # 0 => loop[k] = ExpireIteration(loop[k - 1], now)
    BY <1>5 DEF Loops
  <1> DEFINE At(k) == \E b2, at : Sweeping(d, b, q, t, now, loop[k], b2, at, MaxOrders - k)
             S == {n \in Nat : n <= MaxOrders => At(n)}
  <1>7. At(0)
    <2>1. \E b2 : Swept(d, b, q, t, now, loop[0], b2)
      BY <1>2, <1>5
    <2> DEFINE a == LoopStart(d, start, 0)
    <2>2. a.self = d /\ a.at = start /\ a.previous = 0 /\ a.processed = FALSE /\ a.reverted = FALSE
      BY DEF LoopStart
    <2>3. loop[0] = a
      BY <1>6
    <2>4. a \in LoopStates
      BY <2>1, <2>3 DEF Swept
    <2> HIDE DEF a
    <2>5. Swept(d, b, q, t, now, a, b)
      <3>1. \A x \in 0 .. MaxOrders : SameOrder(d.orders[x], d.orders[x])
        BY DEF SameOrder
      <3>2. QED
        BY <1>4, <2>2, <2>4, <3>1 DEF Swept
    <2>6. Before1(s, 1) = 0 /\ Len(s) + 1 - 1 <= MaxOrders - 0 /\ \A n \in 1 .. Len(s) : ~(n < 1)
      BY <1>2 DEF Before1
    <2>7. Sweeping(d, b, q, t, now, a, b, 1, MaxOrders - 0)
      BY <1>3, <2>2, <2>5, <2>6 DEF Sweeping
    <2>8. QED
      BY <2>3, <2>7
  <1>8. ASSUME NEW n \in Nat, n \in S
        PROVE  n + 1 \in S
    <2> SUFFICES ASSUME n + 1 <= MaxOrders
                 PROVE  At(n + 1)
      OBVIOUS
    <2>1. /\ n + 1 \in 0 .. MaxOrders /\ n + 1 # 0 /\ n + 1 - 1 = n /\ n <= MaxOrders
          /\ MaxOrders - (n + 1) \in Nat /\ MaxOrders - n = MaxOrders - (n + 1) + 1
      BY <1>2
    <2>2. PICK b2, at : Sweeping(d, b, q, t, now, loop[n], b2, at, MaxOrders - (n + 1) + 1)
      BY <1>8, <2>1
    <2>3. loop[n + 1] = ExpireIteration(loop[n], now)
      BY <1>6, <2>1
    <2> DEFINE left == MaxOrders - (n + 1)
    <2>4. Sweeping(d, b, q, t, now, loop[n], b2, at, left + 1) /\ left \in Nat
      BY <2>1, <2>2
    <2> HIDE DEF left
    <2>5. \E b3, at3 : Sweeping(d, b, q, t, now, ExpireIteration(loop[n], now), b3, at3, left)
      BY <2>4, SweepGoesOn
    <2>6. QED
      BY <2>3, <2>5 DEF left
  <1> HIDE DEF At
  <1>9. 0 \in S
    BY <1>7
  <1> HIDE DEF S
  <1>10. Nat \subseteq S
    BY <1>8, <1>9, NaturalInduction
  <1>11. At(MaxOrders)
    BY <1>2, <1>10 DEF S
  <1>12. PICK b2, at : Sweeping(d, b, q, t, now, end, b2, at, MaxOrders - MaxOrders)
    BY <1>6, <1>11 DEF At
  <1> HIDE DEF end
  <1>13. /\ Swept(d, b, q, t, now, end, b2) /\ ~end.reverted /\ at \in 1 .. Len(b2[t]) + 1
         /\ \A n \in 1 .. Len(b2[t]) : n < at => ~isExpired(d.orders[b2[t][n]], now)
         /\ Len(b2[t]) + 1 - at <= 0
    BY <1>2, <1>12 DEF Sweeping
  <1>14. b2[t] \in Seq(Ids)
    BY <1>13, GoodFacts DEF Swept
  <1>15. \A n \in 1 .. Len(b2[t]) : n < at
    <2>1. Len(b2[t]) \in Nat
      BY <1>14, Places
    <2>2. QED
      BY <1>13, <2>1
  <1>16. \A x \in In(b2[t]) : ~isExpired(d.orders[x], now)
    BY <1>13, <1>14, <1>15, Places
  <1>17. /\ end.processed <=> In(b2[t]) # In(s)
         /\ In(b2[t]) \subseteq In(s)
         /\ \A x \in In(s) : x \notin In(b2[t]) => isExpired(d.orders[x], now)
    BY <1>13 DEF Swept
  <1>18. end.processed <=> \E x \in In(s) : isExpired(d.orders[x], now)
    BY <1>16, <1>17
  <1>19. QED
    BY <1>13, <1>18 DEF end, start

-----------------------------------------------------------------------------
(* The invariant. *)

Books(d) == [t \in OrderTypes |-> ListOf(d, d.firstId[t])]
Queues(d) == [t \in OrderTypes |-> QueueOf(d, t)]

\* The Data is well linked; the ids it uses were given; nobody waits between two ticks, and no order
\* expires while it waits.
IInv ==
    /\ tickStage \in {"RECEIVING_ORDERS", "RUNNING_MATCHING", "MOVING_PENDING_ORDERS"}
    /\ tick \in Nat
    /\ lastOrderId \in 0 .. MaxOrders
    /\ Good(data, Books(data), Queues(data), {})
    /\ \A x \in Ids : data.orders[x].id # 0 => x <= lastOrderId
    /\ tickStage = "RECEIVING_ORDERS" => \A t \in OrderTypes : Queues(data)[t] = <<>>
    /\ \A t \in OrderTypes : \A x \in In(Queues(data)[t]) : ~isExpired(data.orders[x], tick)

\* Good looks at the lists of the two types only.
LEMMA SameLists ==
    ASSUME NEW d, NEW b, NEW q, NEW F, NEW b2, NEW q2, Good(d, b, q, F),
           \A t \in OrderTypes : b2[t] = b[t] /\ q2[t] = q[t]
    PROVE  Good(d, b2, q2, F)
  BY DEF Good, Covered

\* The lists of a good Data are what is read from it.
LEMMA ReadLists ==
    ASSUME NEW d, NEW b, NEW q, Good(d, b, q, {})
    PROVE  /\ Good(d, Books(d), Queues(d), {})
           /\ \A t \in OrderTypes : Books(d)[t] = b[t] /\ Queues(d)[t] = q[t]
  <1>1. \A t \in OrderTypes : Books(d)[t] = b[t] /\ Queues(d)[t] = q[t]
    BY ListsAre DEF Books, Queues
  <1>2. QED
    BY <1>1, SameLists

\* The invariant of a state that is described by its lists.
LEMMA KeepsIInv ==
    ASSUME NEW b, NEW q, Good(data', b, q, {}),
           tickStage' \in {"RECEIVING_ORDERS", "RUNNING_MATCHING", "MOVING_PENDING_ORDERS"},
           tick' \in Nat, lastOrderId' \in 0 .. MaxOrders,
           \A x \in Ids : data'.orders[x].id # 0 => x <= lastOrderId',
           tickStage' = "RECEIVING_ORDERS" => \A t \in OrderTypes : q[t] = <<>>,
           \A t \in OrderTypes : \A x \in In(q[t]) : ~isExpired(data'.orders[x], tick')
    PROVE  IInv'
  <1>1. Good(data', Books(data'), Queues(data'), {}) /\ \A t \in OrderTypes : Queues(data')[t] = q[t]
    BY ReadLists
  <1>2. tickStage' = "RECEIVING_ORDERS" => \A t \in OrderTypes : Queues(data')[t] = <<>>
    BY <1>1
  <1>3. \A t \in OrderTypes : \A x \in In(Queues(data')[t]) : ~isExpired(data'.orders[x], tick')
    BY <1>1
  <1>4. QED
    BY <1>1, <1>2, <1>3 DEF IInv

-----------------------------------------------------------------------------
(* What the actions do to the lists. *)

\* The order x was stored with these fields; the others are what they were.
Stores(id, t, price, expires) ==
    /\ SameOrder(data'.orders[id], Created(t, id, price, expires))
    /\ \A x \in 0 .. MaxOrders : x # id => SameOrder(data'.orders[x], data.orders[x])

\* A new id.
LEMMA NewId ==
    ASSUME IInv, NextOrderId
    PROVE  /\ lastOrderId' \in Ids /\ lastOrderId' \in 0 .. MaxOrders /\ data.orders[lastOrderId'] = NullOrder
           /\ \A x \in Ids : data.orders[x].id # 0 => x < lastOrderId'
  <1>1. lastOrderId \in 0 .. MaxOrders /\ lastOrderId < MaxOrders /\ lastOrderId' = lastOrderId + 1 /\ MaxOrders \in Nat
    BY OrderBookAssumption DEF IInv, NextOrderId
  <1>2. lastOrderId' \in Ids /\ lastOrderId' \in 0 .. MaxOrders /\ lastOrderId' \in Nat \ {0} /\ ~(lastOrderId' <= lastOrderId)
    BY <1>1 DEF Ids
  <1>3. \A x \in Ids : data.orders[x].id # 0 => x <= lastOrderId
    BY DEF IInv
  <1>4. \A x \in Ids : x <= lastOrderId => x < lastOrderId'
    BY <1>1 DEF Ids
  <1>5. data.orders[lastOrderId'].id = 0
    BY <1>2, <1>3
  <1>6. Good(data, Books(data), Queues(data), {})
    BY DEF IInv
  <1>7. data.orders[lastOrderId'] = NullOrder
    BY <1>2, <1>5, <1>6 DEF Good, Covered
  <1>8. QED
    BY <1>2, <1>3, <1>4, <1>7

\* The orders of the lists have smaller ids.
LEMMA ListedAreOlder ==
    ASSUME NEW d, NEW b, NEW q, Good(d, b, q, {}), NEW t \in OrderTypes, NEW id,
           \A x \in Ids : d.orders[x].id # 0 => x < id
    PROVE  \A x \in In(b[t]) \union In(q[t]) : x < id
  <1>1. \A x \in In(b[t]) \union In(q[t]) : x \in Ids /\ d.orders[x].id = x
    BY Apart
  <1>2. \A x \in Ids : x # 0
    BY OrderBookAssumption DEF Ids
  <1>3. QED
    BY <1>1, <1>2

\* An order that is inserted between two ticks enters its book at its place.
LEMMA InsertEffect ==
    ASSUME IInv, NEW t \in OrderTypes, NEW price \in Prices, NEW lifespan \in Lifespans, NEW hint \in 0 .. NO_HINT,
           InsertOrder(t, price, lifespan, hint)
    PROVE  \E at : /\ Spot(data.orders, Books(data)[t], price, at)
                   /\ Good(data', BooksWith(Books(data), t, Inserted(Books(data)[t], at, lastOrderId')), Queues(data), {})
                   /\ Stores(lastOrderId', t, price, tick + lifespan)
                   /\ data' = LET created == createOrder(data, t, lastOrderId', price, tick + lifespan)
                              IN  positionOrder(created, t, lastOrderId', Before1(Books(data)[t], at))
  <1> DEFINE id == lastOrderId'
             b == Books(data)
             q == Queues(data)
             s == b[t]
             expires == tick + lifespan
             created == createOrder(data, t, id, price, expires)
             previousId == IF hint = NO_HINT THEN findPreviousOrderToPrice(data, t, price) ELSE hint
  <1>1. /\ id \in Ids /\ id \in 0 .. MaxOrders /\ data.orders[id] = NullOrder
        /\ \A x \in Ids : data.orders[x].id # 0 => x < id
    BY NewId DEF InsertOrder
  <1>2. Good(data, b, q, {}) /\ q[t] = <<>> /\ tick \in Nat
    BY DEF IInv, InsertOrder
  <1>3. price \in Nat /\ expires \in Nat
    BY <1>2, LinkedBookAssumption
  <1>4. validatePreviousOrder(data, t, price, previousId) /\ data' = positionOrder(created, t, id, previousId)
    BY DEF InsertOrder
  <1>5. In(q[t]) = {}
    BY <1>2 DEF In
  <1>6. s \in Seq(Ids)
    BY <1>2, GoodFacts
  <1> HIDE DEF b, q
  <1>7. PICK at : Spot(data.orders, s, price, at) /\ previousId = Before1(s, at)
    <2>1. CASE hint = NO_HINT
      <3>1. \E at : Spot(data.orders, s, price, at) /\ findPreviousOrderToPrice(data, t, price) = Before1(s, at)
        BY <1>2, <1>3, FindIsSpot
      <3>2. QED
        BY <2>1, <3>1
    <2>2. CASE hint # NO_HINT
      <3>1. hint \in 0 .. MaxOrders
        BY <2>2, OrderBookAssumption DEF NO_HINT
      <3>2. validatePreviousOrder(data, t, price, hint)
        BY <1>4, <2>2
      <3>3. hint \notin In(q[t]) /\ hint \notin {}
        BY <1>5
      <3>4. \E at : Spot(data.orders, s, price, at) /\ hint = Before1(s, at)
        BY <1>2, <1>3, <3>1, <3>2, <3>3, HintIsSpot
      <3>5. QED
        BY <2>2, <3>4
    <2>3. QED
      BY <2>1, <2>2
  <1> HIDE DEF created, previousId, expires, id
  <1>8. /\ Good(created, b, q, {id})
        /\ created.orders[id] = Created(t, id, price, expires)
        /\ \A x \in 0 .. MaxOrders : x # id => created.orders[x] = data.orders[x]
    <2>1. created = createOrder(data, t, id, price, expires)
      BY DEF created
    <2>2. Good(data, b, q, {})
      BY <1>2
    <2>3. id \in Ids
      BY <1>1
    <2>4. data.orders[id] = NullOrder
      BY <1>1
    <2>5. expires \in Nat
      BY <1>3
    <2>6. HasCreated(data, created, b, q, t, id, price, expires)
      BY <2>1, <2>2, <2>3, <2>4, <2>5, CreateIsGood
    <2>7. QED
      BY <2>6 DEF HasCreated
  <1>9. created.orders[id].price = price /\ created.orders[id].orderType = t
    BY <1>8 DEF Created
  <1>10. \A x \in In(s) \union In(q[t]) : x < id /\ x # id /\ x \in 0 .. MaxOrders
    <2>1. \A x \in In(s) \union In(q[t]) : x < id
      BY <1>1, <1>2, ListedAreOlder
    <2>2. \A x \in In(s) \union In(q[t]) : x \in Ids /\ x \notin {id}
      BY <1>8, Apart
    <2>3. \A x \in Ids : x \in 0 .. MaxOrders
      BY OrderBookAssumption DEF Ids
    <2>4. QED
      BY <2>1, <2>2, <2>3
  <1>11. Spot(created.orders, s, created.orders[id].price, at)
    <2>1. \A x \in In(s) : created.orders[x].price = data.orders[x].price
      BY <1>8, <1>10
    <2>2. Spot(created.orders, s, price, at)
      BY <1>6, <1>7, <2>1, SpotFrame
    <2>3. QED
      BY <1>9, <2>2
  <1> DEFINE b2 == BooksWith(b, t, Inserted(s, at, id))
  <1>12. b2[t] = Inserted(s, at, id) /\ \A u \in OrderTypes : u # t => b2[u] = b[u]
    BY DEF BooksWith
  <1> HIDE DEF b2
  <1>13. /\ Good(data', b2, q, {})
         /\ \A x \in 0 .. MaxOrders : SameOrder(data'.orders[x], created.orders[x])
    <2>1. data' = positionOrder(created, t, id, Before1(s, at))
      BY <1>4, <1>7
    <2>2. \A j \in In(q[t]) : id < j
      BY <1>5
    <2>3. \A i \in In(s) : i < id
      BY <1>10
    <2>4. QED
      BY <1>8, <1>9, <1>11, <1>12, <2>1, <2>2, <2>3, PositionIsGood
  <1>14. Stores(id, t, price, expires)
    <2>1. SameOrder(data'.orders[id], Created(t, id, price, expires))
      BY <1>1, <1>8, <1>13
    <2>2. \A x \in 0 .. MaxOrders : x # id => SameOrder(data'.orders[x], data.orders[x])
      BY <1>8, <1>13
    <2>3. QED
      BY <2>1, <2>2 DEF Stores
  <1>15. data' = positionOrder(created, t, id, Before1(s, at))
    BY <1>4, <1>7
  <1>16. QED
    BY <1>7, <1>13, <1>14, <1>15 DEF b2, b, q, created, expires, id

\* The queues with another queue of type t.
QueuesWith(q, t, w) == [u \in OrderTypes |-> IF u = t THEN w ELSE q[u]]

\* An order that is inserted during a tick joins its queue.
LEMMA WaitEffect ==
    ASSUME IInv, NEW t \in OrderTypes, NEW price \in Prices, NEW lifespan \in Lifespans,
           InsertOrderAsPending(t, price, lifespan)
    PROVE  /\ Good(data', Books(data),
                   QueuesWith(Queues(data), t, Inserted(Queues(data)[t], Len(Queues(data)[t]) + 1, lastOrderId')), {})
           /\ Stores(lastOrderId', t, price, tick + lifespan)
  <1> DEFINE id == lastOrderId'
             b == Books(data)
             q == Queues(data)
             expires == tick + lifespan
             created == createOrder(data, t, id, price, expires)
             q2 == QueuesWith(q, t, Inserted(q[t], Len(q[t]) + 1, id))
  <1>1. /\ id \in Ids /\ id \in 0 .. MaxOrders /\ data.orders[id] = NullOrder
        /\ \A x \in Ids : data.orders[x].id # 0 => x < id
    BY NewId DEF InsertOrderAsPending
  <1>2. Good(data, b, q, {}) /\ tick \in Nat
    BY DEF IInv
  <1>3. expires \in Nat
    BY <1>2, LinkedBookAssumption
  <1>4. data' = positionOrderAsPending(created, t, id)
    BY DEF InsertOrderAsPending
  <1>5. q2[t] = Inserted(q[t], Len(q[t]) + 1, id) /\ \A u \in OrderTypes : u # t => q2[u] = q[u]
    BY DEF QueuesWith
  <1> HIDE DEF b, q, q2
  <1>6. \A x \in In(b[t]) \union In(q[t]) : x < id
    BY <1>1, <1>2, ListedAreOlder
  <1> HIDE DEF created, expires, id
  <1>7. HasCreated(data, created, b, q, t, id, price, expires)
    <2>1. created = createOrder(data, t, id, price, expires)
      BY DEF created
    <2>2. Good(data, b, q, {})
      BY <1>2
    <2>3. id \in Ids
      BY <1>1
    <2>4. data.orders[id] = NullOrder
      BY <1>1
    <2>5. QED
      BY <1>3, <2>1, <2>2, <2>3, <2>4, CreateIsGood
  <1>8. /\ Good(created, b, q, {id})
        /\ created.orders[id] = Created(t, id, price, expires)
        /\ \A x \in 0 .. MaxOrders : x # id => created.orders[x] = data.orders[x]
    BY <1>7 DEF HasCreated
  <1>9. created.orders[id].next = 0 /\ created.orders[id].orderType = t
    BY <1>8 DEF Created
  <1>10. /\ Good(data', b, q2, {})
         /\ \A x \in 0 .. MaxOrders : SameOrder(data'.orders[x], created.orders[x])
    BY <1>4, <1>5, <1>6, <1>8, <1>9, AppendIsGood
  <1>11. Stores(id, t, price, expires)
    <2>1. SameOrder(data'.orders[id], Created(t, id, price, expires))
      BY <1>1, <1>8, <1>10
    <2>2. \A x \in 0 .. MaxOrders : x # id => SameOrder(data'.orders[x], data.orders[x])
      BY <1>8, <1>10
    <2>3. QED
      BY <2>1, <2>2 DEF Stores
  <1>12. QED
    BY <1>10, <1>11 DEF q2, b, q, expires, id

\* What is left of the orders is what it was.
Keeps == \A x \in 0 .. MaxOrders : data'.orders[x].id # 0 => SameOrder(data'.orders[x], data.orders[x])

\* The order at the place "at" of the book of type t is removed, and only that one.
RemovesOne(t, at) ==
    /\ at \in 1 .. Len(Books(data)[t])
    /\ Good(data', BooksWith(Books(data), t, Cut(Books(data)[t], at)), Queues(data), {})
    /\ Keeps

\* The removal of an order of a book.
LEMMA RemovalEffect ==
    ASSUME IInv, NEW t \in OrderTypes, NEW at \in 1 .. Len(Books(data)[t]),
           data' = Removed(data, t, Books(data)[t], at)
    PROVE  RemovesOne(t, at)
  <1> DEFINE b == Books(data)
             q == Queues(data)
             b2 == BooksWith(b, t, Cut(b[t], at))
             id == b[t][at]
  <1>1. Good(data, b, q, {})
    BY DEF IInv
  <1>2. b2[t] = Cut(b[t], at) /\ \A u \in OrderTypes : u # t => b2[u] = b[u]
    BY DEF BooksWith
  <1> HIDE DEF b, q, b2
  <1>3. at \in 1 .. Len(b[t]) /\ data' = Removed(data, t, b[t], at)
    BY DEF b
  <1>4. /\ Good(data', b2, q, {})
        /\ data'.orders[id] = NullOrder
        /\ \A x \in 0 .. MaxOrders : x # id => SameOrder(data'.orders[x], data.orders[x])
    BY <1>1, <1>2, <1>3, RemovedIsGood
  <1>5. Keeps
    BY <1>4 DEF Keeps, NullOrder
  <1>6. QED
    BY <1>3, <1>4, <1>5 DEF RemovesOne, b, q, b2

\* A canceled order leaves its book, whatever the hint.
LEMMA CancelEffect ==
    ASSUME IInv, NEW id \in Ids, NEW hint \in 0 .. MaxOrders, CancelOrder(id, hint)
    PROVE  \E t \in OrderTypes : \E at : RemovesOne(t, at) /\ Books(data)[t][at] = id
  <1> DEFINE b == Books(data)
             q == Queues(data)
             t == data.orders[id].orderType
  <1>1. Good(data, b, q, {}) /\ \A u \in OrderTypes : q[u] = <<>>
    BY DEF IInv, CancelOrder
  <1>2. id \in 0 .. MaxOrders /\ data.orders[id].id # 0 /\ id \notin {}
    BY OrderBookAssumption DEF Ids, CancelOrder
  <1>3. CanRemove(data, id, hint) /\ data' = removeOrder(data, id, hint)
    BY DEF CancelOrder
  <1> HIDE DEF b, q
  <1>4. t \in OrderTypes /\ id \in In(b[t]) \union In(q[t])
    BY <1>1, <1>2, StoredIsListed
  <1> HIDE DEF t
  <1>5. id \in In(b[t])
    BY <1>1, <1>4 DEF In
  <1>6. b[t] \in Seq(Ids)
    BY <1>1, <1>4, GoodFacts
  <1>7. PICK at \in 1 .. Len(b[t]) : id = b[t][at]
    BY <1>5, <1>6, Places
  <1>8. data' = Removed(data, t, b[t], at)
    BY <1>1, <1>3, <1>4, <1>7, RemoveIsRemoved
  <1>9. RemovesOne(t, at)
    BY <1>4, <1>8, RemovalEffect DEF b
  <1>10. QED
    BY <1>4, <1>7, <1>9 DEF b

\* A pop takes the first order.
LEMMA PopEffect ==
    ASSUME IInv, NEW t \in OrderTypes, PopMostCompetitive(t)
    PROVE  RemovesOne(t, 1)
  <1> DEFINE b == Books(data)
             q == Queues(data)
  <1>1. Good(data, b, q, {})
    BY DEF IInv
  <1>2. data.orders[data.firstId[t]].id # 0 /\ data' = PopFirst(data, t)
    BY DEF PopMostCompetitive
  <1> HIDE DEF b, q
  <1>3. b[t] \in Seq(Ids) /\ data.firstId[t] = First(b[t]) /\ data.orders[0] = NullOrder
    BY <1>1, GoodFacts
  <1>4. b[t] # <<>>
    BY <1>2, <1>3 DEF First, NullOrder
  <1>5. data' = Removed(data, t, b[t], 1)
    BY <1>1, <1>2, <1>4, PopIsRemoved
  <1>6. 1 \in 1 .. Len(b[t])
    BY <1>3, <1>4, Places
  <1>7. QED
    BY <1>5, <1>6, RemovalEffect DEF b

\* Some expired orders of the book of type t are removed, and no others; b2 are the books that are left.
RemovesExpired(t, b2) ==
    /\ Good(data', b2, Queues(data), {})
    /\ \A u \in OrderTypes : u # t => b2[u] = Books(data)[u]
    /\ In(b2[t]) \subseteq In(Books(data)[t])
    /\ In(b2[t]) # In(Books(data)[t])
    /\ \A x \in In(Books(data)[t]) : x \notin In(b2[t]) => isExpired(data.orders[x], tick)
    /\ Keeps

\* processExpired removes expired orders of a book.
LEMMA ExpireEffect ==
    ASSUME IInv, NEW t \in OrderTypes, NEW id \in 0 .. MaxOrders, NEW hint \in 0 .. MaxOrders, NEW steps \in 1 .. MaxSteps,
           ProcessExpired(t, id, hint, steps)
    PROVE  \E b2 : RemovesExpired(t, b2)
  <1> DEFINE b == Books(data)
             q == Queues(data)
             start == IF id = 0 THEN data.firstId[t] ELSE id
             end == ExpireLoop(data, tick, start, hint, steps)
  <1>1. Good(data, b, q, {}) /\ \A x \in In(q[t]) : ~isExpired(data.orders[x], tick)
    BY DEF IInv
  <1>2. /\ data.orders[start].id # 0 => data.orders[start].orderType = t
        /\ end.processed /\ data' = end.self
    BY DEF ProcessExpired
  <1>3. start \in 0 .. MaxOrders
    <2>1. data.firstId[t] \in 0 .. MaxOrders
      BY <1>1 DEF Good, DataRecords
    <2>2. QED
      BY <2>1
  <1>4. steps \in Nat /\ steps \in 0 .. steps
    BY LinkedBookAssumption
  <1> HIDE DEF b, q, start, end
  <1>5. PICK loop : /\ Loops(loop, data, tick, start, hint, steps)
                    /\ \A k \in 0 .. steps : \E b2 : Swept(data, b, q, t, tick, loop[k], b2)
    BY <1>1, <1>2, <1>3, <1>4, LoopIsSwept
  <1>6. end = loop[steps]
    BY <1>5 DEF Loops, end
  <1>7. PICK b2 : Swept(data, b, q, t, tick, end, b2)
    BY <1>4, <1>5, <1>6
  <1>8. /\ Good(end.self, b2, q, {})
        /\ \A u \in OrderTypes : u # t => b2[u] = b[u]
        /\ In(b2[t]) \subseteq In(b[t])
        /\ \A x \in In(b[t]) : x \notin In(b2[t]) => isExpired(data.orders[x], tick)
        /\ end.processed <=> In(b2[t]) # In(b[t])
        /\ \A x \in 0 .. MaxOrders : end.self.orders[x].id # 0 => SameOrder(end.self.orders[x], data.orders[x])
    BY <1>7 DEF Swept
  <1>9. Keeps
    BY <1>2, <1>8 DEF Keeps
  <1>10. RemovesExpired(t, b2)
    BY <1>2, <1>8, <1>9 DEF RemovesExpired, b, q
  <1>11. QED
    BY <1>10

\* The oldest order of the queue of type t enters its book at the place "at".
Moves(t, at) ==
    /\ Queues(data)[t] # <<>>
    /\ Spot(data.orders, Books(data)[t], data.orders[Queues(data)[t][1]].price, at)
    /\ Good(data', BooksWith(Books(data), t, Inserted(Books(data)[t], at, Queues(data)[t][1])),
            QueuesWith(Queues(data), t, Tail(Queues(data)[t])), {})
    /\ \A x \in 0 .. MaxOrders : SameOrder(data'.orders[x], data.orders[x])
    /\ Queues(data)[t][1] = data.firstPending[t]
    /\ data' = positionOrder(PopPending(data, t), t, data.firstPending[t], Before1(Books(data)[t], at))

\* IsPending says who is in a queue.
LEMMA PendingIsQueued ==
    ASSUME IInv, NEW t \in OrderTypes, NEW x \in In(Queues(data)[t])
    PROVE  IsPending(x)
  <1> DEFINE w == Queues(data)[t]
  <1>1. Good(data, Books(data), Queues(data), {})
    BY DEF IInv
  <1>2. w \in Seq(Ids) /\ data.pendings[t] = Len(w) /\ QueueOf(data, t) = w
    BY <1>1, GoodFacts, ListsAre
  <1> HIDE DEF w
  <1>3. PICK n \in 1 .. Len(w) : w[n] = x
    <2>1. x \in In(w)
      BY DEF w
    <2>2. QED
      BY <1>2, <2>1, Places
  <1>4. w[n] = Follow(data, data.firstPending[t])[n - 1]
    BY <1>2 DEF QueueOf
  <1>5. n - 1 \in 0 .. data.pendings[t] /\ n - 1 < data.pendings[t]
    <2>1. \A l \in Nat : \A m \in 1 .. l : m - 1 \in 0 .. l /\ m - 1 < l
      OBVIOUS
    <2>2. Len(w) \in Nat
      BY <1>2
    <2>3. QED
      BY <1>2, <2>1, <2>2
  <1>6. QED
    BY <1>3, <1>4, <1>5 DEF IsPending

\* A pending order that is moved enters its book at its place.
LEMMA MoveEffect ==
    ASSUME IInv, HintsInBook, NEW t \in OrderTypes, NEW hint \in 0 .. NO_HINT, MovePendingOrder(t, hint)
    PROVE  \E at : Moves(t, at)
  <1> DEFINE b == Books(data)
             q == Queues(data)
             id == data.firstPending[t]
             price == data.orders[id].price
             popped == PopPending(data, t)
             previousId == IF hint = NO_HINT THEN findPreviousOrderToPrice(popped, t, price) ELSE hint
             q2 == QueuesWith(q, t, Tail(q[t]))
  <1>1. Good(data, b, q, {})
    BY DEF IInv
  <1>2. /\ data.pendings[t] # 0
        /\ hint = NO_HINT \/ ~IsPending(hint)
        /\ hint # NO_HINT => validatePreviousOrder(popped, t, price, hint)
        /\ data' = positionOrder(popped, t, id, previousId)
    BY DEF MovePendingOrder
  <1>3. \A u \in OrderTypes : \A x \in In(q[u]) : IsPending(x)
    BY PendingIsQueued
  <1>4. q2[t] = Tail(q[t]) /\ \A u \in OrderTypes : u # t => q2[u] = q[u]
    BY DEF QueuesWith
  <1> HIDE DEF b, q, q2
  <1>5. q[t] \in Seq(Ids) /\ data.pendings[t] = Len(q[t]) /\ b[t] \in Seq(Ids) /\ data.orders \in [0 .. MaxOrders -> OrderRecords]
    BY <1>1, GoodFacts
  <1>6. q[t] # <<>>
    BY <1>2, <1>5, Places
  <1>7. /\ Good(popped, b, q2, {q[t][1]})
        /\ popped.orders = data.orders
        /\ q[t][1] = id /\ id \in Ids /\ data.orders[id].orderType = t
        /\ \A i \in In(b[t]) : i < id
        /\ \A j \in In(q2[t]) : id < j
    <2>1. PICK first : first = q[t][1]
      OBVIOUS
    <2>2. PICK e : e = popped
      OBVIOUS
    <2>3. IsPopped(data, e, b, q2, t, first)
      BY <1>1, <1>4, <1>6, <2>1, <2>2, PopPendingIsGood
    <2> HIDE DEF popped
    <2>4. QED
      BY <2>1, <2>2, <2>3 DEF IsPopped
  <1>8. price \in Nat
    <2>1. id \in 0 .. MaxOrders
      BY <1>7, OrderBookAssumption DEF Ids
    <2>2. QED
      BY <1>5, <2>1, PriceIsNat
  <1>9. In(q2[t]) \subseteq In(q[t]) /\ q[t][1] \in In(q[t])
    <2>1. Distinct(q[t])
      BY <1>1, GoodFacts
    <2>2. QED
      BY <1>4, <1>5, <1>6, <2>1, TailList
  <1> HIDE DEF popped, previousId, id, price
  <1>10. PICK at : Spot(popped.orders, b[t], price, at) /\ previousId = Before1(b[t], at)
    <2>1. CASE hint = NO_HINT
      <3>1. \E at : Spot(popped.orders, b[t], price, at) /\ findPreviousOrderToPrice(popped, t, price) = Before1(b[t], at)
        BY <1>7, <1>8, FindIsSpot
      <3>2. QED
        BY <2>1, <3>1 DEF previousId
    <2>2. CASE hint # NO_HINT
      <3>1. hint \in 0 .. MaxOrders
        BY <2>2, OrderBookAssumption DEF NO_HINT
      <3>2. validatePreviousOrder(popped, t, price, hint)
        BY <1>2, <2>2
      <3>3. hint \notin In(q2[t]) /\ hint \notin {q[t][1]}
        BY <1>2, <1>3, <1>9, <2>2
      <3>4. \E at : Spot(popped.orders, b[t], price, at) /\ hint = Before1(b[t], at)
        BY <1>7, <1>8, <3>1, <3>2, <3>3, HintIsSpot
      <3>5. QED
        BY <2>2, <3>4 DEF previousId
    <2>3. QED
      BY <2>1, <2>2
  <1> DEFINE b2 == BooksWith(b, t, Inserted(b[t], at, id))
  <1>11. b2[t] = Inserted(b[t], at, id) /\ \A u \in OrderTypes : u # t => b2[u] = b[u]
    BY DEF BooksWith
  <1> HIDE DEF b2
  <1>12. data' = positionOrder(popped, t, id, Before1(b[t], at))
    BY <1>2, <1>10
  <1>13. popped.orders[id].price = price /\ popped.orders[id].orderType = t
    BY <1>7 DEF price
  <1>14. /\ Good(data', b2, q2, {})
         /\ \A x \in 0 .. MaxOrders : SameOrder(data'.orders[x], popped.orders[x])
    <2>1. Good(popped, b, q2, {id})
      BY <1>7
    <2>2. Spot(popped.orders, b[t], popped.orders[id].price, at)
      BY <1>10, <1>13
    <2>3. QED
      BY <1>7, <1>11, <1>12, <1>13, <2>1, <2>2, PositionIsGood
  <1>15. Spot(data.orders, b[t], data.orders[q[t][1]].price, at)
    BY <1>7, <1>10 DEF price
  <1>16. Moves(t, at)
    BY <1>6, <1>7, <1>12, <1>14, <1>15 DEF Moves, b2, q2, b, q, id, popped
  <1>17. QED
    BY <1>16

-----------------------------------------------------------------------------
(* The invariant is kept. *)

\* An insertion between two ticks keeps it.
LEMMA InsertKeepsIInv ==
    ASSUME IInv, NEW t \in OrderTypes, NEW price \in Prices, NEW lifespan \in Lifespans, NEW hint \in 0 .. NO_HINT,
           InsertOrder(t, price, lifespan, hint)
    PROVE  IInv'
  <1> DEFINE q == Queues(data)
             id == lastOrderId'
  <1>1. PICK at : /\ Good(data', BooksWith(Books(data), t, Inserted(Books(data)[t], at, id)), q, {})
                  /\ Stores(id, t, price, tick + lifespan)
    BY InsertEffect
  <1>2. /\ tickStage = "RECEIVING_ORDERS" /\ tickStage' = tickStage /\ tick' = tick
        /\ tick \in Nat /\ \A u \in OrderTypes : q[u] = <<>>
    BY DEF InsertOrder, IInv
  <1>3. id \in 0 .. MaxOrders /\ \A x \in Ids : data.orders[x].id # 0 => x < id
    BY NewId DEF InsertOrder
  <1>4. \A x \in Ids : data'.orders[x].id # 0 => x <= id
    <2>1. \A x \in Ids : x \in 0 .. MaxOrders /\ (x < id => x <= id) /\ (x = id => x <= id)
      BY <1>3, OrderBookAssumption DEF Ids
    <2>2. \A x \in 0 .. MaxOrders : x # id => data'.orders[x].id = data.orders[x].id
      BY <1>1 DEF Stores, SameOrder
    <2>3. QED
      BY <1>3, <2>1, <2>2
  <1>5. \A u \in OrderTypes : \A x \in In(q[u]) : ~isExpired(data'.orders[x], tick')
    BY <1>2 DEF In
  <1> HIDE DEF q, id
  <1>6. QED
    <2>1. id = lastOrderId'
      BY DEF id
    <2>2. PICK b2 : Good(data', b2, q, {})
      BY <1>1
    <2>3. lastOrderId' \in 0 .. MaxOrders /\ \A x \in Ids : data'.orders[x].id # 0 => x <= lastOrderId'
      BY <1>3, <1>4, <2>1
    <2>4. tickStage' = "RECEIVING_ORDERS" => \A u \in OrderTypes : q[u] = <<>>
      BY <1>2
    <2>5. tickStage' \in {"RECEIVING_ORDERS", "RUNNING_MATCHING", "MOVING_PENDING_ORDERS"} /\ tick' \in Nat
      BY <1>2
    <2>6. QED
      BY <1>5, <2>2, <2>3, <2>4, <2>5, KeepsIInv

\* An insertion during a tick keeps it: no order expires in the tick it is inserted in.
LEMMA WaitKeepsIInv ==
    ASSUME IInv, 0 \notin Lifespans, NEW t \in OrderTypes, NEW price \in Prices, NEW lifespan \in Lifespans,
           InsertOrderAsPending(t, price, lifespan)
    PROVE  IInv'
  <1> DEFINE q == Queues(data)
             id == lastOrderId'
             w == Inserted(q[t], Len(q[t]) + 1, id)
             q2 == QueuesWith(q, t, w)
  <1>1. Good(data', Books(data), q2, {}) /\ Stores(id, t, price, tick + lifespan)
    BY WaitEffect
  <1>2. /\ tickStage # "RECEIVING_ORDERS" /\ tickStage' = tickStage /\ tick' = tick /\ tick \in Nat
        /\ tickStage' \in {"RECEIVING_ORDERS", "RUNNING_MATCHING", "MOVING_PENDING_ORDERS"}
    BY DEF InsertOrderAsPending, IInv
  <1>3. /\ id \in Ids /\ id \in 0 .. MaxOrders
        /\ \A x \in Ids : data.orders[x].id # 0 => x < id
    BY NewId DEF InsertOrderAsPending
  <1>4. \A x \in Ids : data'.orders[x].id # 0 => x <= id
    <2>1. \A x \in Ids : x \in 0 .. MaxOrders /\ (x < id => x <= id) /\ (x = id => x <= id)
      BY <1>3, OrderBookAssumption DEF Ids
    <2>2. \A x \in 0 .. MaxOrders : x # id => data'.orders[x].id = data.orders[x].id
      BY <1>1 DEF Stores, SameOrder
    <2>3. QED
      BY <1>3, <2>1, <2>2
  <1>5. Good(data, Books(data), q, {}) /\ \A u \in OrderTypes : \A x \in In(q[u]) : ~isExpired(data.orders[x], tick)
    BY DEF IInv
  <1>6. q2[t] = w /\ \A u \in OrderTypes : u # t => q2[u] = q[u]
    BY DEF QueuesWith
  <1> HIDE DEF q, id
  <1>7. \A u \in OrderTypes : \A x \in In(q[u]) : x < id /\ x # id /\ x \in 0 .. MaxOrders
    <2>1. \A u \in OrderTypes : \A x \in In(q[u]) : x < id
      <3> SUFFICES ASSUME NEW u \in OrderTypes PROVE \A x \in In(q[u]) : x < id
        OBVIOUS
      <3>1. \A x \in In(Books(data)[u]) \union In(q[u]) : x < id
        BY <1>3, <1>5, ListedAreOlder
      <3>2. QED
        BY <3>1
    <2>2. \A u \in OrderTypes : \A x \in In(q[u]) : x \in Ids
      BY <1>5, Apart
    <2>3. \A x \in Ids : x \in 0 .. MaxOrders /\ ~(id < id)
      BY <1>3, OrderBookAssumption DEF Ids
    <2>4. QED
      BY <1>3, <2>1, <2>2, <2>3
  <1>8. In(w) = In(q[t]) \union {id}
    <2>1. q[t] \in Seq(Ids) /\ Distinct(q[t])
      BY <1>5, GoodFacts
    <2>2. id \notin In(q[t])
      BY <1>7
    <2>3. Len(q[t]) + 1 \in 1 .. Len(q[t]) + 1
      BY <2>1
    <2> HIDE DEF w
    <2>4. w = Inserted(q[t], Len(q[t]) + 1, id)
      BY DEF w
    <2>5. QED
      BY <1>3, <2>1, <2>2, <2>3, <2>4, InsertedPlaces
  <1> HIDE DEF w, q2
  <1>9. ~isExpired(data'.orders[id], tick)
    <2>1. data'.orders[id].expiresInTick = tick + lifespan
      BY <1>1 DEF Stores, SameOrder, Created
    <2>2. lifespan \in Nat \ {0}
      BY LinkedBookAssumption
    <2>3. QED
      BY <1>2, <2>1, <2>2 DEF isExpired
  <1>10. \A u \in OrderTypes : \A x \in In(q[u]) : ~isExpired(data'.orders[x], tick)
    <2>1. \A x \in 0 .. MaxOrders : x # id => data'.orders[x].expiresInTick = data.orders[x].expiresInTick
      BY <1>1 DEF Stores, SameOrder
    <2>2. QED
      BY <1>5, <1>7, <2>1 DEF isExpired
  <1>11. \A u \in OrderTypes : \A x \in In(q2[u]) : ~isExpired(data'.orders[x], tick')
    BY <1>2, <1>6, <1>8, <1>9, <1>10
  <1>12. lastOrderId' \in 0 .. MaxOrders /\ \A x \in Ids : data'.orders[x].id # 0 => x <= lastOrderId'
    BY <1>3, <1>4 DEF id
  <1>13. QED
    BY <1>1, <1>2, <1>11, <1>12, KeepsIInv

\* So does whatever takes orders out of the books.
LEMMA ShrinkKeepsIInv ==
    ASSUME IInv, NEW b2, Good(data', b2, Queues(data), {}), Keeps, UNCHANGED <<tickStage, tick, lastOrderId>>
    PROVE  IInv'
  <1> DEFINE q == Queues(data)
  <1>1. /\ tickStage' \in {"RECEIVING_ORDERS", "RUNNING_MATCHING", "MOVING_PENDING_ORDERS"}
        /\ tick' = tick /\ tick' \in Nat /\ lastOrderId' = lastOrderId /\ lastOrderId' \in 0 .. MaxOrders
        /\ tickStage' = "RECEIVING_ORDERS" => \A t \in OrderTypes : q[t] = <<>>
    BY DEF IInv
  <1>2. /\ \A t \in OrderTypes : \A x \in In(q[t]) : ~isExpired(data.orders[x], tick)
        /\ \A x \in Ids : data.orders[x].id # 0 => x <= lastOrderId
    BY DEF IInv
  <1> HIDE DEF q
  <1>3. Good(data', b2, q, {})
    BY DEF q
  <1>4. \A x \in Ids : x \in 0 .. MaxOrders /\ x # 0
    BY OrderBookAssumption DEF Ids
  <1>5. \A x \in Ids : data'.orders[x].id # 0 =>
            data'.orders[x].id = data.orders[x].id /\ data'.orders[x].expiresInTick = data.orders[x].expiresInTick
    BY <1>4 DEF Keeps, SameOrder
  <1>6. \A x \in Ids : data'.orders[x].id # 0 => x <= lastOrderId'
    BY <1>1, <1>2, <1>5
  <1>7. \A t \in OrderTypes : \A x \in In(q[t]) : x \in Ids /\ data'.orders[x].id = x
    BY <1>3, Apart
  <1>8. \A t \in OrderTypes : \A x \in In(q[t]) : ~isExpired(data'.orders[x], tick')
    BY <1>1, <1>2, <1>4, <1>5, <1>7 DEF isExpired
  <1>9. QED
    BY <1>1, <1>3, <1>6, <1>8, KeepsIInv

\* And the move of a pending order.
LEMMA MoveKeepsIInv ==
    ASSUME IInv, HintsInBook, NEW t \in OrderTypes, NEW hint \in 0 .. NO_HINT, MovePendingOrder(t, hint)
    PROVE  IInv'
  <1> DEFINE q == Queues(data)
             w == Tail(q[t])
             q2 == QueuesWith(q, t, w)
  <1>1. PICK at : Moves(t, at)
    BY MoveEffect
  <1>2. /\ Good(data', BooksWith(Books(data), t, Inserted(Books(data)[t], at, q[t][1])), q2, {})
        /\ q[t] # <<>>
        /\ \A x \in 0 .. MaxOrders : SameOrder(data'.orders[x], data.orders[x])
    BY <1>1 DEF Moves
  <1>3. /\ tickStage' = "MOVING_PENDING_ORDERS" /\ tick' = tick /\ tick' \in Nat
        /\ lastOrderId' = lastOrderId /\ lastOrderId' \in 0 .. MaxOrders
    BY DEF IInv, MovePendingOrder
  <1>4. /\ Good(data, Books(data), q, {})
        /\ \A u \in OrderTypes : \A x \in In(q[u]) : ~isExpired(data.orders[x], tick)
        /\ \A x \in Ids : data.orders[x].id # 0 => x <= lastOrderId
    BY DEF IInv
  <1>5. q2[t] = w /\ \A u \in OrderTypes : u # t => q2[u] = q[u]
    BY DEF QueuesWith
  <1> HIDE DEF q
  <1>6. In(w) \subseteq In(q[t])
    <2>1. q[t] \in Seq(Ids) /\ Distinct(q[t])
      BY <1>4, GoodFacts
    <2>2. QED
      BY <1>2, <2>1, TailList
  <1> HIDE DEF w, q2
  <1>7. \A x \in Ids : x \in 0 .. MaxOrders
    BY OrderBookAssumption DEF Ids
  <1>8. \A x \in Ids : data'.orders[x].id = data.orders[x].id /\ data'.orders[x].expiresInTick = data.orders[x].expiresInTick
    BY <1>2, <1>7 DEF SameOrder
  <1>9. \A u \in OrderTypes : \A x \in In(q2[u]) : x \in In(q[u])
    BY <1>5, <1>6
  <1>10. \A u \in OrderTypes : \A x \in In(q[u]) : x \in Ids
    BY <1>4, Apart
  <1>11. \A u \in OrderTypes : \A x \in In(q2[u]) : ~isExpired(data'.orders[x], tick')
    BY <1>3, <1>4, <1>8, <1>9, <1>10 DEF isExpired
  <1>12. \A x \in Ids : data'.orders[x].id # 0 => x <= lastOrderId'
    BY <1>3, <1>4, <1>8
  <1>13. PICK b2 : Good(data', b2, q2, {})
    BY <1>2
  <1>14. QED
    BY <1>3, <1>11, <1>12, <1>13, KeepsIInv

\* An empty book.
LEMMA EmptyIsGood ==
    ASSUME NEW e, e = [t \in OrderTypes |-> <<>>]
    PROVE  Good(EmptyData, e, e, {})
  <1> DEFINE d == EmptyData
  <1>1. MaxOrders \in Nat /\ 0 \in 0 .. MaxOrders
    BY OrderBookAssumption
  <1>2. NullOrder \in OrderRecords
    BY <1>1 DEF NullOrder, OrderRecords, OrderTypes
  <1>3. /\ d.orders = [id \in 0 .. MaxOrders |-> NullOrder]
        /\ d.firstId = [t \in OrderTypes |-> 0] /\ d.lengthOf = [t \in OrderTypes |-> 0] /\ d.length = 0
        /\ d.firstPending = [t \in OrderTypes |-> 0] /\ d.lastPending = [t \in OrderTypes |-> 0]
        /\ d.pendings = [t \in OrderTypes |-> 0]
    BY DEF EmptyData
  <1>4. d.orders \in [0 .. MaxOrders -> OrderRecords] /\ [t \in OrderTypes |-> 0] \in [OrderTypes -> 0 .. MaxOrders]
    BY <1>1, <1>2, <1>3
  <1>5. d \in DataRecords
    BY <1>1, <1>3, <1>4 DEF EmptyData, DataRecords
  <1> HIDE DEF d
  <1>6. \A t \in OrderTypes : Half(d, t, e[t], e[t], {})
    <2> SUFFICES ASSUME NEW t \in OrderTypes PROVE Half(d, t, <<>>, <<>>, {})
      OBVIOUS
    <2> DEFINE s == <<>>
    <2>1. s \in Seq(Ids) /\ Len(s) = 0 /\ In(s) = {}
      BY DEF In
    <2>2. \A n : n \notin 1 .. Len(s)
      BY <2>1
    <2>3. DOMAIN s = 1 .. Len(s)
      BY <2>1
    <2>4. First(s) = 0
      BY DEF First
    <2>5. d.firstId[t] = 0 /\ d.lengthOf[t] = 0 /\ d.pendings[t] = 0
      BY <1>3
    <2>6. s = <<>>
      OBVIOUS
    <2> HIDE DEF s
    <2>7. Distinct(s) /\ Increasing(s) /\ Chained(d.orders, s) /\ Ranked(d.orders, s)
      BY <2>2, <2>3 DEF Distinct, Increasing, Chained, Ranked
    <2>8. Owned(d.orders, t, s, s, {})
      BY <2>1 DEF Owned
    <2>9. Half(d, t, s, s, {})
      BY <2>1, <2>4, <2>5, <2>6, <2>7, <2>8 DEF Half
    <2>10. QED
      BY <2>6, <2>9
  <1>7. d.length = d.lengthOf["LIMIT_ORDER"] + d.lengthOf["MARKET_ORDER"]
    <2>1. d.lengthOf["LIMIT_ORDER"] = 0 /\ d.lengthOf["MARKET_ORDER"] = 0 /\ d.length = 0
      BY <1>3 DEF OrderTypes
    <2>2. QED
      BY <2>1
  <1>8. Covered(d.orders, e, e, {})
    BY <1>3 DEF Covered
  <1>9. Good(d, e, e, {})
    BY <1>5, <1>6, <1>7, <1>8 DEF Good, d
  <1>10. QED
    BY <1>9 DEF d

\* It holds at the beginning.
LEMMA InitIInv ==
    ASSUME Init
    PROVE  IInv
  <1> DEFINE e == [t \in OrderTypes |-> <<>>]
  <1>1. data = EmptyData /\ tickStage = "RECEIVING_ORDERS" /\ tick = 1 /\ lastOrderId = 0
    BY DEF Init
  <1>2. Good(data, e, e, {})
    BY <1>1, EmptyIsGood
  <1>3. \A t \in OrderTypes : e[t] = <<>>
    OBVIOUS
  <1> HIDE DEF e
  <1>4. Good(data, Books(data), Queues(data), {}) /\ \A t \in OrderTypes : Queues(data)[t] = <<>>
    BY <1>2, <1>3, ReadLists
  <1>5. \A t \in OrderTypes : \A x \in In(Queues(data)[t]) : ~isExpired(data.orders[x], tick)
    BY <1>4 DEF In
  <1>6. \A x \in Ids : data.orders[x].id = 0
    <2>1. \A x \in Ids : x \in 0 .. MaxOrders
      BY OrderBookAssumption DEF Ids
    <2>2. QED
      BY <1>1, <2>1 DEF EmptyData, NullOrder
  <1>7. tick \in Nat /\ lastOrderId \in 0 .. MaxOrders
    BY <1>1, OrderBookAssumption
  <1>8. QED
    BY <1>1, <1>4, <1>5, <1>6, <1>7 DEF IInv

\* The changes of stage keep it.
LEMMA StageKeepsIInv ==
    ASSUME IInv, BeginMatching \/ BeginMoving \/ FinishTick
    PROVE  IInv'
  <1> DEFINE q == Queues(data)
  <1>1. /\ Good(data, Books(data), q, {}) /\ tick \in Nat /\ lastOrderId \in 0 .. MaxOrders
        /\ \A x \in Ids : data.orders[x].id # 0 => x <= lastOrderId
        /\ \A t \in OrderTypes : \A x \in In(q[t]) : ~isExpired(data.orders[x], tick)
    BY DEF IInv
  <1>2. data' = data /\ lastOrderId' = lastOrderId
    BY DEF BeginMatching, BeginMoving, FinishTick
  <1>3. CASE BeginMatching \/ BeginMoving
    <2>1. tickStage' \in {"RUNNING_MATCHING", "MOVING_PENDING_ORDERS"} /\ tick' = tick
      BY <1>3 DEF BeginMatching, BeginMoving
    <2> HIDE DEF q
    <2>2. QED
      BY <1>1, <1>2, <2>1, KeepsIInv
  <1>4. CASE FinishTick
    <2>1. tickStage' = "RECEIVING_ORDERS" /\ tick' = tick + 1 /\ \A t \in OrderTypes : data.pendings[t] = 0
      BY <1>4 DEF FinishTick
    <2>2. \A t \in OrderTypes : q[t] = <<>>
      <3> SUFFICES ASSUME NEW t \in OrderTypes PROVE q[t] = <<>>
        OBVIOUS
      <3>1. q[t] \in Seq(Ids) /\ data.pendings[t] = Len(q[t])
        BY <1>1, GoodFacts
      <3>2. QED
        BY <2>1, <3>1, Places
    <2>3. \A t \in OrderTypes : \A x \in In(q[t]) : ~isExpired(data'.orders[x], tick')
      BY <2>2 DEF In
    <2>4. tick' \in Nat
      BY <1>1, <2>1
    <2> HIDE DEF q
    <2>5. Good(data', Books(data), q, {}) /\ lastOrderId' \in 0 .. MaxOrders
      BY <1>1, <1>2
    <2>6. \A x \in Ids : data'.orders[x].id # 0 => x <= lastOrderId'
      BY <1>1, <1>2
    <2>7. QED
      BY <2>1, <2>2, <2>3, <2>4, <2>5, <2>6, KeepsIInv
  <1>5. QED
    BY <1>3, <1>4

\* Every step keeps it.
LEMMA NextIInv ==
    ASSUME HintsInBook, 0 \notin Lifespans, IInv, [Next]_vars
    PROVE  IInv'
  <1>1. ASSUME NEW t \in OrderTypes, NEW price \in Prices, NEW lifespan \in Lifespans, NEW hint \in 0 .. NO_HINT,
               InsertOrder(t, price, lifespan, hint)
        PROVE  IInv'
    BY <1>1, InsertKeepsIInv
  <1>2. ASSUME NEW t \in OrderTypes, NEW price \in Prices, NEW lifespan \in Lifespans,
               InsertOrderAsPending(t, price, lifespan)
        PROVE  IInv'
    BY <1>2, WaitKeepsIInv
  <1>3. ASSUME NEW id \in Ids, NEW hint \in 0 .. MaxOrders, CancelOrder(id, hint)
        PROVE  IInv'
    <2>1. PICK t, at : RemovesOne(t, at)
      BY <1>3, CancelEffect
    <2>2. UNCHANGED <<tickStage, tick, lastOrderId>>
      BY <1>3 DEF CancelOrder
    <2>3. QED
      BY <2>1, <2>2, ShrinkKeepsIInv DEF RemovesOne
  <1>4. ASSUME NEW t \in OrderTypes, NEW id \in 0 .. MaxOrders, NEW hint \in 0 .. MaxOrders, NEW steps \in 1 .. MaxSteps,
               ProcessExpired(t, id, hint, steps)
        PROVE  IInv'
    <2>1. PICK b2 : RemovesExpired(t, b2)
      BY <1>4, ExpireEffect
    <2>2. UNCHANGED <<tickStage, tick, lastOrderId>>
      BY <1>4 DEF ProcessExpired
    <2>3. QED
      BY <2>1, <2>2, ShrinkKeepsIInv DEF RemovesExpired
  <1>5. ASSUME NEW t \in OrderTypes, PopMostCompetitive(t)
        PROVE  IInv'
    <2>1. RemovesOne(t, 1)
      BY <1>5, PopEffect
    <2>2. UNCHANGED <<tickStage, tick, lastOrderId>>
      BY <1>5 DEF PopMostCompetitive
    <2>3. QED
      BY <2>1, <2>2, ShrinkKeepsIInv DEF RemovesOne
  <1>6. ASSUME NEW t \in OrderTypes, NEW hint \in 0 .. NO_HINT, MovePendingOrder(t, hint)
        PROVE  IInv'
    BY <1>6, MoveKeepsIInv
  <1>7. CASE BeginMatching \/ BeginMoving \/ FinishTick
    BY <1>7, StageKeepsIInv
  <1>8. CASE UNCHANGED vars
    <2>1. data' = data /\ tickStage' = tickStage /\ tick' = tick /\ lastOrderId' = lastOrderId
      BY <1>8 DEF vars
    <2>2. QED
      BY <2>1 DEF IInv, Books, Queues, ListOf, QueueOf
  <1>9. QED
    BY <1>1, <1>2, <1>3, <1>4, <1>5, <1>6, <1>7, <1>8 DEF Next

\* The lists of the orderbook are well linked in every reachable state, whatever the hints given to
\* cancel, insert and expire orders, if the hints to move pending orders name no pending order.
THEOREM ListsStayLinked ==
    ASSUME HintsInBook, 0 \notin Lifespans
    PROVE  Spec => []IInv
  <1>1. Init => IInv
    BY InitIInv
  <1>2. IInv /\ [Next]_vars => IInv'
    BY NextIInv
  <1>3. QED
    BY <1>1, <1>2, PTL DEF Spec

-----------------------------------------------------------------------------
(* What the invariant means. *)

\* Book and Queue are the lists of the invariant.
LEMMA BookAndQueue ==
    ASSUME NEW t \in OrderTypes
    PROVE  Book(t) = Books(data)[t] /\ Queue(t) = Queues(data)[t]
  BY DEF Book, Queue, Books, Queues, ListFrom, ListOf, QueueOf

\* The invariant is about well typed states.
LEMMA IInvType == IInv => TypeOK
  <1> SUFFICES ASSUME IInv PROVE TypeOK
    OBVIOUS
  <1>1. data \in DataRecords
    BY DEF IInv, Good
  <1>2. QED
    BY <1>1 DEF TypeOK, DataRecords, OrderRecords, IInv

\* The counters.
LEMMA IInvCounters == IInv => CountersMatchLists
  <1> SUFFICES ASSUME IInv PROVE CountersMatchLists
    OBVIOUS
  <1> DEFINE b == Books(data)
             q == Queues(data)
  <1>1. Good(data, b, q, {})
    BY DEF IInv
  <1>2. \A t \in OrderTypes : Book(t) = b[t] /\ Queue(t) = q[t]
    BY BookAndQueue
  <1> HIDE DEF b, q
  <1>3. ASSUME NEW t \in OrderTypes
        PROVE  /\ data.lengthOf[t] = Len(Book(t))
               /\ data.pendings[t] # 0 => data.lastPending[t] = Queue(t)[data.pendings[t]]
    <2>1. /\ data.lengthOf[t] = Len(b[t]) /\ data.pendings[t] = Len(q[t])
          /\ q[t] # <<>> => data.lastPending[t] = q[t][Len(q[t])]
          /\ q[t] \in Seq(Ids)
      BY <1>1, GoodFacts
    <2>2. Len(q[t]) = 0 <=> q[t] = <<>>
      BY <2>1, Places
    <2>3. QED
      BY <1>2, <2>1, <2>2
  <1>4. data.length = data.lengthOf["LIMIT_ORDER"] + data.lengthOf["MARKET_ORDER"]
    BY <1>1 DEF Good
  <1>5. QED
    BY <1>3, <1>4 DEF CountersMatchLists

\* Price and time priority.
LEMMA IInvPriority == IInv => PriceTimePriority
  <1> SUFFICES ASSUME IInv PROVE PriceTimePriority
    OBVIOUS
  <1> DEFINE b == Books(data)
             q == Queues(data)
             O == data.orders
  <1>1. Good(data, b, q, {})
    BY DEF IInv
  <1>2. \A t \in OrderTypes : Book(t) = b[t]
    BY BookAndQueue
  <1> HIDE DEF b, q
  <1> SUFFICES ASSUME NEW t \in OrderTypes, NEW m \in DOMAIN b[t], NEW n \in DOMAIN b[t], m < n
               PROVE  \/ GoesBefore(O[b[t][m]].price, O[b[t][n]].price)
                      \/ O[b[t][m]].price = O[b[t][n]].price /\ O[b[t][m]].id < O[b[t][n]].id
    BY <1>2 DEF PriceTimePriority
  <1>3. b[t] \in Seq(Ids) /\ Ranked(O, b[t])
    BY <1>1, GoodFacts
  <1>4. m \in 1 .. Len(b[t]) /\ n \in 1 .. Len(b[t]) /\ b[t][m] \in In(b[t]) /\ b[t][n] \in In(b[t])
    BY <1>3, Places
  <1>5. O[b[t][m]].id = b[t][m] /\ O[b[t][n]].id = b[t][n]
    BY <1>1, <1>4, Apart
  <1>6. Better(O, b[t][m], b[t][n])
    BY <1>3, <1>4 DEF Ranked
  <1>7. QED
    BY <1>5, <1>6 DEF Better

\* The orders of the mapping are those of the lists.
LEMMA StoredAreListed ==
    ASSUME IInv
    PROVE  \A x \in Ids : data.orders[x].id # 0 <=>
               \E t \in OrderTypes : x \in In(Books(data)[t]) \union In(Queues(data)[t])
  <1> DEFINE b == Books(data)
             q == Queues(data)
  <1>1. Good(data, b, q, {})
    BY DEF IInv
  <1>2. \A x \in Ids : x \in 0 .. MaxOrders /\ x # 0
    BY OrderBookAssumption DEF Ids
  <1> HIDE DEF b, q
  <1>3. ASSUME NEW x \in Ids, data.orders[x].id # 0
        PROVE  \E t \in OrderTypes : x \in In(b[t]) \union In(q[t])
    <2>1. x \notin {}
      OBVIOUS
    <2>2. /\ data.orders[x].orderType \in OrderTypes
          /\ x \in In(b[data.orders[x].orderType]) \union In(q[data.orders[x].orderType])
      BY <1>1, <1>2, <1>3, <2>1, StoredIsListed
    <2>3. QED
      BY <2>2
  <1>4. ASSUME NEW t \in OrderTypes, NEW x \in In(b[t]) \union In(q[t])
        PROVE  x \in Ids /\ data.orders[x].id # 0
    <2>1. x \in Ids /\ data.orders[x].id = x
      BY <1>1, Apart
    <2>2. QED
      BY <1>2, <2>1
  <1>5. QED
    BY <1>3, <1>4 DEF b, q

\* Every order is in one list.
LEMMA IInvOneList == IInv => EveryOrderIsInOneList
  <1> SUFFICES ASSUME IInv PROVE EveryOrderIsInOneList
    OBVIOUS
  <1> DEFINE b == Books(data)
             q == Queues(data)
             Lists == {<<t, l>> : t \in OrderTypes, l \in {"book", "queue"}}
             List(l) == IF l[2] = "book" THEN Book(l[1]) ELSE Queue(l[1])
             Stored0 == {x \in Ids : data.orders[x].id # 0}
  <1>1. Good(data, b, q, {})
    BY DEF IInv
  <1>2. \A t \in OrderTypes : Book(t) = b[t] /\ Queue(t) = q[t]
    BY BookAndQueue
  <1>3. \A x \in Ids : data.orders[x].id # 0 <=> \E t \in OrderTypes : x \in In(b[t]) \union In(q[t])
    BY StoredAreListed
  <1>4. \A l \in Lists : l[1] \in OrderTypes /\ List(l) = IF l[2] = "book" THEN b[l[1]] ELSE q[l[1]]
    BY <1>2
  <1>5. \A t \in OrderTypes : <<t, "book">> \in Lists /\ List(<<t, "book">>) = b[t]
                              /\ <<t, "queue">> \in Lists /\ List(<<t, "queue">>) = q[t]
    BY <1>2
  <1>6. \A l, k \in Lists : l # k => l[1] # k[1] \/ (l[2] = "book" <=> k[2] # "book")
    OBVIOUS
  <1> HIDE DEF b, q, Lists, List
  <1>7. \A t \in OrderTypes : \A x \in In(b[t]) \union In(q[t]) : x \in Ids /\ data.orders[x].orderType = t
    BY <1>1, Apart
  <1>8. \A t, u \in OrderTypes : t # u => \A x \in In(b[t]) \union In(q[t]) : x \notin In(b[u]) \union In(q[u])
    BY <1>7
  <1>9. \A t \in OrderTypes : \A x \in In(b[t]) : x \notin In(q[t])
    BY <1>1, Apart
  <1>10. \A t \in OrderTypes : Distinct(b[t]) /\ Distinct(q[t])
    BY <1>1, GoodFacts
  <1>11. \A l \in Lists : List(l) = b[l[1]] \/ List(l) = q[l[1]]
    BY <1>4
  <1>12. UNION {In(List(l)) : l \in Lists} = Stored0
    <2>1. ASSUME NEW l \in Lists, NEW x \in In(List(l))
          PROVE  x \in Stored0
      <3>1. l[1] \in OrderTypes /\ x \in In(b[l[1]]) \union In(q[l[1]])
        BY <1>4, <1>11, <2>1
      <3>2. QED
        BY <1>3, <1>7, <3>1
    <2>2. ASSUME NEW x \in Stored0
          PROVE  \E l \in Lists : x \in In(List(l))
      <3>1. PICK t \in OrderTypes : x \in In(b[t]) \union In(q[t])
        BY <1>3
      <3>2. QED
        BY <1>5, <3>1
    <2> HIDE DEF Stored0
    <2>3. QED
      BY <2>1, <2>2
  <1>13. ASSUME NEW l \in Lists
         PROVE  \A m, n \in DOMAIN List(l) : m # n => List(l)[m] # List(l)[n]
    BY <1>4, <1>10, <1>11 DEF Distinct
  <1>14. ASSUME NEW l \in Lists
         PROVE  \A x \in In(List(l)) : data.orders[x].orderType = l[1]
    BY <1>4, <1>7, <1>11
  <1>15. ASSUME NEW l \in Lists, NEW k \in Lists, k # l
         PROVE  In(List(k)) \intersect In(List(l)) = {}
    <2>1. CASE l[1] # k[1]
      BY <1>4, <1>8, <1>11, <2>1
    <2>2. CASE l[1] = k[1]
      <3>1. l[2] = "book" <=> k[2] # "book"
        BY <1>6, <1>15, <2>2
      <3>2. \/ List(l) = b[l[1]] /\ List(k) = q[l[1]]
            \/ List(l) = q[l[1]] /\ List(k) = b[l[1]]
        BY <1>4, <2>2, <3>1
      <3>3. l[1] \in OrderTypes
        BY <1>4
      <3>4. QED
        BY <1>9, <3>2, <3>3
    <2>3. QED
      BY <2>1, <2>2
  <1>16. /\ UNION {In(List(l)) : l \in Lists} = Stored0
         /\ \A l \in Lists :
               /\ \A m, n \in DOMAIN List(l) : m # n => List(l)[m] # List(l)[n]
               /\ \A id \in In(List(l)) : data.orders[id].orderType = l[1]
               /\ \A k \in Lists : k # l => In(List(k)) \intersect In(List(l)) = {}
    BY <1>12, <1>13, <1>14, <1>15
  <1>17. QED
    BY <1>16 DEF EveryOrderIsInOneList, Lists, List

\* The expired orders that are reported.
LEMMA IInvExpiry == IInv => ExpiryIsReported
  <1> SUFFICES ASSUME IInv PROVE ExpiryIsReported
    OBVIOUS
  <1> DEFINE b == Books(data)
             q == Queues(data)
             O == data.orders
             End(t) == ExpireLoop(data, tick, data.firstId[t], 0, MaxOrders)
             Walk(t) == Follow(data, data.firstId[t])
  <1>1. Good(data, b, q, {}) /\ \A t \in OrderTypes : \A x \in In(q[t]) : ~isExpired(O[x], tick)
    BY DEF IInv
  <1> HIDE DEF b, q
  <1>2. ASSUME NEW t \in OrderTypes
        PROVE  End(t).processed /\ ~End(t).reverted <=> \E x \in In(b[t]) : isExpired(O[x], tick)
    <2>1. \A x \in In(q[t]) : ~isExpired(O[x], tick)
      BY <1>1
    <2>2. /\ ~End(t).reverted
          /\ End(t).processed <=> \E x \in In(b[t]) : isExpired(O[x], tick)
      BY <1>1, <2>1, SweepRemoves
    <2>3. QED
      BY <2>2
  <1>3. ASSUME NEW t \in OrderTypes
        PROVE  (\E k \in 0 .. MaxOrders : O[Walk(t)[k]].id # 0 /\ isExpired(O[Walk(t)[k]], tick))
                   <=> \E x \in In(b[t]) : isExpired(O[x], tick)
    <2> DEFINE s == b[t]
               L == Len(s)
               walk == Walk(t)
    <2>1. /\ O \in [0 .. MaxOrders -> OrderRecords] /\ O[0] = NullOrder
          /\ s \in Seq(Ids) /\ Distinct(s) /\ Chained(O, s) /\ data.firstId[t] = First(s)
      BY <1>1, GoodFacts
    <2>2. \A k \in 0 .. MaxOrders : walk[k] = IF k < L THEN s[k + 1] ELSE 0
      BY <2>1, WalkIs
    <2>3. L \in 0 .. MaxOrders /\ L \in Nat /\ MaxOrders \in Nat
      BY <2>1, ListsAreShort, OrderBookAssumption
    <2>4. /\ \A n \in 1 .. L : s[n] \in In(s)
          /\ \A x \in In(s) : \E n \in 1 .. L : s[n] = x
      BY <2>1, Places
    <2>5. \A x \in In(s) : x \in Ids /\ O[x].id = x
      BY <1>1, Apart
    <2>6. O[0].id = 0
      BY <2>1 DEF NullOrder
    <2> HIDE DEF s, L, walk
    <2>7. ASSUME NEW k \in 0 .. MaxOrders, O[walk[k]].id # 0, isExpired(O[walk[k]], tick)
          PROVE  \E x \in In(s) : isExpired(O[x], tick)
      <3>1. k < L /\ walk[k] = s[k + 1]
        BY <2>2, <2>6, <2>7
      <3>2. k + 1 \in 1 .. L
        BY <2>3, <3>1
      <3>3. QED
        BY <2>4, <2>7, <3>1, <3>2
    <2>8. ASSUME NEW x \in In(s), isExpired(O[x], tick)
          PROVE  \E k \in 0 .. MaxOrders : O[walk[k]].id # 0 /\ isExpired(O[walk[k]], tick)
      <3>1. PICK n \in 1 .. L : s[n] = x
        BY <2>4
      <3>2. n - 1 \in 0 .. MaxOrders /\ n - 1 < L /\ n - 1 + 1 = n
        BY <2>3
      <3>3. walk[n - 1] = x
        BY <2>2, <3>1, <3>2
      <3>4. x # 0
        BY <2>5, OrderBookAssumption DEF Ids
      <3>5. O[walk[n - 1]].id # 0 /\ isExpired(O[walk[n - 1]], tick)
        BY <2>5, <2>8, <3>3, <3>4
      <3>6. QED
        BY <3>2, <3>5
    <2>9. QED
      BY <2>7, <2>8 DEF s, walk
  <1>4. areOrdersToExpire(data, tick) <=>
            \E t \in OrderTypes : \E k \in 0 .. MaxOrders : O[Walk(t)[k]].id # 0 /\ isExpired(O[Walk(t)[k]], tick)
    BY DEF areOrdersToExpire
  <1>5. areOrdersToExpire(data, tick) <=> \E t \in OrderTypes : End(t).processed /\ ~End(t).reverted
    <2> HIDE DEF Walk, End, O
    <2>1. QED
      BY <1>2, <1>3, <1>4
  <1>6. QED
    BY <1>5 DEF ExpiryIsReported

-----------------------------------------------------------------------------
(* Hints. *)

\* The search for the place of an order finds it.
LEMMA FindIs ==
    ASSUME NEW d, NEW b, NEW q, NEW F, Good(d, b, q, F), NEW t \in OrderTypes, NEW price \in Nat,
           NEW at, Spot(d.orders, b[t], price, at)
    PROVE  findPreviousOrderToPrice(d, t, price) = Before1(b[t], at)
  <1>1. PICK n : Spot(d.orders, b[t], price, n) /\ findPreviousOrderToPrice(d, t, price) = Before1(b[t], n)
    BY FindIsSpot
  <1>2. b[t] \in Seq(Ids)
    BY GoodFacts
  <1>3. n = at
    BY <1>1, <1>2, SpotIsUnique
  <1>4. QED
    BY <1>1, <1>3

\* A list of orders that another list also has is not longer than that one.
LEMMA ShorterList ==
    ASSUME NEW s \in Seq(Ids), NEW w \in Seq(Ids), Distinct(w), In(w) \subseteq In(s)
    PROVE  Len(w) <= Len(s)
  <1>1. /\ Len(s) \in Nat /\ DOMAIN s = 1 .. Len(s) /\ Len(w) \in Nat /\ DOMAIN w = 1 .. Len(w)
        /\ w \in [1 .. Len(w) -> In(w)] /\ s \in [1 .. Len(s) -> In(s)]
    <2>1. /\ Len(s) \in Nat /\ DOMAIN s = 1 .. Len(s) /\ Len(w) \in Nat /\ DOMAIN w = 1 .. Len(w)
          /\ w \in [1 .. Len(w) -> Ids] /\ s \in [1 .. Len(s) -> Ids]
      BY LenProperties
    <2>2. (\A n \in 1 .. Len(s) : s[n] \in In(s)) /\ \A n \in 1 .. Len(w) : w[n] \in In(w)
      BY Places
    <2>3. QED
      BY <2>1, <2>2
  <1>2. \A n \in Nat : IsFiniteSet(1 .. n) /\ Cardinality(1 .. n) = n
    <2> SUFFICES ASSUME NEW n \in Nat PROVE IsFiniteSet(1 .. n) /\ Cardinality(1 .. n) = n
      OBVIOUS
    <2>1. IsFiniteSet(1 .. n) /\ Cardinality(1 .. n) = IF 1 > n THEN 0 ELSE n - 1 + 1
      BY FS_Interval
    <2>2. QED
      BY <2>1
  <1>3. \A x \in In(s) : \E n \in 1 .. Len(s) : s[n] = x
    BY Places
  <1>4. s \in Surjection(1 .. Len(s), In(s))
    BY <1>1, <1>3 DEF Surjection
  <1>5. IsFiniteSet(In(s)) /\ Cardinality(In(s)) <= Len(s)
    <2>1. IsFiniteSet(1 .. Len(s)) /\ Cardinality(1 .. Len(s)) = Len(s)
      BY <1>1, <1>2
    <2>2. QED
      BY <1>4, <2>1, FS_Surjection
  <1>6. w \in Injection(1 .. Len(w), In(s))
    <2>1. w \in [1 .. Len(w) -> In(s)]
      BY <1>1
    <2>2. QED
      BY <1>1, <2>1 DEF Distinct, Injection, IsInjective
  <1>7. Len(w) <= Cardinality(In(s)) /\ Cardinality(In(s)) \in Nat
    <2>1. IsFiniteSet(1 .. Len(w)) /\ Cardinality(1 .. Len(w)) = Len(w)
      BY <1>1, <1>2
    <2>2. Cardinality(1 .. Len(w)) <= Cardinality(In(s))
      BY <1>5, <1>6, FS_Injection
    <2>3. QED
      BY <1>5, <2>1, <2>2, FS_CardinalityType
  <1>8. QED
    BY <1>1, <1>5, <1>7

\* How long the books are.
LEMMA LengthsAre ==
    ASSUME NEW d, NEW b, NEW q, Good(d, b, q, {}), NEW t \in OrderTypes
    PROVE  d.lengthOf[t] = Len(b[t]) /\ b[t] \in Seq(Ids) /\ Distinct(b[t]) /\ Len(b[t]) \in Nat
  BY GoodFacts, Places

\* No book gets longer.
NoneGrows == \A t \in OrderTypes : ~(data'.lengthOf[t] > data.lengthOf[t])

\* The books of a state that holds no order more.
LEMMA ShrinksOnly ==
    ASSUME IInv, NEW b2, NEW q2, Good(data', b2, q2, {}),
           \A t \in OrderTypes : In(b2[t]) \subseteq In(Books(data)[t])
    PROVE  NoneGrows
  <1> SUFFICES ASSUME NEW t \in OrderTypes PROVE ~(data'.lengthOf[t] > data.lengthOf[t])
    BY DEF NoneGrows
  <1> DEFINE b == Books(data)
  <1>1. Good(data, b, Queues(data), {})
    BY DEF IInv
  <1> HIDE DEF b
  <1>2. data.lengthOf[t] = Len(b[t]) /\ b[t] \in Seq(Ids) /\ Len(b[t]) \in Nat
    BY <1>1, LengthsAre
  <1>3. data'.lengthOf[t] = Len(b2[t]) /\ b2[t] \in Seq(Ids) /\ Distinct(b2[t]) /\ Len(b2[t]) \in Nat
    BY LengthsAre
  <1>4. In(b2[t]) \subseteq In(b[t])
    BY DEF b
  <1>5. Len(b2[t]) <= Len(b[t])
    BY <1>2, <1>3, <1>4, ShorterList
  <1>6. QED
    BY <1>2, <1>3, <1>5

\* The removal of an order makes no book longer.
LEMMA RemovalShrinks ==
    ASSUME IInv, NEW t \in OrderTypes, NEW at, RemovesOne(t, at)
    PROVE  NoneGrows
  <1> DEFINE b == Books(data)
             w == Cut(b[t], at)
             b2 == BooksWith(b, t, w)
  <1>1. Good(data, b, Queues(data), {})
    BY DEF IInv
  <1>2. at \in 1 .. Len(b[t]) /\ Good(data', b2, Queues(data), {})
    BY DEF RemovesOne
  <1>3. b2[t] = w /\ \A u \in OrderTypes : u # t => b2[u] = b[u]
    BY DEF BooksWith
  <1> HIDE DEF b
  <1>4. b[t] \in Seq(Ids) /\ Distinct(b[t])
    BY <1>1, GoodFacts
  <1>5. In(w) \subseteq In(b[t])
    <2> HIDE DEF w
    <2>1. w = Cut(b[t], at)
      BY DEF w
    <2>2. In(w) = In(b[t]) \ {b[t][at]}
      BY <1>2, <1>4, <2>1, CutPlaces
    <2>3. QED
      BY <2>2
  <1> HIDE DEF b2, w
  <1>6. \A u \in OrderTypes : In(b2[u]) \subseteq In(Books(data)[u])
    BY <1>3, <1>5 DEF b
  <1>7. QED
    BY <1>2, <1>6, ShrinksOnly

\* The removal of expired orders makes no book longer.
LEMMA ExpiryShrinks ==
    ASSUME IInv, NEW t \in OrderTypes, NEW b2, RemovesExpired(t, b2)
    PROVE  NoneGrows
  <1>1. \A u \in OrderTypes : In(b2[u]) \subseteq In(Books(data)[u])
    BY DEF RemovesExpired
  <1>2. QED
    BY <1>1, ShrinksOnly DEF RemovesExpired

\* Only the book of type t may get longer.
OnlyGrows(t) == \A u \in OrderTypes : u # t => ~(data'.lengthOf[u] > data.lengthOf[u])

\* A book that an order enters is the only one that gets longer.
LEMMA OthersDoNotGrow ==
    ASSUME IInv, NEW t \in OrderTypes, NEW s, NEW q2, Good(data', BooksWith(Books(data), t, s), q2, {})
    PROVE  OnlyGrows(t)
  <1> SUFFICES ASSUME NEW u \in OrderTypes, u # t PROVE ~(data'.lengthOf[u] > data.lengthOf[u])
    BY DEF OnlyGrows
  <1> DEFINE b == Books(data)
             b2 == BooksWith(b, t, s)
  <1>1. Good(data, b, Queues(data), {}) /\ Good(data', b2, q2, {})
    BY DEF IInv
  <1>2. b2[u] = b[u]
    BY DEF BooksWith
  <1> HIDE DEF b, b2
  <1>3. data.lengthOf[u] = Len(b[u]) /\ Len(b[u]) \in Nat
    BY <1>1, LengthsAre
  <1>4. data'.lengthOf[u] = Len(b2[u])
    BY <1>1, LengthsAre
  <1>5. QED
    BY <1>2, <1>3, <1>4

\* HintsOnlySaveWork, for one step and one type.
LandsAlone(t) ==
    /\ tickStage = "RECEIVING_ORDERS" /\ data'.lengthOf[t] > data.lengthOf[t] =>
          LET new == data'.orders[lastOrderId']
          IN  data' = LandsByItself(createOrder(data, t, new.id, new.price, new.expiresInTick), t, new.id)
    /\ tickStage = "MOVING_PENDING_ORDERS" /\ data'.lengthOf[t] > data.lengthOf[t] =>
          data' = LandsByItself(PopPending(data, t), t, data.firstPending[t])

\* An order that is inserted lands where it would without a hint.
LEMMA InsertLandsAlone ==
    ASSUME IInv, NEW t \in OrderTypes, NEW price \in Prices, NEW lifespan \in Lifespans, NEW hint \in 0 .. NO_HINT,
           InsertOrder(t, price, lifespan, hint)
    PROVE  \A u \in OrderTypes : LandsAlone(u)
  <1> DEFINE id == lastOrderId'
             b == Books(data)
             q == Queues(data)
             expires == tick + lifespan
             created == createOrder(data, t, id, price, expires)
             new == data'.orders[id]
  <1>1. PICK at : /\ Spot(data.orders, b[t], price, at)
                  /\ Good(data', BooksWith(b, t, Inserted(b[t], at, id)), q, {})
                  /\ Stores(id, t, price, expires)
                  /\ data' = positionOrder(created, t, id, Before1(b[t], at))
    BY InsertEffect
  <1>2. /\ id \in Ids /\ id \in 0 .. MaxOrders /\ data.orders[id] = NullOrder
        /\ \A x \in Ids : data.orders[x].id # 0 => x < id
    BY NewId DEF InsertOrder
  <1>3. Good(data, b, q, {}) /\ tick \in Nat /\ tickStage = "RECEIVING_ORDERS"
    BY DEF IInv, InsertOrder
  <1>4. expires \in Nat /\ price \in Nat
    BY <1>3, LinkedBookAssumption
  <1>5. OnlyGrows(t)
    BY <1>1, OthersDoNotGrow
  <1>6. new.id = id /\ new.price = price /\ new.expiresInTick = expires
    <2>1. SameOrder(new, Created(t, id, price, expires))
      BY <1>1 DEF Stores
    <2>2. QED
      BY <2>1 DEF SameOrder, Created
  <1> HIDE DEF b, q, created, expires, id
  <1>7. HasCreated(data, created, b, q, t, id, price, expires)
    <2>1. created = createOrder(data, t, id, price, expires)
      BY DEF created
    <2>2. Good(data, b, q, {})
      BY <1>3
    <2>3. id \in Ids
      BY <1>2
    <2>4. data.orders[id] = NullOrder
      BY <1>2
    <2> HIDE DEF new
    <2>5. QED
      BY <1>4, <2>1, <2>2, <2>3, <2>4, CreateIsGood
  <1>8. /\ Good(created, b, q, {id})
        /\ created.orders[id] = Created(t, id, price, expires)
        /\ \A x \in 0 .. MaxOrders : x # id => created.orders[x] = data.orders[x]
    BY <1>7 DEF HasCreated
  <1>9. Spot(created.orders, b[t], price, at)
    <2>1. \A x \in In(b[t]) \union In(q[t]) : x \in Ids /\ x \notin {id}
      BY <1>8, Apart
    <2>2. \A x \in Ids : x \in 0 .. MaxOrders
      BY OrderBookAssumption DEF Ids
    <2>3. \A x \in In(b[t]) : created.orders[x].price = data.orders[x].price
      BY <1>8, <2>1, <2>2
    <2>4. b[t] \in Seq(Ids)
      BY <1>3, GoodFacts
    <2>5. QED
      BY <1>1, <2>3, <2>4, SpotFrame
  <1>10. findPreviousOrderToPrice(created, t, price) = Before1(b[t], at)
    BY <1>4, <1>8, <1>9, FindIs
  <1>11. created.orders[id].price = price
    BY <1>8 DEF Created
  <1>12. LandsByItself(created, t, id) = positionOrder(created, t, id, Before1(b[t], at))
    BY <1>10, <1>11 DEF LandsByItself
  <1>13. created = createOrder(data, t, new.id, new.price, new.expiresInTick)
    BY <1>6 DEF created
  <1>14. data' = LandsByItself(createOrder(data, t, new.id, new.price, new.expiresInTick), t, new.id)
    BY <1>1, <1>6, <1>12, <1>13
  <1>15. LandsAlone(t)
    BY <1>3, <1>14 DEF LandsAlone, id
  <1>16. \A u \in OrderTypes : u # t => LandsAlone(u)
    BY <1>5 DEF LandsAlone, OnlyGrows
  <1>17. QED
    BY <1>15, <1>16

\* So does an order that is moved.
LEMMA MoveLandsAlone ==
    ASSUME IInv, NEW t \in OrderTypes, NEW at, Moves(t, at), tickStage = "MOVING_PENDING_ORDERS"
    PROVE  \A u \in OrderTypes : LandsAlone(u)
  <1> DEFINE b == Books(data)
             q == Queues(data)
             id == data.firstPending[t]
             price == data.orders[id].price
             popped == PopPending(data, t)
             q2 == QueuesWith(q, t, Tail(q[t]))
  <1>1. /\ q[t] # <<>>
        /\ Spot(data.orders, b[t], price, at)
        /\ q[t][1] = id
        /\ data' = positionOrder(popped, t, id, Before1(b[t], at))
    BY DEF Moves
  <1>2. Good(data, b, q, {})
    BY DEF IInv
  <1>3. OnlyGrows(t)
    BY OthersDoNotGrow DEF Moves
  <1>4. q2[t] = Tail(q[t]) /\ \A u \in OrderTypes : u # t => q2[u] = q[u]
    BY DEF QueuesWith
  <1> HIDE DEF b, q, q2
  <1>5. Good(popped, b, q2, {id}) /\ popped.orders = data.orders /\ id \in Ids
    <2>1. PICK first : first = q[t][1]
      OBVIOUS
    <2>2. PICK e : e = popped
      OBVIOUS
    <2>3. IsPopped(data, e, b, q2, t, first)
      BY <1>1, <1>2, <1>4, <2>1, <2>2, PopPendingIsGood
    <2> HIDE DEF popped
    <2>4. QED
      BY <1>1, <2>1, <2>2, <2>3 DEF IsPopped
  <1>6. price \in Nat
    <2>1. id \in 0 .. MaxOrders
      BY <1>5, OrderBookAssumption DEF Ids
    <2>2. data.orders \in [0 .. MaxOrders -> OrderRecords]
      BY <1>2, GoodFacts
    <2>3. QED
      BY <2>1, <2>2, PriceIsNat
  <1> HIDE DEF popped, id
  <1>7. findPreviousOrderToPrice(popped, t, price) = Before1(b[t], at)
    <2>1. Spot(popped.orders, b[t], price, at)
      BY <1>1, <1>5
    <2> HIDE DEF price
    <2>2. QED
      BY <1>5, <1>6, <2>1, FindIs
  <1>8. data' = LandsByItself(popped, t, id)
    BY <1>1, <1>5, <1>7 DEF LandsByItself
  <1>9. data' = LandsByItself(PopPending(data, t), t, data.firstPending[t])
    BY <1>8 DEF popped, id
  <1>10. LandsAlone(t)
    BY <1>9 DEF LandsAlone
  <1>11. \A u \in OrderTypes : u # t => LandsAlone(u)
    BY <1>3 DEF LandsAlone, OnlyGrows
  <1>12. QED
    BY <1>10, <1>11

\* Hints save work only.
LEMMA StepsLandAlone ==
    ASSUME HintsInBook, IInv, [Next]_vars
    PROVE  \A t \in OrderTypes : LandsAlone(t)
  <1>1. NoneGrows => \A t \in OrderTypes : LandsAlone(t)
    BY DEF NoneGrows, LandsAlone
  <1>2. ASSUME NEW t \in OrderTypes, NEW price \in Prices, NEW lifespan \in Lifespans, NEW hint \in 0 .. NO_HINT,
               InsertOrder(t, price, lifespan, hint)
        PROVE  \A u \in OrderTypes : LandsAlone(u)
    BY <1>2, InsertLandsAlone
  <1>3. ASSUME NEW t \in OrderTypes, NEW price \in Prices, NEW lifespan \in Lifespans,
               InsertOrderAsPending(t, price, lifespan)
        PROVE  NoneGrows
    <2>1. PICK q2 : Good(data', Books(data), q2, {})
      BY <1>3, WaitEffect
    <2>2. \A u \in OrderTypes : In(Books(data)[u]) \subseteq In(Books(data)[u])
      OBVIOUS
    <2>3. QED
      BY <2>1, <2>2, ShrinksOnly
  <1>4. ASSUME NEW id \in Ids, NEW hint \in 0 .. MaxOrders, CancelOrder(id, hint)
        PROVE  NoneGrows
    <2>1. PICK t \in OrderTypes : \E at : RemovesOne(t, at)
      BY <1>4, CancelEffect
    <2>2. PICK at : RemovesOne(t, at)
      BY <2>1
    <2>3. QED
      BY <2>2, RemovalShrinks
  <1>5. ASSUME NEW t \in OrderTypes, NEW id \in 0 .. MaxOrders, NEW hint \in 0 .. MaxOrders, NEW steps \in 1 .. MaxSteps,
               ProcessExpired(t, id, hint, steps)
        PROVE  NoneGrows
    <2>1. PICK b2 : RemovesExpired(t, b2)
      BY <1>5, ExpireEffect
    <2>2. QED
      BY <2>1, ExpiryShrinks
  <1>6. ASSUME NEW t \in OrderTypes, PopMostCompetitive(t)
        PROVE  NoneGrows
    <2>1. RemovesOne(t, 1)
      BY <1>6, PopEffect
    <2>2. QED
      BY <2>1, RemovalShrinks
  <1>7. ASSUME NEW t \in OrderTypes, NEW hint \in 0 .. NO_HINT, MovePendingOrder(t, hint)
        PROVE  \A u \in OrderTypes : LandsAlone(u)
    <2>1. PICK at : Moves(t, at)
      BY <1>7, MoveEffect
    <2>2. tickStage = "MOVING_PENDING_ORDERS"
      BY <1>7 DEF MovePendingOrder
    <2>3. QED
      BY <2>1, <2>2, MoveLandsAlone
  <1>8. CASE data' = data
    <2>1. Good(data, Books(data), Queues(data), {})
      BY DEF IInv
    <2>2. \A t \in OrderTypes : data.lengthOf[t] \in Nat
      BY <2>1, LengthsAre
    <2>3. NoneGrows
      BY <1>8, <2>2 DEF NoneGrows
    <2>4. QED
      BY <1>1, <2>3
  <1>9. BeginMatching \/ BeginMoving \/ FinishTick \/ UNCHANGED vars => data' = data
    BY DEF BeginMatching, BeginMoving, FinishTick, vars
  <1> HIDE DEF LandsAlone
  <1>10. QED
    BY <1>1, <1>2, <1>3, <1>4, <1>5, <1>6, <1>7, <1>8, <1>9 DEF Next

-----------------------------------------------------------------------------
(* The theorems.  All have the two hypotheses of ListsStayLinked, which the code
   does not enforce: no hint given to the move of a pending order names an order that
   is pending (PendingHint shows what such a hint does), and no order has a lifespan
   of 0.  The hints of insertions, cancelations and expirations are any. *)

\* Provided that no hint of a move names a pending order: a hint that is accepted,
\* also one that was computed before other transactions, puts the order that is
\* inserted or moved where the search without a hint would have put it.
THEOREM HintsSaveWork ==
    ASSUME HintsInBook, 0 \notin Lifespans
    PROVE  Spec => HintsOnlySaveWork
  <1>1. IInv /\ [Next]_vars =>
          [\A t \in OrderTypes :
              /\ tickStage = "RECEIVING_ORDERS" /\ data'.lengthOf[t] > data.lengthOf[t] =>
                    LET new == data'.orders[lastOrderId']
                    IN  data' = LandsByItself(createOrder(data, t, new.id, new.price, new.expiresInTick), t, new.id)
              /\ tickStage = "MOVING_PENDING_ORDERS" /\ data'.lengthOf[t] > data.lengthOf[t] =>
                    data' = LandsByItself(PopPending(data, t), t, data.firstPending[t])]_vars
    BY StepsLandAlone DEF LandsAlone
  <1>2. Spec => []IInv
    BY ListsStayLinked
  <1>3. QED
    BY <1>1, <1>2, PTL DEF Spec, HintsOnlySaveWork

\* Every variable of the orderbook keeps its type, under the two hypotheses.
THEOREM TypeCorrectBook ==
    ASSUME HintsInBook, 0 \notin Lifespans
    PROVE  Spec => []TypeOK
  <1>1. Spec => []IInv
    BY ListsStayLinked
  <1>2. QED
    BY <1>1, IInvType, PTL

-----------------------------------------------------------------------------
(* The lists as an orderbook that serves by priority sees them. *)

Item(d, x) == [id |-> x, price |-> d.orders[x].price, expiresInTick |-> d.orders[x].expiresInTick]

Items(d, s) == [n \in 1 .. Len(s) |-> Item(d, s[n])]

ItemRecords == [id : Ids, price : Nat, expiresInTick : Nat]

\* The fields of an order.
LEMMA ItemIs ==
    ASSUME NEW d, d.orders \in [0 .. MaxOrders -> OrderRecords], NEW x \in Ids
    PROVE  /\ Item(d, x) \in ItemRecords /\ Item(d, x).id = x
           /\ Item(d, x).price = d.orders[x].price
           /\ Item(d, x).expiresInTick = d.orders[x].expiresInTick
  <1>1. x \in 0 .. MaxOrders
    BY OrderBookAssumption DEF Ids
  <1>2. d.orders[x].price \in Nat
    BY <1>1, PriceIsNat
  <1>3. d.orders[x] \in OrderRecords
    BY <1>1
  <1>4. d.orders[x].expiresInTick \in Nat
    BY <1>3 DEF OrderRecords
  <1>5. QED
    BY <1>2, <1>4 DEF Item, ItemRecords

\* The places of the list of orders.
LEMMA ItemsAre ==
    ASSUME NEW d, d.orders \in [0 .. MaxOrders -> OrderRecords], NEW s \in Seq(Ids), NEW r, r = Items(d, s)
    PROVE  /\ r \in Seq(ItemRecords) /\ Len(r) = Len(s) /\ DOMAIN r = 1 .. Len(s)
           /\ \A n \in 1 .. Len(s) : r[n] = Item(d, s[n])
           /\ Len(s) \in Nat
  <1>1. Len(s) \in Nat /\ \A n \in 1 .. Len(s) : s[n] \in Ids
    BY Places
  <1>2. \A n \in 1 .. Len(s) : Item(d, s[n]) \in ItemRecords
    BY <1>1, ItemIs
  <1>3. r = [n \in 1 .. Len(s) |-> Item(d, s[n])]
    BY DEF Items
  <1>4. DOMAIN r = 1 .. Len(s) /\ \A n \in 1 .. Len(s) : r[n] = Item(d, s[n])
    BY <1>3
  <1>5. r \in [1 .. Len(s) -> ItemRecords]
    BY <1>2, <1>3
  <1>6. r \in Seq(ItemRecords) /\ Len(r) = Len(s)
    BY <1>1, <1>5, SeqDef, LenProperties
  <1>7. QED
    BY <1>1, <1>4, <1>6

\* Orders that did not change.
LEMMA SameItems ==
    ASSUME NEW d, NEW e, NEW s \in Seq(Ids), \A x \in In(s) : SameOrder(e.orders[x], d.orders[x])
    PROVE  Items(e, s) = Items(d, s)
  <1>1. \A n \in 1 .. Len(s) : s[n] \in In(s)
    BY Places
  <1>2. \A n \in 1 .. Len(s) : Item(e, s[n]) = Item(d, s[n])
    BY <1>1 DEF Item, SameOrder
  <1>3. QED
    BY <1>2 DEF Items

\* Orders are told apart by their ids.
LEMMA ItemsAreDistinct ==
    ASSUME NEW d, d.orders \in [0 .. MaxOrders -> OrderRecords], NEW s \in Seq(Ids), Distinct(s), NEW r, r = Items(d, s)
    PROVE  Distinct(r)
  <1>1. /\ DOMAIN r = 1 .. Len(s) /\ \A n \in 1 .. Len(s) : r[n] = Item(d, s[n])
        /\ DOMAIN s = 1 .. Len(s) /\ \A n \in 1 .. Len(s) : s[n] \in Ids
    BY ItemsAre, Places
  <1>2. \A n \in 1 .. Len(s) : r[n].id = s[n]
    BY <1>1, ItemIs
  <1>3. \A m, n \in 1 .. Len(s) : s[m] = s[n] => m = n
    BY <1>1 DEF Distinct
  <1>4. QED
    BY <1>1, <1>2, <1>3 DEF Distinct

\* w is the list s with the order o where a walk from its start stops.
IsPlaced(w, descending, s, o, at) ==
    /\ at \in 1 .. Len(s) + 1
    /\ w = [k \in 1 .. Len(s) + 1 |-> IF k < at THEN s[k] ELSE IF k = at THEN o ELSE s[k - 1]]
    /\ \A n \in 1 .. at - 1 : ~Before(descending, o.price, s[n].price)
    /\ at <= Len(s) => Before(descending, o.price, s[at].price)

\* What Place returns.
LEMMA PlacedAt ==
    ASSUME NEW S, NEW s \in Seq(S), NEW o \in S, NEW descending, NEW w, w = Place(descending, s, o)
    PROVE  \E at : IsPlaced(w, descending, s, o, at)
  BY PlaceIs DEF IsPlaced

\* An order that enters the list at its spot is placed.
LEMMA InsertedIsPlaced ==
    ASSUME NEW d, d.orders \in [0 .. MaxOrders -> OrderRecords], NEW s \in Seq(Ids), Distinct(s),
           NEW o \in Ids, o \notin In(s), NEW at, Spot(d.orders, s, d.orders[o].price, at)
    PROVE  Items(d, Inserted(s, at, o)) = Place(OrderDescending, Items(d, s), Item(d, o))
  <1> DEFINE r == Items(d, s)
             w == Inserted(s, at, o)
             price == d.orders[o].price
             i == Item(d, o)
             placed == Place(OrderDescending, r, i)
  <1>1. /\ r \in Seq(ItemRecords) /\ Len(r) = Len(s) /\ DOMAIN r = 1 .. Len(s)
        /\ \A n \in 1 .. Len(s) : r[n] = Item(d, s[n])
        /\ Len(s) \in Nat
    BY ItemsAre
  <1>2. i \in ItemRecords /\ i.price = price
    BY ItemIs
  <1> HIDE DEF r, i
  <1>3. PICK k \in 1 .. Len(r) + 1 :
            /\ placed = [n \in 1 .. Len(r) + 1 |-> IF n < k THEN r[n] ELSE IF n = k THEN i ELSE r[n - 1]]
            /\ \A n \in 1 .. k - 1 : ~Before(OrderDescending, i.price, r[n].price)
            /\ k <= Len(r) => Before(OrderDescending, i.price, r[k].price)
    <2>1. PICK p : p = placed
      OBVIOUS
    <2>2. PICK k : IsPlaced(p, OrderDescending, r, i, k)
      BY <1>1, <1>2, <2>1, PlacedAt
    <2>3. QED
      BY <2>1, <2>2 DEF IsPlaced
  <1>4. \A n \in 1 .. Len(s) : s[n] \in Ids
    BY Places
  <1>5. \A n \in 1 .. Len(s) : r[n].price = d.orders[s[n]].price
    BY <1>1, <1>4, ItemIs
  <1>6. \A p, x : Before(OrderDescending, p, x) <=> GoesBefore(p, x)
    BY DEF Before, GoesBefore
  <1>7. Spot(d.orders, s, price, k)
    <2>1. k \in 1 .. Len(s) + 1 /\ k - 1 <= Len(s)
      BY <1>1
    <2>2. ASSUME NEW n \in 1 .. k - 1
          PROVE  ~GoesBefore(price, d.orders[s[n]].price)
      <3>1. n \in 1 .. Len(s)
        BY <1>1, <2>1
      <3>2. ~Before(OrderDescending, i.price, r[n].price)
        BY <1>3
      <3>3. QED
        BY <1>2, <1>5, <1>6, <3>1, <3>2
    <2>3. ASSUME k <= Len(s)
          PROVE  GoesBefore(price, d.orders[s[k]].price)
      <3>1. k \in 1 .. Len(s)
        BY <1>1, <2>1, <2>3
      <3>2. Before(OrderDescending, i.price, r[k].price)
        BY <1>1, <1>3, <2>3
      <3>3. QED
        BY <1>2, <1>5, <1>6, <3>1, <3>2
    <2>4. QED
      BY <2>1, <2>2, <2>3 DEF Spot
  <1>8. k = at
    BY <1>7, SpotIsUnique
  <1> HIDE DEF placed, price
  <1>9. at \in 1 .. Len(s) + 1
    BY <1>1, <1>3, <1>8
  <1>10. /\ w \in Seq(Ids) /\ Len(w) = Len(s) + 1 /\ w[at] = o
         /\ \A n \in 1 .. Len(s) + 1 : (n < at => w[n] = s[n]) /\ (n > at => w[n] = s[n - 1])
    <2> HIDE DEF w
    <2>1. PICK l : l = Inserted(s, at, o)
      OBVIOUS
    <2>2. s \in Seq(Ids) /\ Distinct(s) /\ o \in Ids /\ o \notin In(s) /\ at \in 1 .. Len(s) + 1
      BY <1>9
    <2>3. /\ l \in Seq(Ids) /\ Len(l) = Len(s) + 1 /\ l[at] = o
          /\ \A n \in 1 .. Len(s) + 1 : (n < at => l[n] = s[n]) /\ (n > at => l[n] = s[n - 1])
      BY <2>1, <2>2, InsertedPlaces
    <2>4. w = l
      BY <2>1 DEF w
    <2>5. QED
      BY <2>3, <2>4
  <1> HIDE DEF w
  <1>11. Items(d, w) = [n \in 1 .. Len(s) + 1 |-> Item(d, w[n])]
    BY <1>10 DEF Items
  <1>12. placed = [n \in 1 .. Len(s) + 1 |-> IF n < at THEN r[n] ELSE IF n = at THEN i ELSE r[n - 1]]
    BY <1>1, <1>3, <1>8
  <1>13. ASSUME NEW n \in 1 .. Len(s) + 1
         PROVE  Item(d, w[n]) = IF n < at THEN r[n] ELSE IF n = at THEN i ELSE r[n - 1]
    <2>1. CASE n < at
      <3>1. n \in 1 .. Len(s)
        BY <1>1, <1>9, <2>1
      <3>2. QED
        BY <1>1, <1>10, <2>1, <3>1
    <2>2. CASE n = at
      <3>1. ~(n < at)
        BY <1>1, <1>9, <2>2
      <3>2. QED
        BY <1>10, <2>2, <3>1 DEF i
    <2>3. CASE n > at
      <3>1. n - 1 \in 1 .. Len(s) /\ ~(n < at) /\ n # at
        BY <1>1, <1>9, <2>3
      <3>2. QED
        BY <1>1, <1>10, <2>3, <3>1
    <2>4. QED
      BY <1>1, <1>9, <2>1, <2>2, <2>3
  <1>14. Items(d, w) = placed
    BY <1>11, <1>12, <1>13
  <1>15. QED
    BY <1>14 DEF w, placed, r, i

\* An order that joins a queue is appended.
LEMMA InsertedIsAppended ==
    ASSUME NEW d, d.orders \in [0 .. MaxOrders -> OrderRecords], NEW s \in Seq(Ids), Distinct(s),
           NEW o \in Ids, o \notin In(s), NEW w, w = Inserted(s, Len(s) + 1, o)
    PROVE  Items(d, w) = Append(Items(d, s), Item(d, o))
  <1> DEFINE r == Items(d, s)
             i == Item(d, o)
             L == Len(s)
             at == L + 1
  <1>1. /\ r \in Seq(ItemRecords) /\ Len(r) = L /\ DOMAIN r = 1 .. L
        /\ \A n \in 1 .. L : r[n] = Item(d, s[n])
        /\ L \in Nat
    BY ItemsAre
  <1>2. i \in ItemRecords
    BY ItemIs
  <1>3. s \in Seq(Ids) /\ Distinct(s) /\ o \in Ids /\ o \notin In(s) /\ at \in 1 .. Len(s) + 1 /\ w = Inserted(s, at, o)
    BY <1>1
  <1> HIDE DEF at
  <1>4. /\ w \in Seq(Ids) /\ Len(w) = Len(s) + 1 /\ w[at] = o
        /\ \A n \in 1 .. Len(s) + 1 : (n < at => w[n] = s[n]) /\ (n > at => w[n] = s[n - 1])
    BY <1>3, InsertedPlaces
  <1>5. Items(d, w) = [n \in 1 .. Len(w) |-> Item(d, w[n])]
    BY DEF Items
  <1> HIDE DEF r, i, L
  <1>6. /\ Append(r, i) \in Seq(ItemRecords) /\ Len(Append(r, i)) = Len(r) + 1
        /\ \A n \in 1 .. Len(r) : Append(r, i)[n] = r[n]
        /\ Append(r, i)[Len(r) + 1] = i
    BY <1>1, <1>2, AppendProperties
  <1> DEFINE a == Append(r, i)
  <1>7. Len(w) = L + 1 /\ Len(a) = L + 1 /\ a \in Seq(ItemRecords) /\ a[L + 1] = i /\ \A n \in 1 .. L : a[n] = r[n]
    BY <1>1, <1>4, <1>6 DEF L
  <1> HIDE DEF a
  <1>8. a = [n \in 1 .. L + 1 |-> a[n]]
    BY <1>7, LenProperties
  <1>9. ASSUME NEW n \in 1 .. L + 1
        PROVE  Item(d, w[n]) = a[n]
    <2>1. CASE n = L + 1
      <3>1. w[n] = o
        BY <1>4, <2>1 DEF at
      <3>2. QED
        BY <1>7, <2>1, <3>1 DEF i
    <2>2. CASE n # L + 1
      <3>1. n \in 1 .. L /\ n < L + 1 /\ n \in 1 .. Len(s) + 1
        BY <1>1, <2>2 DEF L
      <3>2. w[n] = s[n]
        BY <1>4, <3>1 DEF at
      <3>3. QED
        BY <1>1, <1>7, <3>1, <3>2
    <2>3. QED
      BY <2>1, <2>2
  <1>10. Items(d, w) = a
    BY <1>5, <1>7, <1>8, <1>9
  <1>11. QED
    BY <1>10 DEF a, r, i

\* The rest of the list.
LEMMA TailItems ==
    ASSUME NEW d, d.orders \in [0 .. MaxOrders -> OrderRecords], NEW s \in Seq(Ids), Distinct(s), s # <<>>
    PROVE  /\ Items(d, Tail(s)) = Tail(Items(d, s))
           /\ Items(d, s) # <<>> /\ Head(Items(d, s)) = Item(d, s[1])
           /\ Cut(s, 1) = Tail(s)
  <1> DEFINE r == Items(d, s)
             L == Len(s)
             w == Tail(s)
             a == Tail(r)
  <1>1. /\ r \in Seq(ItemRecords) /\ Len(r) = L /\ DOMAIN r = 1 .. L
        /\ \A n \in 1 .. L : r[n] = Item(d, s[n])
        /\ L \in Nat
    BY ItemsAre
  <1>2. Distinct(r)
    BY ItemsAreDistinct
  <1>3. L # 0
    BY Places
  <1> HIDE DEF r
  <1>4. r # <<>>
    BY <1>1, <1>3, EmptySeq
  <1>5. w \in Seq(Ids) /\ Len(w) = L - 1 /\ \A n \in 1 .. L - 1 : w[n] = s[n + 1]
    BY TailList
  <1>6. Head(r) = r[1] /\ a \in Seq(ItemRecords) /\ Len(a) = L - 1 /\ \A n \in 1 .. L - 1 : a[n] = r[n + 1]
    BY <1>1, <1>2, <1>4, TailList
  <1>7. Items(d, w) = [n \in 1 .. Len(w) |-> Item(d, w[n])]
    BY DEF Items
  <1> HIDE DEF w, a, L
  <1>8. 1 \in 1 .. L /\ \A n \in 1 .. L - 1 : n + 1 \in 1 .. L
    BY <1>1, <1>3
  <1>9. \A n \in 1 .. L - 1 : Item(d, w[n]) = a[n]
    BY <1>1, <1>5, <1>6, <1>8
  <1>10. a = [n \in 1 .. L - 1 |-> a[n]] /\ w = [n \in 1 .. L - 1 |-> w[n]]
    BY <1>5, <1>6, LenProperties
  <1>11. Items(d, w) = a
    BY <1>5, <1>7, <1>9, <1>10
  <1>12. Cut(s, 1) = w
    <2>1. Cut(s, 1) = [k \in 1 .. L - 1 |-> IF k < 1 THEN s[k] ELSE s[k + 1]]
      BY DEF Cut, L
    <2>2. \A k \in 1 .. L - 1 : ~(k < 1)
      BY <1>1
    <2>3. \A k \in 1 .. L - 1 : (IF k < 1 THEN s[k] ELSE s[k + 1]) = w[k]
      BY <1>5, <2>2
    <2>4. QED
      BY <1>10, <2>1, <2>3
  <1>13. Head(r) = Item(d, s[1])
    BY <1>1, <1>6, <1>8
  <1>14. QED
    BY <1>4, <1>11, <1>12, <1>13 DEF r, w, a

-----------------------------------------------------------------------------
(* There is only one way to serve the same orders. *)

\* Two orders are not each served before the other one.
LEMMA BetterIsStrict ==
    ASSUME NEW orders \in [0 .. MaxOrders -> OrderRecords], NEW i \in Ids, NEW j \in Ids
    PROVE  ~(Better(orders, i, j) /\ Better(orders, j, i))
  <1>1. i \in 0 .. MaxOrders /\ j \in 0 .. MaxOrders /\ i \in Nat /\ j \in Nat
    BY OrderBookAssumption DEF Ids
  <1>2. orders[i].price \in Nat /\ orders[j].price \in Nat
    BY <1>1, PriceIsNat
  <1>3. QED
    BY <1>1, <1>2, OrderBookAssumption DEF Better, GoesBefore

\* Two lists of the same orders, both ranked, are the same list.
LEMMA RankedIsUnique ==
    ASSUME NEW orders \in [0 .. MaxOrders -> OrderRecords], NEW s \in Seq(Ids), NEW w \in Seq(Ids),
           Ranked(orders, s), Ranked(orders, w), In(s) = In(w), Distinct(s), Distinct(w)
    PROVE  s = w
  <1> DEFINE L == Len(s)
             Same(n) == n \in 1 .. L => s[n] = w[n]
             P == {n \in Nat : \A m \in 1 .. n : Same(m)}
  <1>1. Len(s) \in Nat /\ Len(w) \in Nat /\ Len(s) = Len(w)
    <2>1. Len(s) \in Nat /\ Len(w) \in Nat
      BY Places
    <2>2. Len(s) <= Len(w) /\ Len(w) <= Len(s)
      BY ShorterList
    <2>3. QED
      BY <2>1, <2>2
  <1>2. /\ DOMAIN s = 1 .. L /\ DOMAIN w = 1 .. L
        /\ \A n \in 1 .. L : s[n] \in Ids /\ w[n] \in Ids
        /\ \A n \in 1 .. L : (\E j \in 1 .. L : w[j] = s[n]) /\ (\E k \in 1 .. L : s[k] = w[n])
    BY <1>1, Places
  <1>3. \A m, n \in 1 .. L : m < n => Better(orders, s[m], s[n]) /\ Better(orders, w[m], w[n])
    BY <1>1 DEF Ranked
  <1>4. \A m, n \in 1 .. L : (s[m] = s[n] => m = n) /\ (w[m] = w[n] => m = n)
    BY <1>2 DEF Distinct
  <1> HIDE DEF L
  <1>5. L \in Nat
    BY <1>1 DEF L
  <1>6. ASSUME NEW n \in 1 .. L, \A m \in 1 .. L : m < n => s[m] = w[m]
        PROVE  s[n] = w[n]
    <2>1. PICK j \in 1 .. L : w[j] = s[n]
      BY <1>2
    <2>2. PICK k \in 1 .. L : s[k] = w[n]
      BY <1>2
    <2>3. ~(j < n)
      <3> SUFFICES ASSUME j < n PROVE FALSE
        OBVIOUS
      <3>1. s[j] = s[n]
        BY <1>6, <2>1
      <3>2. j = n
        BY <1>4, <3>1
      <3>3. QED
        BY <1>5, <3>2
    <2>4. ~(k < n)
      <3> SUFFICES ASSUME k < n PROVE FALSE
        OBVIOUS
      <3>1. w[k] = w[n]
        BY <1>6, <2>2
      <3>2. k = n
        BY <1>4, <3>1
      <3>3. QED
        BY <1>5, <3>2
    <2>5. CASE j = n
      BY <2>1, <2>5
    <2>6. CASE k = n
      BY <2>2, <2>6
    <2>7. CASE j # n /\ k # n
      <3>1. n < j /\ n < k
        BY <1>5, <2>3, <2>4, <2>7
      <3>2. Better(orders, w[n], w[j]) /\ Better(orders, s[n], s[k])
        BY <1>3, <3>1
      <3>3. Better(orders, w[n], s[n]) /\ Better(orders, s[n], w[n])
        BY <2>1, <2>2, <3>2
      <3>4. s[n] \in Ids /\ w[n] \in Ids
        BY <1>2
      <3>5. QED
        BY <3>3, <3>4, BetterIsStrict
    <2>8. QED
      BY <2>5, <2>6, <2>7
  <1>7. 0 \in P
    BY <1>5
  <1>8. ASSUME NEW n \in Nat, n \in P
        PROVE  n + 1 \in P
    <2>1. \A m \in 1 .. n : Same(m)
      BY <1>8
    <2>2. Same(n + 1)
      <3> SUFFICES ASSUME n + 1 \in 1 .. L PROVE s[n + 1] = w[n + 1]
        OBVIOUS
      <3>1. \A m \in 1 .. L : m < n + 1 => m \in 1 .. n
        BY <1>5
      <3>2. \A m \in 1 .. L : m < n + 1 => s[m] = w[m]
        BY <2>1, <3>1
      <3>3. QED
        BY <1>6, <3>2
    <2> HIDE DEF Same
    <2>3. \A m \in 1 .. n + 1 : m \in 1 .. n \/ m = n + 1
      OBVIOUS
    <2>4. \A m \in 1 .. n + 1 : Same(m)
      BY <2>1, <2>2, <2>3
    <2>5. QED
      BY <2>4
  <1> HIDE DEF P
  <1>9. Nat \subseteq P
    BY <1>7, <1>8, NaturalInduction
  <1>10. \A n \in 1 .. L : s[n] = w[n]
    BY <1>5, <1>9 DEF P
  <1>11. s = [n \in 1 .. L |-> s[n]] /\ w = [n \in 1 .. L |-> w[n]]
    <2>1. s \in [1 .. Len(s) -> Ids] /\ w \in [1 .. Len(w) -> Ids]
      BY LenProperties
    <2>2. QED
      BY <1>1, <2>1 DEF L
  <1>12. QED
    BY <1>10, <1>11

\* A list from which orders were taken out, and that is still ranked, is the list without them.
LEMMA WithoutItems ==
    ASSUME NEW d, d.orders \in [0 .. MaxOrders -> OrderRecords], NEW s \in Seq(Ids), NEW w \in Seq(Ids),
           Ranked(d.orders, s), Ranked(d.orders, w), Distinct(s), Distinct(w), In(w) \subseteq In(s),
           NEW S, S = {Item(d, x) : x \in In(s) \ In(w)}
    PROVE  Items(d, w) = Without(Items(d, s), S)
  <1> DEFINE r == Items(d, s)
             L == Len(s)
  <1>1. /\ r \in Seq(ItemRecords) /\ Len(r) = L /\ DOMAIN r = 1 .. L
        /\ \A n \in 1 .. L : r[n] = Item(d, s[n])
        /\ L \in Nat
    BY ItemsAre
  <1>2. /\ DOMAIN s = 1 .. L
        /\ \A n \in 1 .. L : s[n] \in In(s) /\ s[n] \in Ids
        /\ \A x \in In(s) : x \in Ids /\ \E n \in 1 .. L : s[n] = x
    BY Places
  <1> HIDE DEF r, L
  <1>3. PICK v : v = Without(r, S)
    OBVIOUS
  <1>4. v \in Seq(ItemRecords) /\ \E h : Remains(v, r, S, h)
    BY <1>1, <1>3, WithoutIs
  <1>5. PICK h : Remains(v, r, S, h)
    BY <1>4
  <1> DEFINE M == Len(v)
             u == [i \in 1 .. M |-> s[h[i]]]
  <1>6. /\ M \in Nat
        /\ v = [i \in 1 .. M |-> v[i]]
        /\ h \in [1 .. M -> 1 .. L]
        /\ \A i \in 1 .. M : v[i] = r[h[i]] /\ r[h[i]] \notin S
        /\ \A i, j \in 1 .. M : i < j => h[i] < h[j]
        /\ \A n \in 1 .. L : r[n] \notin S => \E i \in 1 .. M : h[i] = n
    <2>1. M \in Nat /\ v = [i \in 1 .. M |-> v[i]]
      BY <1>4, LenProperties
    <2>2. QED
      BY <1>1, <1>5, <2>1 DEF Remains
  <1> HIDE DEF M
  <1>7. \A i \in 1 .. M : h[i] \in 1 .. L /\ u[i] = s[h[i]] /\ u[i] \in Ids
    BY <1>2, <1>6
  <1>8. u \in Seq(Ids) /\ Len(u) = M /\ DOMAIN u = 1 .. M
    <2>1. u \in [1 .. M -> Ids]
      BY <1>7
    <2>2. DOMAIN u = 1 .. M
      OBVIOUS
    <2> HIDE DEF u
    <2>3. u \in Seq(Ids)
      <3>1. \A n \in Nat : \A f \in [1 .. n -> Ids] : f \in Seq(Ids)
        BY SeqDef
      <3>2. M \in Nat
        BY <1>6
      <3>3. QED
        BY <2>1, <3>1, <3>2
    <2>4. DOMAIN u = 1 .. Len(u) /\ Len(u) \in Nat
      BY <2>3, LenProperties
    <2>5. Len(u) = M
      BY <1>6, <2>2, <2>4
    <2>6. QED
      BY <2>2, <2>3, <2>5
  <1> HIDE DEF u
  <1>9. \A n \in 1 .. L : r[n] \in S <=> s[n] \notin In(w)
    <2>1. ASSUME NEW n \in 1 .. L, s[n] \notin In(w)
          PROVE  r[n] \in S
      BY <1>1, <1>2, <2>1
    <2>2. ASSUME NEW n \in 1 .. L, r[n] \in S
          PROVE  s[n] \notin In(w)
      <3>1. PICK x \in In(s) \ In(w) : r[n] = Item(d, x)
        BY <2>2
      <3>2. Item(d, s[n]) = Item(d, x) /\ s[n] \in Ids /\ x \in Ids
        BY <1>1, <1>2, <3>1
      <3>3. Item(d, s[n]).id = s[n] /\ Item(d, x).id = x
        BY <3>2, ItemIs
      <3>4. s[n] = x
        BY <3>2, <3>3
      <3>5. QED
        BY <3>4
    <2>3. QED
      BY <2>1, <2>2
  <1>10. In(u) = In(w)
    <2>1. ASSUME NEW x \in In(u)
          PROVE  x \in In(w)
      <3>1. PICK i \in 1 .. M : u[i] = x
        BY <1>8 DEF In
      <3>2. h[i] \in 1 .. L /\ s[h[i]] = x /\ r[h[i]] \notin S
        BY <1>6, <1>7, <3>1
      <3>3. QED
        BY <1>9, <3>2
    <2>2. ASSUME NEW x \in In(w)
          PROVE  x \in In(u)
      <3>1. PICK n \in 1 .. L : s[n] = x
        BY <1>2
      <3>2. r[n] \notin S
        BY <1>9, <3>1
      <3>3. PICK i \in 1 .. M : h[i] = n
        BY <1>6, <3>2
      <3>4. u[i] = x
        BY <1>7, <3>1, <3>3
      <3>5. QED
        BY <1>8, <3>4 DEF In
    <2>3. QED
      BY <2>1, <2>2
  <1>11. Distinct(u)
    <2> SUFFICES ASSUME NEW i \in 1 .. M, NEW j \in 1 .. M, u[i] = u[j] PROVE i = j
      BY <1>8 DEF Distinct
    <2>1. h[i] \in 1 .. L /\ h[j] \in 1 .. L /\ s[h[i]] = s[h[j]]
      BY <1>7
    <2>2. h[i] = h[j]
      BY <1>2, <2>1 DEF Distinct
    <2>3. h[i] \in Nat /\ h[j] \in Nat /\ i \in Nat /\ j \in Nat
      BY <1>1, <1>6, <2>1
    <2>4. ~(i < j) /\ ~(j < i)
      BY <1>6, <2>2, <2>3
    <2>5. QED
      BY <2>3, <2>4
  <1>12. Ranked(d.orders, u)
    <2> SUFFICES ASSUME NEW i \in 1 .. M, NEW j \in 1 .. M, i < j
                 PROVE  Better(d.orders, u[i], u[j])
      BY <1>8 DEF Ranked
    <2>1. h[i] \in 1 .. L /\ h[j] \in 1 .. L /\ h[i] < h[j]
      BY <1>6, <1>7
    <2>2. Better(d.orders, s[h[i]], s[h[j]])
      BY <2>1 DEF Ranked, L
    <2>3. QED
      BY <1>7, <2>2
  <1>13. u = w
    BY <1>8, <1>10, <1>11, <1>12, RankedIsUnique
  <1>14. Items(d, u) = [i \in 1 .. M |-> Item(d, u[i])]
    BY <1>8 DEF Items
  <1>15. \A i \in 1 .. M : Item(d, u[i]) = v[i]
    BY <1>1, <1>6, <1>7
  <1>16. Items(d, u) = v
    BY <1>6, <1>14, <1>15
  <1>17. QED
    BY <1>3, <1>13, <1>16 DEF r

\* The orders of the list of orders.
LEMMA InItems ==
    ASSUME NEW d, d.orders \in [0 .. MaxOrders -> OrderRecords], NEW s \in Seq(Ids)
    PROVE  In(Items(d, s)) = {Item(d, x) : x \in In(s)}
  <1> DEFINE r == Items(d, s)
  <1>1. DOMAIN r = 1 .. Len(s) /\ \A n \in 1 .. Len(s) : r[n] = Item(d, s[n])
    BY ItemsAre
  <1>2. (\A n \in 1 .. Len(s) : s[n] \in In(s)) /\ \A x \in In(s) : \E n \in 1 .. Len(s) : s[n] = x
    BY Places
  <1> HIDE DEF r
  <1>3. ASSUME NEW y \in In(r)
        PROVE  y \in {Item(d, x) : x \in In(s)}
    <2>1. PICK n \in 1 .. Len(s) : y = r[n]
      BY <1>1 DEF In
    <2>2. QED
      BY <1>1, <1>2, <2>1
  <1>4. ASSUME NEW x \in In(s)
        PROVE  Item(d, x) \in In(r)
    <2>1. PICK n \in 1 .. Len(s) : s[n] = x
      BY <1>2
    <2>2. r[n] = Item(d, x)
      BY <1>1, <2>1
    <2>3. QED
      BY <1>1, <2>2 DEF In
  <1>5. QED
    BY <1>3, <1>4 DEF r

\* A list is ranked by the prices of its orders.
LEMMA RankedFrame ==
    ASSUME NEW orders, NEW O, NEW s \in Seq(Ids), Ranked(O, s), \A x \in In(s) : SameOrder(O[x], orders[x])
    PROVE  Ranked(orders, s)
  <1>1. \A n \in 1 .. Len(s) : s[n] \in In(s)
    BY Places
  <1>2. \A n \in 1 .. Len(s) : O[s[n]].price = orders[s[n]].price
    BY <1>1 DEF SameOrder
  <1>3. QED
    BY <1>2 DEF Ranked, Better

-----------------------------------------------------------------------------
(* The refinement: the orderbook as PriorityBook sees it. *)

AbsBook == [t \in OrderTypes |-> Content(Book(t))]
AbsQueue == [t \in OrderTypes |-> Content(Queue(t))]

\* The operators of PriorityBook on lists are those of PriceTime.
LEMMA SameOperators ==
    /\ \A s : Abstract!In(s) = In(s)
    /\ \A s, S : Abstract!Without(s, S) = Without(s, S)
    /\ \A descending, s, o : Abstract!Place(descending, s, o) = Place(descending, s, o)
    /\ Abstract!OrderTypes = OrderTypes
  <1>1. \A S : Abstract!Min(S) = Min(S)
    BY DEF Abstract!Min, Min
  <1>2. \A s, n, o : Abstract!InsertAt(s, n, o) = InsertAt(s, n, o)
    BY DEF Abstract!InsertAt, InsertAt
  <1>3. \A descending, s, o : Abstract!Place(descending, s, o) = Place(descending, s, o)
    BY <1>1, <1>2 DEF Abstract!Place, Place, Abstract!Before, Before
  <1>4. \A s : Abstract!In(s) = In(s)
    BY DEF Abstract!In, In
  <1>5. \A s, S : Abstract!Without(s, S) = Without(s, S)
    BY DEF Abstract!Without, Without
  <1>6. Abstract!OrderTypes = OrderTypes
    BY DEF Abstract!OrderTypes, OrderTypes
  <1>7. QED
    BY <1>3, <1>4, <1>5, <1>6

\* What PriorityBook says of the orders that enter.
LEMMA AbstractEntries ==
    ASSUME NEW t
    PROVE  /\ Abstract!Insert(t) <=>
                /\ tickStage = "RECEIVING_ORDERS"
                /\ AbsQueue' = AbsQueue /\ tickStage' = tickStage /\ tick' = tick
                /\ \E o \in Abstract!NewOrders : AbsBook' = [AbsBook EXCEPT ![t] = Place(OrderDescending, @, o)]
           /\ Abstract!Wait(t) <=>
                /\ tickStage # "RECEIVING_ORDERS"
                /\ AbsBook' = AbsBook /\ tickStage' = tickStage /\ tick' = tick
                /\ \E o \in Abstract!NewOrders : AbsQueue' = [AbsQueue EXCEPT ![t] = Append(@, o)]
           /\ Abstract!Move(t) <=>
                /\ tickStage = "MOVING_PENDING_ORDERS"
                /\ tickStage' = tickStage /\ tick' = tick
                /\ AbsQueue[t] # <<>>
                /\ AbsBook' = [AbsBook EXCEPT ![t] = Place(OrderDescending, @, Head(AbsQueue[t]))]
                /\ AbsQueue' = [AbsQueue EXCEPT ![t] = Tail(@)]
  <1>1. \A descending, s, o : Abstract!Place(descending, s, o) = Place(descending, s, o)
    BY SameOperators
  <1>2. Abstract!Insert(t) <=>
                /\ tickStage = "RECEIVING_ORDERS"
                /\ AbsQueue' = AbsQueue /\ tickStage' = tickStage /\ tick' = tick
                /\ \E o \in Abstract!NewOrders : AbsBook' = [AbsBook EXCEPT ![t] = Place(OrderDescending, @, o)]
    BY <1>1 DEF Abstract!Insert, AbsBook, AbsQueue
  <1>3. Abstract!Wait(t) <=>
                /\ tickStage # "RECEIVING_ORDERS"
                /\ AbsBook' = AbsBook /\ tickStage' = tickStage /\ tick' = tick
                /\ \E o \in Abstract!NewOrders : AbsQueue' = [AbsQueue EXCEPT ![t] = Append(@, o)]
    BY DEF Abstract!Wait, AbsBook, AbsQueue
  <1>4. Abstract!Move(t) <=>
                /\ tickStage = "MOVING_PENDING_ORDERS"
                /\ tickStage' = tickStage /\ tick' = tick
                /\ AbsQueue[t] # <<>>
                /\ AbsBook' = [AbsBook EXCEPT ![t] = Place(OrderDescending, @, Head(AbsQueue[t]))]
                /\ AbsQueue' = [AbsQueue EXCEPT ![t] = Tail(@)]
    BY <1>1 DEF Abstract!Move, AbsBook, AbsQueue
  <1>5. QED
    BY <1>2, <1>3, <1>4

\* And of those that leave.
LEMMA AbstractExits ==
    ASSUME NEW t
    PROVE  /\ Abstract!Cancel(t) <=>
                /\ tickStage = "RECEIVING_ORDERS"
                /\ AbsQueue' = AbsQueue /\ tickStage' = tickStage /\ tick' = tick
                /\ \E o \in In(AbsBook[t]) : AbsBook' = [AbsBook EXCEPT ![t] = Without(@, {o})]
           /\ Abstract!Expire(t) <=>
                /\ AbsQueue' = AbsQueue /\ tickStage' = tickStage /\ tick' = tick
                /\ \E S \in (SUBSET {o \in In(AbsBook[t]) : o.expiresInTick <= tick}) \ {{}} :
                      AbsBook' = [AbsBook EXCEPT ![t] = Without(@, S)]
           /\ Abstract!Serve(t) <=>
                /\ tickStage = "RUNNING_MATCHING"
                /\ AbsQueue' = AbsQueue /\ tickStage' = tickStage /\ tick' = tick
                /\ AbsBook[t] # <<>>
                /\ AbsBook' = [AbsBook EXCEPT ![t] = Tail(@)]
  <1>1. (\A s : Abstract!In(s) = In(s)) /\ \A s, S : Abstract!Without(s, S) = Without(s, S)
    BY SameOperators
  <1>2. Abstract!Cancel(t) <=>
                /\ tickStage = "RECEIVING_ORDERS"
                /\ AbsQueue' = AbsQueue /\ tickStage' = tickStage /\ tick' = tick
                /\ \E o \in In(AbsBook[t]) : AbsBook' = [AbsBook EXCEPT ![t] = Without(@, {o})]
    BY <1>1 DEF Abstract!Cancel, AbsBook, AbsQueue
  <1>3. Abstract!Expire(t) <=>
                /\ AbsQueue' = AbsQueue /\ tickStage' = tickStage /\ tick' = tick
                /\ \E S \in (SUBSET {o \in In(AbsBook[t]) : o.expiresInTick <= tick}) \ {{}} :
                      AbsBook' = [AbsBook EXCEPT ![t] = Without(@, S)]
    BY <1>1 DEF Abstract!Expire, AbsBook, AbsQueue
  <1>4. Abstract!Serve(t) <=>
                /\ tickStage = "RUNNING_MATCHING"
                /\ AbsQueue' = AbsQueue /\ tickStage' = tickStage /\ tick' = tick
                /\ AbsBook[t] # <<>>
                /\ AbsBook' = [AbsBook EXCEPT ![t] = Tail(@)]
    BY DEF Abstract!Serve, AbsBook, AbsQueue
  <1>5. QED
    BY <1>2, <1>3, <1>4

\* The lists of any Data, as PriorityBook sees them.
BookView(d) == [t \in OrderTypes |-> [n \in DOMAIN ListOf(d, d.firstId[t]) |-> Item(d, ListOf(d, d.firstId[t])[n])]]
QueueView(d) == [t \in OrderTypes |-> [n \in DOMAIN QueueOf(d, t) |-> Item(d, QueueOf(d, t)[n])]]

\* It sees those of the orderbook.
LEMMA ViewIs ==
    /\ AbsBook = BookView(data) /\ AbsBook' = BookView(data')
    /\ AbsQueue = QueueView(data) /\ AbsQueue' = QueueView(data')
  <1>1. AbsBook = BookView(data)
    BY DEF AbsBook, BookView, Content, Book, ListFrom, ListOf, Item
  <1>2. AbsBook' = BookView(data')
    BY DEF AbsBook, BookView, Content, Book, ListFrom, ListOf, Item
  <1>3. AbsQueue = QueueView(data)
    BY DEF AbsQueue, QueueView, Content, Queue, QueueOf, Item
  <1>4. AbsQueue' = QueueView(data')
    BY DEF AbsQueue, QueueView, Content, Queue, QueueOf, Item
  <1>5. QED
    BY <1>1, <1>2, <1>3, <1>4

\* They are the lists of the invariant.
LEMMA ViewOfLists ==
    ASSUME NEW d, NEW b, NEW q, Good(d, b, q, {})
    PROVE  /\ BookView(d) = [t \in OrderTypes |-> Items(d, b[t])]
           /\ QueueView(d) = [t \in OrderTypes |-> Items(d, q[t])]
  <1>1. ASSUME NEW t \in OrderTypes
        PROVE  /\ ListOf(d, d.firstId[t]) = b[t] /\ QueueOf(d, t) = q[t]
               /\ DOMAIN b[t] = 1 .. Len(b[t]) /\ DOMAIN q[t] = 1 .. Len(q[t])
    <2>1. ListOf(d, d.firstId[t]) = b[t] /\ QueueOf(d, t) = q[t]
      BY ListsAre
    <2>2. b[t] \in Seq(Ids) /\ q[t] \in Seq(Ids)
      BY GoodFacts
    <2>3. QED
      BY <2>1, <2>2, Places
  <1>2. \A t \in OrderTypes : [n \in DOMAIN ListOf(d, d.firstId[t]) |-> Item(d, ListOf(d, d.firstId[t])[n])] = Items(d, b[t])
    BY <1>1 DEF Items
  <1>3. \A t \in OrderTypes : [n \in DOMAIN QueueOf(d, t) |-> Item(d, QueueOf(d, t)[n])] = Items(d, q[t])
    BY <1>1 DEF Items
  <1>4. QED
    BY <1>2, <1>3 DEF BookView, QueueView

\* What PriorityBook sees of a state, and of the next one.
LEMMA Views ==
    ASSUME IInv, NEW b2, NEW q2, Good(data', b2, q2, {})
    PROVE  /\ AbsBook = [t \in OrderTypes |-> Items(data, Books(data)[t])]
           /\ AbsQueue = [t \in OrderTypes |-> Items(data, Queues(data)[t])]
           /\ AbsBook' = [t \in OrderTypes |-> Items(data', b2[t])]
           /\ AbsQueue' = [t \in OrderTypes |-> Items(data', q2[t])]
  <1>1. Good(data, Books(data), Queues(data), {})
    BY DEF IInv
  <1>2. /\ AbsBook = BookView(data) /\ AbsBook' = BookView(data')
        /\ AbsQueue = QueueView(data) /\ AbsQueue' = QueueView(data')
    BY ViewIs
  <1>3. BookView(data) = [t \in OrderTypes |-> Items(data, Books(data)[t])]
    BY <1>1, ViewOfLists
  <1>4. QueueView(data) = [t \in OrderTypes |-> Items(data, Queues(data)[t])]
    BY <1>1, ViewOfLists
  <1>5. BookView(data') = [t \in OrderTypes |-> Items(data', b2[t])]
    BY ViewOfLists
  <1>6. QueueView(data') = [t \in OrderTypes |-> Items(data', q2[t])]
    BY ViewOfLists
  <1>7. QED
    BY <1>2, <1>3, <1>4, <1>5, <1>6

\* A view of which one list changed.
LEMMA ViewWith ==
    ASSUME NEW d, NEW e, NEW b, NEW b2, NEW t \in OrderTypes, NEW X, Items(e, b2[t]) = X,
           \A u \in OrderTypes : u # t => Items(e, b2[u]) = Items(d, b[u]),
           NEW A, A = [u \in OrderTypes |-> Items(d, b[u])],
           NEW B, B = [u \in OrderTypes |-> Items(e, b2[u])]
    PROVE  B = [A EXCEPT ![t] = X]
  <1>1. \A u \in OrderTypes : Items(e, b2[u]) = [A EXCEPT ![t] = X][u]
    OBVIOUS
  <1>2. QED
    BY <1>1

\* A view of which nothing changed.
LEMMA SameView ==
    ASSUME NEW d, NEW e, NEW b, NEW b2, \A u \in OrderTypes : Items(e, b2[u]) = Items(d, b[u]),
           NEW A, A = [u \in OrderTypes |-> Items(d, b[u])],
           NEW B, B = [u \in OrderTypes |-> Items(e, b2[u])]
    PROVE  B = A
  OBVIOUS

\* An order whose id no list holds is a new one.
LEMMA NewOrderIs ==
    ASSUME IInv, NEW id \in Ids, \A x \in Ids : data.orders[x].id # 0 => x # id,
           NEW price \in Prices, NEW lifespan \in Lifespans,
           NEW o, o = [id |-> id, price |-> price, expiresInTick |-> tick + lifespan]
    PROVE  o \in Abstract!NewOrders
  <1> DEFINE b == Books(data)
             q == Queues(data)
             Used == UNION {In(AbsBook[t]) \union In(AbsQueue[t]) : t \in OrderTypes}
  <1>1. Good(data, b, q, {})
    BY DEF IInv
  <1>2. \A t \in OrderTypes : AbsBook[t] = Items(data, b[t]) /\ AbsQueue[t] = Items(data, q[t])
    <2>1. AbsBook = BookView(data) /\ AbsQueue = QueueView(data)
      BY ViewIs
    <2>2. BookView(data) = [t \in OrderTypes |-> Items(data, b[t])]
      BY <1>1, ViewOfLists
    <2>3. QueueView(data) = [t \in OrderTypes |-> Items(data, q[t])]
      BY <1>1, ViewOfLists
    <2>4. QED
      BY <2>1, <2>2, <2>3
  <1> HIDE DEF b, q
  <1>3. ASSUME NEW p \in Used
        PROVE  p.id # id
    <2>1. PICK t \in OrderTypes : p \in In(AbsBook[t]) \union In(AbsQueue[t])
      OBVIOUS
    <2>2. b[t] \in Seq(Ids) /\ q[t] \in Seq(Ids) /\ data.orders \in [0 .. MaxOrders -> OrderRecords]
      BY <1>1, GoodFacts
    <2>3. In(Items(data, b[t])) = {Item(data, x) : x \in In(b[t])}
      BY <2>2, InItems
    <2>4. In(Items(data, q[t])) = {Item(data, x) : x \in In(q[t])}
      BY <2>2, InItems
    <2>5. PICK x \in In(b[t]) \union In(q[t]) : p = Item(data, x)
      BY <1>2, <2>1, <2>3, <2>4
    <2>6. x \in Ids /\ data.orders[x].id = x
      BY <1>1, <2>5, Apart
    <2>7. x # 0
      BY <2>6, OrderBookAssumption DEF Ids
    <2>8. x # id
      BY <2>6, <2>7
    <2>9. p.id = x
      BY <2>2, <2>5, <2>6, ItemIs
    <2>10. QED
      BY <2>8, <2>9
  <1>4. Abstract!UsedIds = {p.id : p \in Used}
    BY SameOperators DEF Abstract!UsedIds, AbsBook, AbsQueue
  <1>5. id \notin Abstract!UsedIds
    BY <1>3, <1>4
  <1>6. QED
    BY <1>5 DEF Abstract!NewOrders

\* An insertion between two ticks.
LEMMA InsertRefines ==
    ASSUME IInv, NEW t \in OrderTypes, NEW price \in Prices, NEW lifespan \in Lifespans, NEW hint \in 0 .. NO_HINT,
           InsertOrder(t, price, lifespan, hint)
    PROVE  Abstract!Insert(t)
  <1> DEFINE id == lastOrderId'
             b == Books(data)
             q == Queues(data)
             o == Item(data', id)
             S0 == b[t]
  <1>1. PICK at : /\ Spot(data.orders, b[t], price, at)
                  /\ Good(data', BooksWith(b, t, Inserted(b[t], at, id)), q, {})
                  /\ Stores(id, t, price, tick + lifespan)
    BY InsertEffect
  <1> DEFINE b2 == BooksWith(b, t, Inserted(b[t], at, id))
  <1>2. /\ id \in Ids /\ id \in 0 .. MaxOrders
        /\ \A x \in Ids : data.orders[x].id # 0 => x < id
    BY NewId DEF InsertOrder
  <1>3. Good(data, b, q, {}) /\ Good(data', b2, q, {})
    BY <1>1 DEF IInv
  <1>4. tickStage = "RECEIVING_ORDERS" /\ tickStage' = tickStage /\ tick' = tick
    BY DEF InsertOrder
  <1>5. b2[t] = Inserted(b[t], at, id) /\ \A u \in OrderTypes : u # t => b2[u] = b[u]
    BY DEF BooksWith
  <1>6. /\ AbsBook = [u \in OrderTypes |-> Items(data, b[u])]
        /\ AbsQueue = [u \in OrderTypes |-> Items(data, q[u])]
        /\ AbsBook' = [u \in OrderTypes |-> Items(data', b2[u])]
        /\ AbsQueue' = [u \in OrderTypes |-> Items(data', q[u])]
    BY <1>3, Views
  <1> HIDE DEF b, q, b2, id
  <1>7. /\ data'.orders[id].price = price /\ data'.orders[id].expiresInTick = tick + lifespan
        /\ \A x \in 0 .. MaxOrders : x # id => SameOrder(data'.orders[x], data.orders[x])
    BY <1>1 DEF Stores, SameOrder, Created
  <1>8. \A x \in Ids : x \in 0 .. MaxOrders /\ (x < id => x # id)
    BY <1>2, OrderBookAssumption DEF Ids
  <1>9. \A x \in Ids : data.orders[x].id # 0 => x # id
    BY <1>2, <1>8
  <1>10. o = [id |-> id, price |-> price, expiresInTick |-> tick + lifespan]
    BY <1>7 DEF Item
  <1>11. o \in Abstract!NewOrders
    <2> HIDE DEF o
    <2>1. QED
      BY <1>2, <1>9, <1>10, NewOrderIs
  <1>12. ASSUME NEW u \in OrderTypes
         PROVE  /\ Items(data', b[u]) = Items(data, b[u]) /\ Items(data', q[u]) = Items(data, q[u])
                /\ b[u] \in Seq(Ids) /\ Distinct(b[u])
                /\ \A x \in In(b[u]) : x # id /\ SameOrder(data'.orders[x], data.orders[x])
    <2>1. \A x \in In(b[u]) \union In(q[u]) : x \in Ids /\ data.orders[x].id = x
      BY <1>3, Apart
    <2>2. \A x \in Ids : x # 0
      BY OrderBookAssumption DEF Ids
    <2>3. \A x \in In(b[u]) \union In(q[u]) : x # id /\ SameOrder(data'.orders[x], data.orders[x])
      BY <1>7, <1>8, <1>9, <2>1, <2>2
    <2>4. b[u] \in Seq(Ids) /\ q[u] \in Seq(Ids) /\ Distinct(b[u])
      BY <1>3, GoodFacts
    <2>5. Items(data', b[u]) = Items(data, b[u])
      BY <2>3, <2>4, SameItems
    <2>6. Items(data', q[u]) = Items(data, q[u])
      BY <2>3, <2>4, SameItems
    <2>7. QED
      BY <2>3, <2>4, <2>5, <2>6
  <1>13. Items(data', b2[t]) = Place(OrderDescending, Items(data', b[t]), Item(data', id))
    <2>1. data'.orders \in [0 .. MaxOrders -> OrderRecords]
      BY <1>3, GoodFacts
    <2>2. \A x \in In(b[t]) : data'.orders[x].price = data.orders[x].price
      BY <1>12 DEF SameOrder
    <2>3. b[t] \in Seq(Ids) /\ Distinct(b[t]) /\ id \notin In(b[t])
      BY <1>12
    <2>4. Spot(data'.orders, b[t], price, at)
      BY <1>1, <2>2, <2>3, SpotFrame
    <2>5. Spot(data'.orders, b[t], data'.orders[id].price, at)
      BY <1>7, <2>4
    <2>6. Items(data', Inserted(b[t], at, id)) = Place(OrderDescending, Items(data', b[t]), Item(data', id))
      BY <1>2, <2>1, <2>3, <2>5, InsertedIsPlaced
    <2>7. QED
      BY <1>5, <2>6
  <1>14. AbsBook' = [AbsBook EXCEPT ![t] = Place(OrderDescending, AbsBook[t], o)]
    <2>1. Items(data', b2[t]) = Place(OrderDescending, AbsBook[t], o)
      BY <1>6, <1>12, <1>13
    <2>2. \A u \in OrderTypes : u # t => Items(data', b2[u]) = Items(data, b[u])
      BY <1>5, <1>12
    <2> HIDE DEF o
    <2>3. QED
      BY <1>6, <2>1, <2>2, ViewWith
  <1>15. AbsQueue' = AbsQueue
    BY <1>6, <1>12, SameView
  <1> HIDE DEF o
  <1>16. QED
    BY <1>4, <1>11, <1>14, <1>15, AbstractEntries

\* An insertion during a tick.
LEMMA WaitRefines ==
    ASSUME IInv, NEW t \in OrderTypes, NEW price \in Prices, NEW lifespan \in Lifespans,
           InsertOrderAsPending(t, price, lifespan)
    PROVE  Abstract!Wait(t)
  <1> DEFINE id == lastOrderId'
             b == Books(data)
             q == Queues(data)
             o == Item(data', id)
             w == Inserted(q[t], Len(q[t]) + 1, id)
             q2 == QueuesWith(q, t, w)
  <1>1. Good(data', b, q2, {}) /\ Stores(id, t, price, tick + lifespan)
    BY WaitEffect
  <1>2. /\ id \in Ids /\ id \in 0 .. MaxOrders
        /\ \A x \in Ids : data.orders[x].id # 0 => x < id
    BY NewId DEF InsertOrderAsPending
  <1>3. Good(data, b, q, {})
    BY DEF IInv
  <1>4. tickStage # "RECEIVING_ORDERS" /\ tickStage' = tickStage /\ tick' = tick
    BY DEF InsertOrderAsPending
  <1>5. q2[t] = w /\ \A u \in OrderTypes : u # t => q2[u] = q[u]
    BY DEF QueuesWith
  <1>6. /\ AbsBook = [u \in OrderTypes |-> Items(data, b[u])]
        /\ AbsQueue = [u \in OrderTypes |-> Items(data, q[u])]
        /\ AbsBook' = [u \in OrderTypes |-> Items(data', b[u])]
        /\ AbsQueue' = [u \in OrderTypes |-> Items(data', q2[u])]
    BY <1>1, <1>3, Views
  <1> HIDE DEF b, q, q2, id
  <1>7. /\ data'.orders[id].price = price /\ data'.orders[id].expiresInTick = tick + lifespan
        /\ \A x \in 0 .. MaxOrders : x # id => SameOrder(data'.orders[x], data.orders[x])
    BY <1>1 DEF Stores, SameOrder, Created
  <1>8. \A x \in Ids : x \in 0 .. MaxOrders /\ (x < id => x # id)
    BY <1>2, OrderBookAssumption DEF Ids
  <1>9. \A x \in Ids : data.orders[x].id # 0 => x # id
    BY <1>2, <1>8
  <1>10. o = [id |-> id, price |-> price, expiresInTick |-> tick + lifespan]
    BY <1>7 DEF Item
  <1>11. o \in Abstract!NewOrders
    <2> HIDE DEF o
    <2>1. QED
      BY <1>2, <1>9, <1>10, NewOrderIs
  <1>12. ASSUME NEW u \in OrderTypes
         PROVE  /\ Items(data', b[u]) = Items(data, b[u]) /\ Items(data', q[u]) = Items(data, q[u])
                /\ q[u] \in Seq(Ids) /\ Distinct(q[u]) /\ id \notin In(q[u])
    <2>1. \A x \in In(b[u]) \union In(q[u]) : x \in Ids /\ data.orders[x].id = x
      BY <1>3, Apart
    <2>2. \A x \in Ids : x # 0
      BY OrderBookAssumption DEF Ids
    <2>3. \A x \in In(b[u]) \union In(q[u]) : x # id /\ SameOrder(data'.orders[x], data.orders[x])
      BY <1>7, <1>8, <1>9, <2>1, <2>2
    <2>4. b[u] \in Seq(Ids) /\ q[u] \in Seq(Ids) /\ Distinct(q[u])
      BY <1>3, GoodFacts
    <2>5. Items(data', b[u]) = Items(data, b[u])
      BY <2>3, <2>4, SameItems
    <2>6. Items(data', q[u]) = Items(data, q[u])
      BY <2>3, <2>4, SameItems
    <2>7. QED
      BY <2>3, <2>4, <2>5, <2>6
  <1>13. Items(data', w) = Append(Items(data', q[t]), Item(data', id))
    <2>1. data'.orders \in [0 .. MaxOrders -> OrderRecords]
      BY <1>1, GoodFacts
    <2>2. q[t] \in Seq(Ids) /\ Distinct(q[t]) /\ id \notin In(q[t])
      BY <1>12
    <2>3. PICK l : l = w
      OBVIOUS
    <2>4. Items(data', l) = Append(Items(data', q[t]), Item(data', id))
      BY <1>2, <2>1, <2>2, <2>3, InsertedIsAppended
    <2>5. QED
      BY <2>3, <2>4
  <1> HIDE DEF w
  <1>14. AbsQueue' = [AbsQueue EXCEPT ![t] = Append(AbsQueue[t], o)]
    <2>1. Items(data', q2[t]) = Append(AbsQueue[t], o)
      BY <1>5, <1>6, <1>12, <1>13
    <2>2. \A u \in OrderTypes : u # t => Items(data', q2[u]) = Items(data, q[u])
      BY <1>5, <1>12
    <2> HIDE DEF o
    <2>3. QED
      BY <1>6, <2>1, <2>2, ViewWith
  <1>15. AbsBook' = AbsBook
    BY <1>6, <1>12, SameView
  <1> HIDE DEF o
  <1>16. QED
    BY <1>4, <1>11, <1>14, <1>15, AbstractEntries

\* The move of a pending order.
LEMMA MoveRefines ==
    ASSUME IInv, HintsInBook, NEW t \in OrderTypes, NEW hint \in 0 .. NO_HINT, MovePendingOrder(t, hint)
    PROVE  Abstract!Move(t)
  <1> DEFINE b == Books(data)
             q == Queues(data)
             id == q[t][1]
             o == Item(data, id)
             price == data.orders[id].price
  <1>1. PICK at : Moves(t, at)
    BY MoveEffect
  <1> DEFINE b2 == BooksWith(b, t, Inserted(b[t], at, id))
             q2 == QueuesWith(q, t, Tail(q[t]))
  <1>2. /\ q[t] # <<>>
        /\ Spot(data.orders, b[t], price, at)
        /\ Good(data', b2, q2, {})
        /\ \A x \in 0 .. MaxOrders : SameOrder(data'.orders[x], data.orders[x])
    BY <1>1 DEF Moves
  <1>3. Good(data, b, q, {})
    BY DEF IInv
  <1>4. tickStage = "MOVING_PENDING_ORDERS" /\ tickStage' = tickStage /\ tick' = tick
    BY DEF MovePendingOrder
  <1>5. /\ q2[t] = Tail(q[t]) /\ \A u \in OrderTypes : u # t => q2[u] = q[u]
        /\ b2[t] = Inserted(b[t], at, id) /\ \A u \in OrderTypes : u # t => b2[u] = b[u]
    BY DEF QueuesWith, BooksWith
  <1>6. /\ AbsBook = [u \in OrderTypes |-> Items(data, b[u])]
        /\ AbsQueue = [u \in OrderTypes |-> Items(data, q[u])]
        /\ AbsBook' = [u \in OrderTypes |-> Items(data', b2[u])]
        /\ AbsQueue' = [u \in OrderTypes |-> Items(data', q2[u])]
    BY <1>2, <1>3, Views
  <1> HIDE DEF b, q, q2, b2
  <1>7. \A x \in Ids : x \in 0 .. MaxOrders
    BY OrderBookAssumption DEF Ids
  <1>8. ASSUME NEW u \in OrderTypes
        PROVE  /\ Items(data', b[u]) = Items(data, b[u]) /\ Items(data', q[u]) = Items(data, q[u])
               /\ b[u] \in Seq(Ids) /\ q[u] \in Seq(Ids) /\ Distinct(b[u]) /\ Distinct(q[u])
               /\ data.orders \in [0 .. MaxOrders -> OrderRecords]
    <2>1. \A x \in In(b[u]) \union In(q[u]) : SameOrder(data'.orders[x], data.orders[x])
      BY <1>2, <1>3, <1>7, Apart
    <2>2. /\ b[u] \in Seq(Ids) /\ q[u] \in Seq(Ids) /\ Distinct(b[u]) /\ Distinct(q[u])
          /\ data.orders \in [0 .. MaxOrders -> OrderRecords]
      BY <1>3, GoodFacts
    <2>3. Items(data', b[u]) = Items(data, b[u])
      BY <2>1, <2>2, SameItems
    <2>4. Items(data', q[u]) = Items(data, q[u])
      BY <2>1, <2>2, SameItems
    <2>5. QED
      BY <2>2, <2>3, <2>4
  <1>9. id \in In(q[t]) /\ id \in Ids /\ id \notin In(b[t])
    <2>1. Head(q[t]) \in In(q[t]) /\ Head(q[t]) = q[t][1]
      BY <1>2, <1>8, TailList
    <2>2. id \in In(q[t])
      BY <2>1
    <2>3. id \in Ids
      BY <1>3, <2>2, Apart
    <2>4. \A x \in In(b[t]) : x \notin In(q[t])
      BY <1>3, Apart
    <2>5. QED
      BY <2>2, <2>3, <2>4
  <1> HIDE DEF id
  <1>10. Items(data', b2[t]) = Place(OrderDescending, AbsBook[t], o)
    <2>1. b[t] \in Seq(Ids) /\ Distinct(b[t]) /\ data.orders \in [0 .. MaxOrders -> OrderRecords]
      BY <1>8
    <2>2. Items(data, Inserted(b[t], at, id)) = Place(OrderDescending, Items(data, b[t]), Item(data, id))
      BY <1>2, <1>9, <2>1, InsertedIsPlaced
    <2>3. b2[t] \in Seq(Ids) /\ \A x \in In(b2[t]) : SameOrder(data'.orders[x], data.orders[x])
      <3>1. b2[t] \in Seq(Ids)
        BY <1>2, GoodFacts
      <3>2. \A x \in In(b2[t]) : x \in Ids
        BY <1>2, Apart
      <3>3. QED
        BY <1>2, <1>7, <3>1, <3>2
    <2>4. Items(data', b2[t]) = Items(data, b2[t])
      BY <2>3, SameItems
    <2>5. QED
      BY <1>5, <1>6, <2>2, <2>4
  <1>11. Items(data', q2[t]) = Tail(AbsQueue[t]) /\ AbsQueue[t] # <<>> /\ Head(AbsQueue[t]) = o
    <2>1. /\ q[t] \in Seq(Ids) /\ Distinct(q[t]) /\ q[t] # <<>> /\ data.orders \in [0 .. MaxOrders -> OrderRecords]
          /\ AbsQueue[t] = Items(data, q[t])
      BY <1>2, <1>6, <1>8
    <2>2. Items(data, Tail(q[t])) = Tail(Items(data, q[t])) /\ Items(data, q[t]) # <<>>
      BY <2>1, TailItems
    <2>3. Head(Items(data, q[t])) = Item(data, q[t][1])
      BY <2>1, TailItems
    <2>4. q2[t] \in Seq(Ids) /\ \A x \in In(q2[t]) : SameOrder(data'.orders[x], data.orders[x])
      <3>1. q2[t] \in Seq(Ids)
        BY <1>2, GoodFacts
      <3>2. \A x \in In(q2[t]) : x \in Ids
        BY <1>2, Apart
      <3>3. QED
        BY <1>2, <1>7, <3>1, <3>2
    <2>5. Items(data', q2[t]) = Items(data, q2[t])
      BY <2>4, SameItems
    <2>6. QED
      BY <1>5, <2>1, <2>2, <2>3, <2>5 DEF id
  <1> HIDE DEF o
  <1>12. AbsBook' = [AbsBook EXCEPT ![t] = Place(OrderDescending, AbsBook[t], o)]
    <2>1. \A u \in OrderTypes : u # t => Items(data', b2[u]) = Items(data, b[u])
      BY <1>5, <1>8
    <2>2. QED
      BY <1>6, <1>10, <2>1, ViewWith
  <1>13. AbsQueue' = [AbsQueue EXCEPT ![t] = Tail(AbsQueue[t])]
    <2>1. \A u \in OrderTypes : u # t => Items(data', q2[u]) = Items(data, q[u])
      BY <1>5, <1>8
    <2>2. Items(data', q2[t]) = Tail(AbsQueue[t])
      BY <1>11
    <2>3. QED
      BY <1>6, <2>1, <2>2, ViewWith
  <1>14. QED
    BY <1>4, <1>11, <1>12, <1>13, AbstractEntries

\* The book of type t lost the orders that are not in b2, and nothing else changed.
IsWithout(t, b2) ==
    /\ AbsBook' = [AbsBook EXCEPT ![t] = Without(AbsBook[t], {Item(data, x) : x \in In(Books(data)[t]) \ In(b2[t])})]
    /\ AbsBook[t] = Items(data, Books(data)[t])
    /\ AbsBook'[t] = Items(data, b2[t])
    /\ In(AbsBook[t]) = {Item(data, x) : x \in In(Books(data)[t])}
    /\ AbsQueue' = AbsQueue

\* Whatever takes orders out of one book.
LEMMA ShrinkIsWithout ==
    ASSUME IInv, NEW t \in OrderTypes, NEW b2, Good(data', b2, Queues(data), {}), Keeps,
           \A u \in OrderTypes : u # t => b2[u] = Books(data)[u],
           In(b2[t]) \subseteq In(Books(data)[t])
    PROVE  IsWithout(t, b2)
  <1> DEFINE b == Books(data)
             q == Queues(data)
             S == {Item(data, x) : x \in In(b[t]) \ In(b2[t])}
  <1>1. Good(data, b, q, {}) /\ Good(data', b2, q, {})
    BY DEF IInv
  <1>2. /\ AbsBook = [u \in OrderTypes |-> Items(data, b[u])]
        /\ AbsQueue = [u \in OrderTypes |-> Items(data, q[u])]
        /\ AbsBook' = [u \in OrderTypes |-> Items(data', b2[u])]
        /\ AbsQueue' = [u \in OrderTypes |-> Items(data', q[u])]
    BY <1>1, Views
  <1>3. \A u \in OrderTypes : u # t => b2[u] = b[u]
    OBVIOUS
  <1>4. In(b2[t]) \subseteq In(b[t])
    OBVIOUS
  <1> HIDE DEF b, q
  <1>5. \A x \in Ids : x \in 0 .. MaxOrders /\ x # 0
    BY OrderBookAssumption DEF Ids
  <1>6. ASSUME NEW u \in OrderTypes
        PROVE  /\ Items(data', b2[u]) = Items(data, b2[u]) /\ Items(data', q[u]) = Items(data, q[u])
               /\ b[u] \in Seq(Ids) /\ b2[u] \in Seq(Ids) /\ Distinct(b[u]) /\ Distinct(b2[u])
               /\ Ranked(data.orders, b[u]) /\ Ranked(data.orders, b2[u])
               /\ data.orders \in [0 .. MaxOrders -> OrderRecords]
    <2>1. \A x \in In(b2[u]) \union In(q[u]) : x \in Ids /\ data'.orders[x].id = x
      BY <1>1, Apart
    <2>2. \A x \in In(b2[u]) \union In(q[u]) : SameOrder(data'.orders[x], data.orders[x])
      BY <1>5, <2>1 DEF Keeps
    <2>3. b2[u] \in Seq(Ids) /\ q[u] \in Seq(Ids) /\ Distinct(b2[u]) /\ Ranked(data'.orders, b2[u])
      BY <1>1, GoodFacts
    <2>4. b[u] \in Seq(Ids) /\ Distinct(b[u]) /\ Ranked(data.orders, b[u]) /\ data.orders \in [0 .. MaxOrders -> OrderRecords]
      BY <1>1, GoodFacts
    <2>5. Items(data', b2[u]) = Items(data, b2[u])
      BY <2>2, <2>3, SameItems
    <2>6. Items(data', q[u]) = Items(data, q[u])
      BY <2>2, <2>3, SameItems
    <2>7. \A x \in In(b2[u]) : SameOrder(data'.orders[x], data.orders[x])
      BY <2>2
    <2>8. Ranked(data.orders, b2[u])
      BY <2>3, <2>7, RankedFrame
    <2>9. QED
      BY <2>3, <2>4, <2>5, <2>6, <2>8
  <1>7. Items(data, b2[t]) = Without(Items(data, b[t]), S)
    <2>1. PICK R : R = S
      OBVIOUS
    <2>2. /\ data.orders \in [0 .. MaxOrders -> OrderRecords] /\ b[t] \in Seq(Ids) /\ b2[t] \in Seq(Ids)
          /\ Ranked(data.orders, b[t]) /\ Ranked(data.orders, b2[t]) /\ Distinct(b[t]) /\ Distinct(b2[t])
          /\ In(b2[t]) \subseteq In(b[t])
          /\ R = {Item(data, x) : x \in In(b[t]) \ In(b2[t])}
      BY <1>4, <1>6, <2>1
    <2>3. Items(data, b2[t]) = Without(Items(data, b[t]), R)
      BY <2>2, WithoutItems
    <2>4. QED
      BY <2>1, <2>3
  <1>8. In(Items(data, b[t])) = {Item(data, x) : x \in In(b[t])}
    <2>1. data.orders \in [0 .. MaxOrders -> OrderRecords] /\ b[t] \in Seq(Ids)
      BY <1>6
    <2>2. QED
      BY <2>1, InItems
  <1> HIDE DEF S
  <1>9. AbsBook' = [AbsBook EXCEPT ![t] = Without(AbsBook[t], S)]
    <2>1. Items(data', b2[t]) = Without(AbsBook[t], S)
      BY <1>2, <1>6, <1>7
    <2>2. \A u \in OrderTypes : u # t => Items(data', b2[u]) = Items(data, b[u])
      BY <1>3, <1>6
    <2>3. QED
      BY <1>2, <2>1, <2>2, ViewWith
  <1>10. AbsQueue' = AbsQueue
    BY <1>2, <1>6, SameView
  <1>11. AbsBook[t] = Items(data, b[t]) /\ AbsBook'[t] = Items(data, b2[t])
    BY <1>2, <1>6
  <1>12. In(AbsBook[t]) = {Item(data, x) : x \in In(b[t])}
    BY <1>8, <1>11
  <1>13. QED
    BY <1>9, <1>10, <1>11, <1>12 DEF IsWithout, b, S

\* An order that leaves its book, as PriorityBook sees it.
LEMMA RemovalIsWithout ==
    ASSUME IInv, NEW t \in OrderTypes, NEW at, RemovesOne(t, at), NEW id, id = Books(data)[t][at],
           NEW b2, b2 = BooksWith(Books(data), t, Cut(Books(data)[t], at))
    PROVE  /\ IsWithout(t, b2) /\ id \in In(Books(data)[t])
           /\ In(Books(data)[t]) \ In(b2[t]) = {id} /\ b2[t] = Cut(Books(data)[t], at)
  <1> DEFINE b == Books(data)
  <1>1. Good(data, b, Queues(data), {})
    BY DEF IInv
  <1>2. at \in 1 .. Len(b[t]) /\ Good(data', b2, Queues(data), {}) /\ Keeps
    BY DEF RemovesOne
  <1>3. b2[t] = Cut(b[t], at) /\ \A u \in OrderTypes : u # t => b2[u] = b[u]
    BY DEF BooksWith
  <1> HIDE DEF b
  <1>4. b[t] \in Seq(Ids) /\ Distinct(b[t])
    BY <1>1, GoodFacts
  <1>5. In(b2[t]) = In(b[t]) \ {b[t][at]}
    BY <1>2, <1>3, <1>4, CutPlaces
  <1>6. b[t][at] \in In(b[t])
    BY <1>2, <1>4, Places
  <1>7. /\ Good(data', b2, Queues(data), {}) /\ Keeps
        /\ \A u \in OrderTypes : u # t => b2[u] = Books(data)[u]
        /\ In(b2[t]) \subseteq In(Books(data)[t])
    BY <1>2, <1>3, <1>5 DEF b
  <1>8. IsWithout(t, b2)
    BY <1>7, ShrinkIsWithout
  <1>9. id \in In(b[t]) /\ In(b[t]) \ In(b2[t]) = {id}
    BY <1>5, <1>6 DEF b
  <1>10. QED
    BY <1>3, <1>8, <1>9 DEF b

\* A cancellation.
LEMMA CancelRefines ==
    ASSUME IInv, NEW id \in Ids, NEW hint \in 0 .. MaxOrders, CancelOrder(id, hint)
    PROVE  \E t \in OrderTypes : Abstract!Cancel(t)
  <1>1. PICK t \in OrderTypes : \E at : RemovesOne(t, at) /\ Books(data)[t][at] = id
    BY CancelEffect
  <1>2. PICK at : RemovesOne(t, at) /\ Books(data)[t][at] = id
    BY <1>1
  <1>3. PICK b2 : b2 = BooksWith(Books(data), t, Cut(Books(data)[t], at))
    OBVIOUS
  <1>4. IsWithout(t, b2) /\ id \in In(Books(data)[t]) /\ In(Books(data)[t]) \ In(b2[t]) = {id}
    BY <1>2, <1>3, RemovalIsWithout
  <1>5. PICK o : o = Item(data, id)
    OBVIOUS
  <1>6. {Item(data, x) : x \in In(Books(data)[t]) \ In(b2[t])} = {o}
    BY <1>4, <1>5
  <1>7. AbsBook' = [AbsBook EXCEPT ![t] = Without(AbsBook[t], {o})] /\ AbsQueue' = AbsQueue
    BY <1>4, <1>6 DEF IsWithout
  <1>8. o \in In(AbsBook[t])
    BY <1>4, <1>5 DEF IsWithout
  <1>9. tickStage = "RECEIVING_ORDERS" /\ tickStage' = tickStage /\ tick' = tick
    BY DEF CancelOrder
  <1>10. Abstract!Cancel(t)
    BY <1>7, <1>8, <1>9, AbstractExits
  <1>11. QED
    BY <1>10

\* The removal of expired orders.
LEMMA ExpireRefines ==
    ASSUME IInv, NEW t \in OrderTypes, NEW id \in 0 .. MaxOrders, NEW hint \in 0 .. MaxOrders, NEW steps \in 1 .. MaxSteps,
           ProcessExpired(t, id, hint, steps)
    PROVE  Abstract!Expire(t)
  <1>1. PICK b2 : RemovesExpired(t, b2)
    BY ExpireEffect
  <1> DEFINE b == Books(data)
             S == {Item(data, x) : x \in In(b[t]) \ In(b2[t])}
  <1>2. /\ Good(data', b2, Queues(data), {}) /\ Keeps
        /\ \A u \in OrderTypes : u # t => b2[u] = Books(data)[u]
        /\ In(b2[t]) \subseteq In(Books(data)[t])
    BY <1>1 DEF RemovesExpired
  <1>3. IsWithout(t, b2)
    BY <1>2, ShrinkIsWithout
  <1>4. /\ AbsBook' = [AbsBook EXCEPT ![t] = Without(AbsBook[t], S)]
        /\ In(AbsBook[t]) = {Item(data, x) : x \in In(b[t])}
        /\ AbsQueue' = AbsQueue
    BY <1>3 DEF IsWithout
  <1>5. \A x \in In(b[t]) : x \notin In(b2[t]) => data.orders[x].expiresInTick <= tick
    BY <1>1 DEF RemovesExpired, isExpired
  <1>6. In(b2[t]) # In(b[t]) /\ In(b2[t]) \subseteq In(b[t])
    BY <1>1 DEF RemovesExpired
  <1> HIDE DEF b
  <1>7. \A x : Item(data, x).expiresInTick = data.orders[x].expiresInTick
    BY DEF Item
  <1>8. \A o \in S : o \in In(AbsBook[t]) /\ o.expiresInTick <= tick
    BY <1>4, <1>5, <1>7
  <1>9. S # {}
    <2>1. PICK x \in In(b[t]) : x \notin In(b2[t])
      BY <1>6
    <2>2. Item(data, x) \in S
      BY <2>1
    <2>3. QED
      BY <2>2
  <1> HIDE DEF S
  <1>10. S \in (SUBSET {o \in In(AbsBook[t]) : o.expiresInTick <= tick}) \ {{}}
    <2> DEFINE Expired == {o \in In(AbsBook[t]) : o.expiresInTick <= tick}
    <2>1. \A o \in S : o \in Expired
      BY <1>8
    <2> HIDE DEF Expired
    <2>2. S \in (SUBSET Expired) \ {{}}
      BY <1>9, <2>1
    <2>3. QED
      BY <2>2 DEF Expired
  <1>11. tickStage' = tickStage /\ tick' = tick
    BY DEF ProcessExpired
  <1>12. QED
    BY <1>4, <1>10, <1>11, AbstractExits

\* A pop of the matching.
LEMMA ServeRefines ==
    ASSUME IInv, NEW t \in OrderTypes, PopMostCompetitive(t)
    PROVE  Abstract!Serve(t)
  <1> DEFINE b == Books(data)
  <1>1. RemovesOne(t, 1)
    BY PopEffect
  <1>2. PICK id : id = Books(data)[t][1]
    OBVIOUS
  <1>3. PICK b2 : b2 = BooksWith(Books(data), t, Cut(Books(data)[t], 1))
    OBVIOUS
  <1>4. IsWithout(t, b2) /\ id \in In(b[t]) /\ b2[t] = Cut(b[t], 1)
    BY <1>1, <1>2, <1>3, RemovalIsWithout
  <1>5. Good(data, b, Queues(data), {})
    BY DEF IInv
  <1>6. /\ AbsBook' = [AbsBook EXCEPT ![t] = Without(AbsBook[t], {Item(data, x) : x \in In(b[t]) \ In(b2[t])})]
        /\ AbsBook[t] = Items(data, b[t]) /\ AbsBook'[t] = Items(data, b2[t]) /\ AbsQueue' = AbsQueue
    BY <1>4 DEF IsWithout
  <1>7. AbsBook = [u \in OrderTypes |-> Items(data, b[u])]
    BY <1>5, ViewIs, ViewOfLists
  <1> HIDE DEF b
  <1>8. b[t] \in Seq(Ids) /\ Distinct(b[t]) /\ data.orders \in [0 .. MaxOrders -> OrderRecords]
    BY <1>5, GoodFacts
  <1>9. b[t] # <<>>
    <2>1. PICK n \in 1 .. Len(b[t]) : b[t][n] = id
      BY <1>4, <1>8, Places
    <2>2. Len(b[t]) # 0
      BY <2>1
    <2>3. QED
      BY <1>8, <2>2, Places
  <1>10. Items(data, Tail(b[t])) = Tail(Items(data, b[t])) /\ Items(data, b[t]) # <<>> /\ Cut(b[t], 1) = Tail(b[t])
    BY <1>8, <1>9, TailItems
  <1>11. AbsBook'[t] = Tail(AbsBook[t]) /\ AbsBook[t] # <<>>
    BY <1>4, <1>6, <1>10
  <1>12. AbsBook' = [AbsBook EXCEPT ![t] = Tail(AbsBook[t])]
    <2>1. PICK W : W = Without(AbsBook[t], {Item(data, x) : x \in In(b[t]) \ In(b2[t])})
      OBVIOUS
    <2>2. AbsBook' = [AbsBook EXCEPT ![t] = W]
      BY <1>6, <2>1
    <2>3. t \in DOMAIN AbsBook
      BY <1>7
    <2>4. W = AbsBook'[t]
      BY <2>2, <2>3
    <2>5. QED
      BY <1>11, <2>2, <2>4
  <1>13. tickStage = "RUNNING_MATCHING" /\ tickStage' = tickStage /\ tick' = tick
    BY DEF PopMostCompetitive
  <1>14. QED
    BY <1>6, <1>11, <1>12, <1>13, AbstractExits

\* What PriorityBook says of the first state and of the steps of a tick.
LEMMA AbstractStages ==
    /\ Abstract!Init <=>
          /\ AbsBook = [t \in OrderTypes |-> <<>>] /\ AbsQueue = [t \in OrderTypes |-> <<>>]
          /\ tickStage = "RECEIVING_ORDERS" /\ tick = 1
    /\ Abstract!BeginMatching <=>
          /\ tickStage = "RECEIVING_ORDERS" /\ tickStage' = "RUNNING_MATCHING"
          /\ AbsBook' = AbsBook /\ AbsQueue' = AbsQueue /\ tick' = tick
    /\ Abstract!BeginMoving <=>
          /\ tickStage = "RUNNING_MATCHING" /\ tickStage' = "MOVING_PENDING_ORDERS"
          /\ AbsBook' = AbsBook /\ AbsQueue' = AbsQueue /\ tick' = tick
    /\ Abstract!Finish <=>
          /\ tickStage = "MOVING_PENDING_ORDERS" /\ AbsQueue = [t \in OrderTypes |-> <<>>]
          /\ tickStage' = "RECEIVING_ORDERS" /\ tick' = tick + 1
          /\ AbsBook' = AbsBook /\ AbsQueue' = AbsQueue
    /\ AbsBook' = AbsBook /\ AbsQueue' = AbsQueue /\ tickStage' = tickStage /\ tick' = tick => UNCHANGED Abstract!vars
  <1>1. Abstract!OrderTypes = OrderTypes
    BY SameOperators
  <1>2. Abstract!Init <=>
          /\ AbsBook = [t \in OrderTypes |-> <<>>] /\ AbsQueue = [t \in OrderTypes |-> <<>>]
          /\ tickStage = "RECEIVING_ORDERS" /\ tick = 1
    BY <1>1 DEF Abstract!Init, AbsBook, AbsQueue
  <1>3. Abstract!BeginMatching <=>
          /\ tickStage = "RECEIVING_ORDERS" /\ tickStage' = "RUNNING_MATCHING"
          /\ AbsBook' = AbsBook /\ AbsQueue' = AbsQueue /\ tick' = tick
    BY DEF Abstract!BeginMatching, AbsBook, AbsQueue
  <1>4. Abstract!BeginMoving <=>
          /\ tickStage = "RUNNING_MATCHING" /\ tickStage' = "MOVING_PENDING_ORDERS"
          /\ AbsBook' = AbsBook /\ AbsQueue' = AbsQueue /\ tick' = tick
    BY DEF Abstract!BeginMoving, AbsBook, AbsQueue
  <1>5. Abstract!Finish <=>
          /\ tickStage = "MOVING_PENDING_ORDERS" /\ AbsQueue = [t \in OrderTypes |-> <<>>]
          /\ tickStage' = "RECEIVING_ORDERS" /\ tick' = tick + 1
          /\ AbsBook' = AbsBook /\ AbsQueue' = AbsQueue
    BY <1>1 DEF Abstract!Finish, AbsBook, AbsQueue
  <1>6. AbsBook' = AbsBook /\ AbsQueue' = AbsQueue /\ tickStage' = tickStage /\ tick' = tick => UNCHANGED Abstract!vars
    BY DEF Abstract!vars, AbsBook, AbsQueue
  <1>7. QED
    BY <1>2, <1>3, <1>4, <1>5, <1>6

\* A step that leaves the lists alone.
LEMMA SameAbs ==
    ASSUME data' = data
    PROVE  AbsBook' = AbsBook /\ AbsQueue' = AbsQueue
  <1>1. BookView(data') = BookView(data) /\ QueueView(data') = QueueView(data)
    OBVIOUS
  <1>2. QED
    BY <1>1, ViewIs

\* The first state is one of PriorityBook.
LEMMA InitRefines ==
    ASSUME Init
    PROVE  Abstract!Init
  <1>1. PICK e : e = [t \in OrderTypes |-> <<>>]
    OBVIOUS
  <1>2. Good(data, e, e, {})
    BY <1>1, EmptyIsGood DEF Init
  <1>3. \A t \in OrderTypes : Items(data, e[t]) = <<>>
    <2>1. \A t \in OrderTypes : e[t] = <<>>
      BY <1>1
    <2>2. PICK s : s = <<>>
      OBVIOUS
    <2>3. Len(s) = 0
      BY <2>2
    <2>4. Items(data, s) = <<>>
      BY <2>3 DEF Items
    <2>5. QED
      BY <2>1, <2>2, <2>4
  <1>4. BookView(data) = [t \in OrderTypes |-> Items(data, e[t])]
    BY <1>2, ViewOfLists
  <1>5. QueueView(data) = [t \in OrderTypes |-> Items(data, e[t])]
    BY <1>2, ViewOfLists
  <1>6. AbsBook = BookView(data) /\ AbsQueue = QueueView(data)
    BY ViewIs
  <1>7. [t \in OrderTypes |-> Items(data, e[t])] = [t \in OrderTypes |-> <<>>]
    BY <1>3
  <1>8. AbsBook = [t \in OrderTypes |-> <<>>] /\ AbsQueue = [t \in OrderTypes |-> <<>>]
    BY <1>4, <1>5, <1>6, <1>7
  <1>9. tickStage = "RECEIVING_ORDERS" /\ tick = 1
    BY DEF Init
  <1>10. QED
    BY <1>8, <1>9, AbstractStages

\* A change of stage is one of PriorityBook.
LEMMA StageRefines ==
    ASSUME IInv
    PROVE  /\ BeginMatching => Abstract!BeginMatching
           /\ BeginMoving => Abstract!BeginMoving
           /\ FinishTick => Abstract!Finish
  <1>1. ASSUME BeginMatching PROVE Abstract!BeginMatching
    <2>1. data' = data /\ tickStage = "RECEIVING_ORDERS" /\ tickStage' = "RUNNING_MATCHING" /\ tick' = tick
      BY <1>1 DEF BeginMatching
    <2>2. AbsBook' = AbsBook /\ AbsQueue' = AbsQueue
      BY <2>1, SameAbs
    <2>3. QED
      BY <2>1, <2>2, AbstractStages
  <1>2. ASSUME BeginMoving PROVE Abstract!BeginMoving
    <2>1. data' = data /\ tickStage = "RUNNING_MATCHING" /\ tickStage' = "MOVING_PENDING_ORDERS" /\ tick' = tick
      BY <1>2 DEF BeginMoving
    <2>2. AbsBook' = AbsBook /\ AbsQueue' = AbsQueue
      BY <2>1, SameAbs
    <2>3. QED
      BY <2>1, <2>2, AbstractStages
  <1>3. ASSUME FinishTick PROVE Abstract!Finish
    <2>1. /\ data' = data /\ tickStage = "MOVING_PENDING_ORDERS" /\ tickStage' = "RECEIVING_ORDERS" /\ tick' = tick + 1
          /\ \A t \in OrderTypes : data.pendings[t] = 0
      BY <1>3 DEF FinishTick
    <2>2. AbsBook' = AbsBook /\ AbsQueue' = AbsQueue
      BY <2>1, SameAbs
    <2>3. AbsQueue = [t \in OrderTypes |-> <<>>]
      <3>1. QueueView(data) = [t \in OrderTypes |-> Items(data, Queues(data)[t])]
        BY ViewOfLists DEF IInv
      <3>2. \A t \in OrderTypes : Items(data, Queues(data)[t]) = <<>>
        <4> SUFFICES ASSUME NEW t \in OrderTypes PROVE Items(data, Queues(data)[t]) = <<>>
          OBVIOUS
        <4>1. Len(Queues(data)[t]) = 0
          <5>1. data.pendings[t] = Len(Queues(data)[t])
            BY GoodFacts DEF IInv
          <5>2. QED
            BY <2>1, <5>1
        <4>2. QED
          BY <4>1 DEF Items
      <3>3. QED
        BY <3>1, <3>2, ViewIs
    <2>4. QED
      BY <2>1, <2>2, <2>3, AbstractStages
  <1>4. QED
    BY <1>1, <1>2, <1>3

\* Every step is one of PriorityBook, or changes nothing it sees.
LEMMA NextRefines ==
    ASSUME HintsInBook, IInv, [Next]_vars
    PROVE  [Abstract!Next]_(Abstract!vars)
  <1>1. Abstract!OrderTypes = OrderTypes
    BY SameOperators
  <1>2. ASSUME NEW t \in OrderTypes, NEW price \in Prices, NEW lifespan \in Lifespans, NEW hint \in 0 .. NO_HINT,
               InsertOrder(t, price, lifespan, hint)
        PROVE  Abstract!Next
    BY <1>1, <1>2, InsertRefines DEF Abstract!Next
  <1>3. ASSUME NEW t \in OrderTypes, NEW price \in Prices, NEW lifespan \in Lifespans,
               InsertOrderAsPending(t, price, lifespan)
        PROVE  Abstract!Next
    BY <1>1, <1>3, WaitRefines DEF Abstract!Next
  <1>4. ASSUME NEW id \in Ids, NEW hint \in 0 .. MaxOrders, CancelOrder(id, hint)
        PROVE  Abstract!Next
    BY <1>1, <1>4, CancelRefines DEF Abstract!Next
  <1>5. ASSUME NEW t \in OrderTypes, NEW id \in 0 .. MaxOrders, NEW hint \in 0 .. MaxOrders,
               NEW steps \in 1 .. MaxSteps, ProcessExpired(t, id, hint, steps)
        PROVE  Abstract!Next
    BY <1>1, <1>5, ExpireRefines DEF Abstract!Next
  <1>6. ASSUME NEW t \in OrderTypes, PopMostCompetitive(t)
        PROVE  Abstract!Next
    BY <1>1, <1>6, ServeRefines DEF Abstract!Next
  <1>7. ASSUME NEW t \in OrderTypes, NEW hint \in 0 .. NO_HINT, MovePendingOrder(t, hint)
        PROVE  Abstract!Next
    BY <1>1, <1>7, MoveRefines DEF Abstract!Next
  <1>8. ASSUME BeginMatching \/ BeginMoving \/ FinishTick
        PROVE  Abstract!Next
    BY <1>8, StageRefines DEF Abstract!Next
  <1>9. ASSUME UNCHANGED vars
        PROVE  UNCHANGED Abstract!vars
    <2>1. data' = data /\ tickStage' = tickStage /\ tick' = tick
      BY <1>9 DEF vars
    <2>2. AbsBook' = AbsBook /\ AbsQueue' = AbsQueue
      BY <2>1, SameAbs
    <2>3. QED
      BY <2>1, <2>2, AbstractStages
  <1>10. QED
    BY <1>2, <1>3, <1>4, <1>5, <1>6, <1>7, <1>8, <1>9 DEF Next

-----------------------------------------------------------------------------
(* The theorems. *)

\* Under the two hypotheses the linked lists implement the orderbook that serves its orders by price
\* and by age: every transaction changes what an observer sees of the book as PriorityBook says, or
\* not at all.
THEOREM ListsImplementPriority ==
    ASSUME HintsInBook, 0 \notin Lifespans
    PROVE  Spec => ImplementsPriorityBook
  <1>1. Init => Abstract!Init
    BY InitRefines
  <1>2. IInv /\ [Next]_vars => [Abstract!Next]_(Abstract!vars)
    BY NextRefines
  <1>3. Spec => []IInv
    BY ListsStayLinked
  <1>4. QED
    BY <1>1, <1>2, <1>3, PTL DEF Spec, ImplementsPriorityBook, Abstract!Spec

\* As long as no hint of a move names a pending order, and no lifespan is 0, no order is lost and
\* none is in two lists.
THEOREM NoOrderIsLost ==
    ASSUME HintsInBook, 0 \notin Lifespans
    PROVE  Spec => []EveryOrderIsInOneList
  <1>1. Spec => []IInv
    BY ListsStayLinked
  <1>2. QED
    BY <1>1, IInvOneList, PTL

\* Under the same two hypotheses the lengths that the code counts are those of the lists.
THEOREM CountersStayRight ==
    ASSUME HintsInBook, 0 \notin Lifespans
    PROVE  Spec => []CountersMatchLists
  <1>1. Spec => []IInv
    BY ListsStayLinked
  <1>2. QED
    BY <1>1, IInvCounters, PTL

\* The orders are served by price and, at the same price, by age, as long as no hint of a move names
\* a pending order: one that does may put the moved order out of its turn (PendingHint).
THEOREM BooksStaySorted ==
    ASSUME HintsInBook, 0 \notin Lifespans
    PROVE  Spec => []PriceTimePriority
  <1>1. Spec => []IInv
    BY ListsStayLinked
  <1>2. QED
    BY <1>1, IInvPriority, PTL

\* Under the same two hypotheses areOrdersToExpire says exactly when processExpired has something to do.
THEOREM ExpiredAreReported ==
    ASSUME HintsInBook, 0 \notin Lifespans
    PROVE  Spec => []ExpiryIsReported
  <1>1. Spec => []IInv
    BY ListsStayLinked
  <1>2. QED
    BY <1>1, IInvExpiry, PTL

-----------------------------------------------------------------------------
(* Lifespans. *)

OneIf(c) == IF c THEN 1 ELSE 0

\* An order that expires in tick e and asked for L ticks was matchable in c of them, where T is the
\* tick, "begun" is 1 once the matching of the tick began, and w is 1 if the order came during a tick:
\* in each tick that began since it came, up to its last one.
HadChances(e, L, w, T, begun, c) ==
    /\ e \in Nat /\ L \in Nat \ {0} /\ w \in {0, 1} /\ T \in Nat /\ begun \in {0, 1} /\ c \in Nat
    /\ L <= e
    /\ e - L + w <= T + begun
    /\ c = IF T + begun <= e THEN T + begun - (e - L) - w ELSE L - w

\* An order that just came had no chance yet.
LEMMA FirstChance ==
    ASSUME NEW L \in Nat \ {0}, NEW w \in {0, 1}, NEW T \in Nat
    PROVE  HadChances(T + L, L, w, T, w, 0)
  <1>1. T + L \in Nat /\ L <= T + L /\ T + L - L = T
    OBVIOUS
  <1>2. T + w <= T + L /\ T + w - T - w = 0
    OBVIOUS
  <1>3. QED
    BY <1>1, <1>2 DEF HadChances

\* The matching of a tick is a chance for the orders that did not expire.
LEMMA NextChance ==
    ASSUME NEW e, NEW L, NEW w, NEW T, NEW c, HadChances(e, L, w, T, 0, c)
    PROVE  HadChances(e, L, w, T, 1, IF e <= T THEN c ELSE c + 1)
  <1>1. /\ e \in Nat /\ L \in Nat \ {0} /\ w \in {0, 1} /\ T \in Nat /\ c \in Nat
        /\ L <= e /\ e - L + w <= T
        /\ c = IF T <= e THEN T - (e - L) - w ELSE L - w
    BY DEF HadChances
  <1>2. CASE e <= T
    <2>1. ~(T + 1 <= e) /\ c = L - w /\ e - L + w <= T + 1
      BY <1>1, <1>2
    <2>2. QED
      BY <1>1, <1>2, <2>1 DEF HadChances
  <1>3. CASE ~(e <= T)
    <2>1. T + 1 <= e /\ c + 1 = T + 1 - (e - L) - w /\ e - L + w <= T + 1 /\ c + 1 \in Nat
      BY <1>1, <1>3
    <2>2. QED
      BY <1>1, <1>3, <2>1 DEF HadChances
  <1>4. QED
    BY <1>2, <1>3

\* The end of a tick changes no count.
LEMMA SameChances ==
    ASSUME NEW e, NEW L, NEW w, NEW T, NEW c, HadChances(e, L, w, T, 1, c)
    PROVE  HadChances(e, L, w, T + 1, 0, c)
  BY DEF HadChances

\* An expired order had all of them.
LEMMA LastChance ==
    ASSUME NEW e, NEW L, NEW w, NEW T, NEW begun, NEW c, HadChances(e, L, w, T, begun, c), e <= T
    PROVE  c = L - w
  BY DEF HadChances

\* The history of the orders: those that are stored had the ticks they could have, and nothing is
\* remembered of the others.
HInv ==
    /\ lifespanOf \in [Ids -> Nat] /\ chances \in [Ids -> Nat] /\ waited \subseteq Stored(data)
    /\ \A id \in Ids : id \notin Stored(data) => chances[id] = 0
    /\ \A id \in Stored(data) :
          HadChances(data.orders[id].expiresInTick, lifespanOf[id], OneIf(id \in waited), tick,
                     OneIf(tickStage # "RECEIVING_ORDERS"), chances[id])

\* The order id came, and nothing else changed.
Comes(id, lifespan) ==
    /\ id \in Ids /\ lifespan \in Lifespans
    /\ data.orders[id].id = 0 /\ data'.orders[id].id # 0
    /\ data'.orders[id].expiresInTick = tick + lifespan
    /\ \A x \in Ids : x # id => SameOrder(data'.orders[x], data.orders[x])
    /\ tickStage' = tickStage /\ tick' = tick

\* No order came.
NoneComes == Keeps /\ tickStage' = tickStage /\ tick' = tick

\* A step brings an order, or none, or is a change of stage.
LEMMA WhoComes ==
    ASSUME HintsInBook, IInv, Next
    PROVE  \/ \E id, lifespan : Comes(id, lifespan)
           \/ NoneComes
           \/ BeginMatching \/ BeginMoving \/ FinishTick
  <1> DEFINE Goal == \/ \E id, lifespan : Comes(id, lifespan)
                     \/ NoneComes
                     \/ BeginMatching \/ BeginMoving \/ FinishTick
  <1>1. \A x \in Ids : x \in 0 .. MaxOrders /\ x # 0
    BY OrderBookAssumption DEF Ids
  <1>2. ASSUME NEW t \in OrderTypes, NEW price, NEW lifespan \in Lifespans, NextOrderId,
               Stores(lastOrderId', t, price, tick + lifespan), tickStage' = tickStage, tick' = tick
        PROVE  Comes(lastOrderId', lifespan)
    <2>1. lastOrderId' \in Ids /\ data.orders[lastOrderId'] = NullOrder
      BY <1>2, NewId
    <2>2. lastOrderId' # 0 /\ data.orders[lastOrderId'].id = 0
      BY <1>1, <2>1 DEF NullOrder
    <2>3. data'.orders[lastOrderId'].id = lastOrderId' /\ data'.orders[lastOrderId'].expiresInTick = tick + lifespan
      BY <1>2 DEF Stores, SameOrder, Created
    <2>4. \A x \in Ids : x # lastOrderId' => SameOrder(data'.orders[x], data.orders[x])
      BY <1>1, <1>2 DEF Stores
    <2>5. QED
      BY <1>2, <2>1, <2>2, <2>3, <2>4 DEF Comes
  <1>3. ASSUME NEW t \in OrderTypes, NEW price \in Prices, NEW lifespan \in Lifespans, NEW hint \in 0 .. NO_HINT,
               InsertOrder(t, price, lifespan, hint)
        PROVE  Goal
    <2>1. Stores(lastOrderId', t, price, tick + lifespan)
      BY <1>3, InsertEffect
    <2>2. NextOrderId /\ tickStage' = tickStage /\ tick' = tick
      BY <1>3 DEF InsertOrder
    <2>3. Comes(lastOrderId', lifespan)
      BY <1>2, <2>1, <2>2
    <2>4. QED
      BY <2>3
  <1>4. ASSUME NEW t \in OrderTypes, NEW price \in Prices, NEW lifespan \in Lifespans,
               InsertOrderAsPending(t, price, lifespan)
        PROVE  Goal
    <2>1. Stores(lastOrderId', t, price, tick + lifespan)
      BY <1>4, WaitEffect
    <2>2. NextOrderId /\ tickStage' = tickStage /\ tick' = tick
      BY <1>4 DEF InsertOrderAsPending
    <2>3. Comes(lastOrderId', lifespan)
      BY <1>2, <2>1, <2>2
    <2>4. QED
      BY <2>3
  <1>5. ASSUME NEW id \in Ids, NEW hint \in 0 .. MaxOrders, CancelOrder(id, hint)
        PROVE  Goal
    <2>1. PICK t, at : RemovesOne(t, at)
      BY <1>5, CancelEffect
    <2>2. QED
      BY <1>5, <2>1 DEF RemovesOne, CancelOrder, NoneComes
  <1>6. ASSUME NEW t \in OrderTypes, NEW id \in 0 .. MaxOrders, NEW hint \in 0 .. MaxOrders, NEW steps \in 1 .. MaxSteps,
               ProcessExpired(t, id, hint, steps)
        PROVE  Goal
    <2>1. PICK b2 : RemovesExpired(t, b2)
      BY <1>6, ExpireEffect
    <2>2. tickStage' = tickStage /\ tick' = tick
      BY <1>6 DEF ProcessExpired
    <2>3. QED
      BY <2>1, <2>2 DEF RemovesExpired, NoneComes
  <1>7. ASSUME NEW t \in OrderTypes, PopMostCompetitive(t)
        PROVE  Goal
    <2>1. RemovesOne(t, 1)
      BY <1>7, PopEffect
    <2>2. QED
      BY <1>7, <2>1 DEF RemovesOne, PopMostCompetitive, NoneComes
  <1>8. ASSUME NEW t \in OrderTypes, NEW hint \in 0 .. NO_HINT, MovePendingOrder(t, hint)
        PROVE  Goal
    <2>1. PICK at : Moves(t, at)
      BY <1>8, MoveEffect
    <2>2. Keeps
      BY <2>1 DEF Moves, Keeps
    <2>3. QED
      BY <1>8, <2>2 DEF MovePendingOrder, NoneComes
  <1>9. BeginMatching \/ BeginMoving \/ FinishTick => Goal
    OBVIOUS
  <1> HIDE DEF Goal
  <1>10. Goal
    BY <1>3, <1>4, <1>5, <1>6, <1>7, <1>8, <1>9 DEF Next
  <1>11. QED
    BY <1>10 DEF Goal

\* What is remembered when no order begins to be matched.
LEMMA RememberOthers ==
    ASSUME Remember, ~(tickStage = "RECEIVING_ORDERS" /\ tickStage' # tickStage)
    PROVE  /\ lifespanOf' = [id \in Ids |-> IF id \notin Stored(data') THEN 0
                                            ELSE IF id \notin Stored(data) THEN data'.orders[id].expiresInTick - tick
                                            ELSE lifespanOf[id]]
           /\ chances' = [id \in Ids |-> IF id \notin Stored(data') THEN 0 ELSE chances[id]]
           /\ \A id \in Ids : id \in waited' <=>
                 /\ id \in Stored(data')
                 /\ id \in waited \/ (tickStage # "RECEIVING_ORDERS" /\ id \notin Stored(data))
           /\ waited' \subseteq Stored(data')
  <1>1. lifespanOf' = [id \in Ids |-> IF id \notin Stored(data') THEN 0
                                            ELSE IF id \notin Stored(data) THEN data'.orders[id].expiresInTick - tick
                                            ELSE lifespanOf[id]]
    BY DEF Remember
  <1>2. chances' = [id \in Ids |-> IF id \notin Stored(data') THEN 0 ELSE chances[id]]
    BY DEF Remember
  <1>3. waited' = (waited \intersect Stored(data'))
                         \union (IF tickStage = "RECEIVING_ORDERS" THEN {} ELSE Stored(data') \ Stored(data))
    BY DEF Remember
  <1>4. QED
    BY <1>1, <1>2, <1>3

\* The history of an order that comes.
LEMMA ComesKeepsHInv ==
    ASSUME IInv, HInv, Remember, 0 \notin Lifespans, NEW id, NEW lifespan, Comes(id, lifespan)
    PROVE  HInv'
  <1>1. /\ id \in Ids /\ lifespan \in Nat \ {0} /\ tick \in Nat
        /\ data.orders[id].id = 0 /\ data'.orders[id].id # 0
        /\ data'.orders[id].expiresInTick = tick + lifespan
        /\ tickStage' = tickStage /\ tick' = tick
    BY LinkedBookAssumption DEF Comes, IInv
  <1>2. \A x \in Ids : x # id => /\ x \in Stored(data') <=> x \in Stored(data)
                                 /\ data'.orders[x].expiresInTick = data.orders[x].expiresInTick
    BY DEF Comes, SameOrder, Stored
  <1>3. id \in Stored(data') /\ id \notin Stored(data) /\ Stored(data) \subseteq Ids /\ Stored(data') \subseteq Ids
    BY <1>1 DEF Stored
  <1>4. ~(tickStage = "RECEIVING_ORDERS" /\ tickStage' # tickStage)
    BY <1>1
  <1>5. /\ lifespanOf' = [x \in Ids |-> IF x \notin Stored(data') THEN 0
                                        ELSE IF x \notin Stored(data) THEN data'.orders[x].expiresInTick - tick
                                        ELSE lifespanOf[x]]
        /\ chances' = [x \in Ids |-> IF x \notin Stored(data') THEN 0 ELSE chances[x]]
        /\ \A x \in Ids : x \in waited' <=>
              /\ x \in Stored(data')
              /\ x \in waited \/ (tickStage # "RECEIVING_ORDERS" /\ x \notin Stored(data))
        /\ waited' \subseteq Stored(data')
    BY <1>4, RememberOthers
  <1>6. /\ lifespanOf \in [Ids -> Nat] /\ chances \in [Ids -> Nat] /\ waited \subseteq Stored(data)
        /\ \A x \in Ids : x \notin Stored(data) => chances[x] = 0
        /\ \A x \in Stored(data) :
              HadChances(data.orders[x].expiresInTick, lifespanOf[x], OneIf(x \in waited), tick,
                         OneIf(tickStage # "RECEIVING_ORDERS"), chances[x])
    BY DEF HInv
  <1>7. lifespanOf'[id] = lifespan
    <2>1. lifespanOf'[id] = tick + lifespan - tick
      BY <1>1, <1>3, <1>5
    <2>2. QED
      BY <1>1, <2>1
  <1>8. \A x \in Ids : x # id => lifespanOf'[x] = (IF x \in Stored(data) THEN lifespanOf[x] ELSE 0)
    BY <1>2, <1>5
  <1>9. chances'[id] = 0 /\ \A x \in Ids : x # id => chances'[x] = (IF x \in Stored(data) THEN chances[x] ELSE 0)
    BY <1>2, <1>3, <1>5, <1>6
  <1>10. /\ OneIf(id \in waited') = OneIf(tickStage # "RECEIVING_ORDERS")
         /\ \A x \in Stored(data) : x \in waited' <=> x \in waited
    <2>1. id \in waited' <=> tickStage # "RECEIVING_ORDERS"
      BY <1>1, <1>3, <1>5, <1>6
    <2>2. \A x \in Stored(data) : x \in waited' <=> x \in waited
      BY <1>2, <1>3, <1>5
    <2>3. QED
      BY <2>1, <2>2 DEF OneIf
  <1>11. lifespanOf' \in [Ids -> Nat] /\ chances' \in [Ids -> Nat]
    <2>1. \A x \in Ids : lifespanOf'[x] \in Nat /\ chances'[x] \in Nat
      BY <1>1, <1>6, <1>7, <1>8, <1>9
    <2>2. DOMAIN lifespanOf' = Ids /\ lifespanOf' = [x \in Ids |-> lifespanOf'[x]]
      BY <1>5
    <2>3. DOMAIN chances' = Ids /\ chances' = [x \in Ids |-> chances'[x]]
      BY <1>5
    <2>4. QED
      BY <2>1, <2>2, <2>3
  <1>12. ASSUME NEW x \in Stored(data')
         PROVE  HadChances(data'.orders[x].expiresInTick, lifespanOf'[x], OneIf(x \in waited'), tick',
                           OneIf(tickStage' # "RECEIVING_ORDERS"), chances'[x])
    <2>1. CASE x = id
      <3>1. PICK w : w = OneIf(tickStage # "RECEIVING_ORDERS")
        OBVIOUS
      <3>2. w \in {0, 1}
        BY <3>1 DEF OneIf
      <3>3. HadChances(tick + lifespan, lifespan, w, tick, w, 0)
        BY <1>1, <3>2, FirstChance
      <3>4. QED
        BY <1>1, <1>7, <1>9, <1>10, <2>1, <3>1, <3>3
    <2>2. CASE x # id
      <3>1. x \in Ids /\ x \in Stored(data) /\ data'.orders[x].expiresInTick = data.orders[x].expiresInTick
        BY <1>2, <1>3, <2>2
      <3>2. lifespanOf'[x] = lifespanOf[x] /\ chances'[x] = chances[x] /\ OneIf(x \in waited') = OneIf(x \in waited)
        BY <1>8, <1>9, <1>10, <2>2, <3>1 DEF OneIf
      <3>3. QED
        BY <1>1, <1>6, <3>1, <3>2
    <2>3. QED
      BY <2>1, <2>2
  <1>13. \A x \in Ids : x \notin Stored(data') => chances'[x] = 0
    BY <1>5
  <1>14. QED
    BY <1>5, <1>11, <1>12, <1>13 DEF HInv, Stored

\* The history when no order comes.
LEMMA NoneKeepsHInv ==
    ASSUME IInv, HInv, Remember, ~(tickStage = "RECEIVING_ORDERS" /\ tickStage' # tickStage), Keeps,
           \A e, L, w, c : HadChances(e, L, w, tick, OneIf(tickStage # "RECEIVING_ORDERS"), c) =>
                           HadChances(e, L, w, tick', OneIf(tickStage' # "RECEIVING_ORDERS"), c)
    PROVE  HInv'
  <1>1. \A x \in Ids : x \in 0 .. MaxOrders
    BY OrderBookAssumption DEF Ids
  <1>2. \A x \in Stored(data') : x \in Ids /\ x \in Stored(data) /\ data'.orders[x].expiresInTick = data.orders[x].expiresInTick
    BY <1>1 DEF Keeps, SameOrder, Stored
  <1>3. /\ lifespanOf' = [x \in Ids |-> IF x \notin Stored(data') THEN 0
                                        ELSE IF x \notin Stored(data) THEN data'.orders[x].expiresInTick - tick
                                        ELSE lifespanOf[x]]
        /\ chances' = [x \in Ids |-> IF x \notin Stored(data') THEN 0 ELSE chances[x]]
        /\ \A x \in Ids : x \in waited' <=>
              /\ x \in Stored(data')
              /\ x \in waited \/ (tickStage # "RECEIVING_ORDERS" /\ x \notin Stored(data))
        /\ waited' \subseteq Stored(data')
    BY RememberOthers
  <1>4. /\ lifespanOf \in [Ids -> Nat] /\ chances \in [Ids -> Nat] /\ waited \subseteq Stored(data)
        /\ \A x \in Stored(data) :
              HadChances(data.orders[x].expiresInTick, lifespanOf[x], OneIf(x \in waited), tick,
                         OneIf(tickStage # "RECEIVING_ORDERS"), chances[x])
    BY DEF HInv
  <1>5. \A x \in Ids : /\ lifespanOf'[x] = IF x \in Stored(data') THEN lifespanOf[x] ELSE 0
                       /\ chances'[x] = IF x \in Stored(data') THEN chances[x] ELSE 0
    BY <1>2, <1>3
  <1>6. lifespanOf' \in [Ids -> Nat] /\ chances' \in [Ids -> Nat]
    <2>1. \A x \in Ids : lifespanOf'[x] \in Nat /\ chances'[x] \in Nat
      BY <1>4, <1>5
    <2>2. DOMAIN lifespanOf' = Ids /\ lifespanOf' = [x \in Ids |-> lifespanOf'[x]]
      BY <1>3
    <2>3. DOMAIN chances' = Ids /\ chances' = [x \in Ids |-> chances'[x]]
      BY <1>3
    <2>4. QED
      BY <2>1, <2>2, <2>3
  <1>7. ASSUME NEW x \in Stored(data')
        PROVE  HadChances(data'.orders[x].expiresInTick, lifespanOf'[x], OneIf(x \in waited'), tick',
                          OneIf(tickStage' # "RECEIVING_ORDERS"), chances'[x])
    <2>1. x \in Ids /\ x \in Stored(data) /\ data'.orders[x].expiresInTick = data.orders[x].expiresInTick
      BY <1>2
    <2>2. x \in waited' <=> x \in waited
      BY <1>3, <2>1
    <2>3. lifespanOf'[x] = lifespanOf[x] /\ chances'[x] = chances[x] /\ OneIf(x \in waited') = OneIf(x \in waited)
      BY <1>5, <2>1, <2>2 DEF OneIf
    <2>4. HadChances(data.orders[x].expiresInTick, lifespanOf[x], OneIf(x \in waited), tick',
                     OneIf(tickStage' # "RECEIVING_ORDERS"), chances[x])
      BY <1>4, <2>1
    <2>5. QED
      BY <2>1, <2>3, <2>4
  <1>8. \A x \in Ids : x \notin Stored(data') => chances'[x] = 0
    BY <1>5
  <1>9. QED
    BY <1>3, <1>6, <1>7, <1>8 DEF HInv, Stored

\* Between two ticks the matchable orders are those that did not expire.
LEMMA MatchableAre ==
    ASSUME IInv, tickStage = "RECEIVING_ORDERS"
    PROVE  \A x \in Stored(data) : x \in Matchable <=> ~(data.orders[x].expiresInTick <= tick)
  <1>1. \A t \in OrderTypes : Book(t) = Books(data)[t] /\ Queues(data)[t] = <<>>
    BY BookAndQueue DEF IInv
  <1>2. \A x \in Ids : data.orders[x].id # 0 <=>
               \E t \in OrderTypes : x \in In(Books(data)[t]) \union In(Queues(data)[t])
    BY StoredAreListed
  <1>3. In(<<>>) = {}
    BY DEF In
  <1>4. \A x \in Stored(data) : x \in UNION {In(Book(t)) : t \in OrderTypes}
    BY <1>1, <1>2, <1>3 DEF Stored
  <1>5. QED
    BY <1>4 DEF Matchable, isExpired

\* The history when the matching begins.
LEMMA BeginKeepsHInv ==
    ASSUME IInv, HInv, Remember, BeginMatching
    PROVE  HInv'
  <1>1. data' = data /\ tickStage = "RECEIVING_ORDERS" /\ tickStage' = "RUNNING_MATCHING" /\ tick' = tick
    BY DEF BeginMatching
  <1>2. \A x \in Stored(data) : x \in Ids
    BY DEF Stored
  <1>3. Stored(data') = Stored(data)
    BY <1>1
  <1>4. /\ lifespanOf' = [x \in Ids |-> IF x \notin Stored(data) THEN 0 ELSE lifespanOf[x]]
        /\ chances' = [x \in Ids |-> IF x \notin Stored(data) THEN 0 ELSE IF x \in Matchable THEN chances[x] + 1 ELSE chances[x]]
        /\ waited' = waited \intersect Stored(data)
    <2>1. lifespanOf' = [x \in Ids |-> IF x \notin Stored(data') THEN 0
                                       ELSE IF x \in Stored(data') \ Stored(data) THEN data'.orders[x].expiresInTick - tick
                                       ELSE lifespanOf[x]]
      BY DEF Remember
    <2>2. \A x : x \notin Stored(data') \ Stored(data)
      BY <1>3
    <2>3. lifespanOf' = [x \in Ids |-> IF x \notin Stored(data) THEN 0 ELSE lifespanOf[x]]
      BY <1>3, <2>1, <2>2
    <2>4. chances' = [x \in Ids |-> IF x \notin Stored(data) THEN 0 ELSE IF x \in Matchable THEN chances[x] + 1 ELSE chances[x]]
      BY <1>1, <1>3 DEF Remember
    <2>5. waited' = waited \intersect Stored(data)
      BY <1>1, <1>3 DEF Remember
    <2>6. QED
      BY <2>3, <2>4, <2>5
  <1>5. /\ lifespanOf \in [Ids -> Nat] /\ chances \in [Ids -> Nat] /\ waited \subseteq Stored(data)
        /\ \A x \in Stored(data) :
              HadChances(data.orders[x].expiresInTick, lifespanOf[x], OneIf(x \in waited), tick,
                         OneIf(tickStage # "RECEIVING_ORDERS"), chances[x])
    BY DEF HInv
  <1>6. waited' = waited
    BY <1>4, <1>5
  <1>7. \A x \in Stored(data) : /\ lifespanOf'[x] = lifespanOf[x]
                                /\ chances'[x] = IF data.orders[x].expiresInTick <= tick THEN chances[x] ELSE chances[x] + 1
    <2>1. \A x \in Stored(data) : x \in Matchable <=> ~(data.orders[x].expiresInTick <= tick)
      BY <1>1, MatchableAre
    <2>2. QED
      BY <1>2, <1>4, <2>1
  <1>8. lifespanOf' \in [Ids -> Nat] /\ chances' \in [Ids -> Nat]
    BY <1>4, <1>5
  <1>9. ASSUME NEW x \in Stored(data)
        PROVE  HadChances(data.orders[x].expiresInTick, lifespanOf[x], OneIf(x \in waited), tick, 1, chances'[x])
    <2>1. HadChances(data.orders[x].expiresInTick, lifespanOf[x], OneIf(x \in waited), tick, 0, chances[x])
      BY <1>1, <1>5 DEF OneIf
    <2>2. PICK c : c = IF data.orders[x].expiresInTick <= tick THEN chances[x] ELSE chances[x] + 1
      OBVIOUS
    <2>3. HadChances(data.orders[x].expiresInTick, lifespanOf[x], OneIf(x \in waited), tick, 1,
                     IF data.orders[x].expiresInTick <= tick THEN chances[x] ELSE chances[x] + 1)
      BY <2>1, NextChance
    <2>4. QED
      BY <1>7, <2>3
  <1>10. OneIf(tickStage' # "RECEIVING_ORDERS") = 1
    BY <1>1 DEF OneIf
  <1>11. \A x \in Ids : x \notin Stored(data) => chances'[x] = 0
    BY <1>4
  <1>12. waited' \subseteq Stored(data)
    BY <1>4
  <1>13. QED
    BY <1>1, <1>3, <1>6, <1>7, <1>8, <1>9, <1>10, <1>11, <1>12 DEF HInv

\* At the beginning no order is stored.
LEMMA InitHInv ==
    ASSUME LifespanInit
    PROVE  HInv
  <1>1. data = EmptyData /\ lifespanOf = [id \in Ids |-> 0] /\ chances = [id \in Ids |-> 0] /\ waited = {}
    BY DEF LifespanInit, Init
  <1>2. Stored(data) = {}
    <2>1. \A x \in Ids : x \in 0 .. MaxOrders
      BY OrderBookAssumption DEF Ids
    <2>2. \A x \in Ids : data.orders[x].id = 0
      BY <1>1, <2>1 DEF EmptyData, NullOrder
    <2>3. QED
      BY <2>2 DEF Stored
  <1>3. QED
    BY <1>1, <1>2 DEF HInv

\* The history is kept by every step.
LEMMA NextHInv ==
    ASSUME HintsInBook, 0 \notin Lifespans, IInv, HInv, [LifespanNext]_<<vars, history>>
    PROVE  HInv'
  <1>1. CASE LifespanNext
    <2>1. Next /\ Remember
      BY <1>1 DEF LifespanNext
    <2>2. \/ \E id, lifespan : Comes(id, lifespan)
          \/ NoneComes
          \/ BeginMatching \/ BeginMoving \/ FinishTick
      BY <2>1, WhoComes
    <2>3. CASE \E id, lifespan : Comes(id, lifespan)
      BY <2>1, <2>3, ComesKeepsHInv
    <2>4. CASE NoneComes
      <3>1. Keeps /\ tickStage' = tickStage /\ tick' = tick
        BY <2>4 DEF NoneComes
      <3>2. QED
        BY <2>1, <3>1, NoneKeepsHInv
    <2>5. CASE BeginMatching
      BY <2>1, <2>5, BeginKeepsHInv
    <2>6. CASE BeginMoving
      <3>1. data' = data /\ tickStage = "RUNNING_MATCHING" /\ tickStage' = "MOVING_PENDING_ORDERS" /\ tick' = tick
        BY <2>6 DEF BeginMoving
      <3>2. Keeps
        BY <3>1 DEF Keeps, SameOrder
      <3>3. OneIf(tickStage # "RECEIVING_ORDERS") = OneIf(tickStage' # "RECEIVING_ORDERS")
        BY <3>1 DEF OneIf
      <3>4. QED
        BY <2>1, <3>1, <3>2, <3>3, NoneKeepsHInv
    <2>7. CASE FinishTick
      <3>1. data' = data /\ tickStage = "MOVING_PENDING_ORDERS" /\ tickStage' = "RECEIVING_ORDERS" /\ tick' = tick + 1
        BY <2>7 DEF FinishTick
      <3>2. Keeps
        BY <3>1 DEF Keeps, SameOrder
      <3>3. OneIf(tickStage # "RECEIVING_ORDERS") = 1 /\ OneIf(tickStage' # "RECEIVING_ORDERS") = 0
        BY <3>1 DEF OneIf
      <3>4. \A e, L, w, c : HadChances(e, L, w, tick, 1, c) => HadChances(e, L, w, tick + 1, 0, c)
        BY SameChances
      <3>5. \A e, L, w, c : HadChances(e, L, w, tick, OneIf(tickStage # "RECEIVING_ORDERS"), c) =>
                            HadChances(e, L, w, tick', OneIf(tickStage' # "RECEIVING_ORDERS"), c)
        BY <3>1, <3>3, <3>4
      <3>6. ~(tickStage = "RECEIVING_ORDERS" /\ tickStage' # tickStage)
        BY <3>1
      <3>7. QED
        BY <2>1, <3>2, <3>5, <3>6, NoneKeepsHInv
    <2>8. QED
      BY <2>2, <2>3, <2>4, <2>5, <2>6, <2>7
  <1>2. CASE UNCHANGED <<vars, history>>
    <2>1. UNCHANGED <<data, tickStage, tick, lifespanOf, chances, waited>>
      BY <1>2 DEF vars, history
    <2>2. QED
      BY <2>1 DEF HInv, Stored
  <1>3. QED
    BY <1>1, <1>2

\* What the history says of an expired order.
LEMMA HInvLifespan == HInv => BookedOrdersHaveTheirLifespan
  <1> SUFFICES ASSUME HInv PROVE BookedOrdersHaveTheirLifespan
    OBVIOUS
  <1> SUFFICES \A id \in Stored(data) : isExpired(data.orders[id], tick) => chances[id] = lifespanOf[id] - OneIf(id \in waited)
    <2>1. \A id \in Stored(data) : isExpired(data.orders[id], tick) => chances[id] = lifespanOf[id] - OneIf(id \in waited)
      OBVIOUS
    <2>2. \A id \in Stored(data) : id \in Ids /\ lifespanOf[id] \in Nat
      BY DEF HInv, Stored
    <2>3. \A id \in Stored(data) : OneIf(id \in waited) = (IF id \in waited THEN 1 ELSE 0) /\ lifespanOf[id] - 0 = lifespanOf[id]
      BY <2>2 DEF OneIf
    <2>4. QED
      BY <2>1, <2>3 DEF BookedOrdersHaveTheirLifespan, HadItsLifespan
  <1> TAKE id \in Stored(data)
  <1> HAVE isExpired(data.orders[id], tick)
  <1>1. HadChances(data.orders[id].expiresInTick, lifespanOf[id], OneIf(id \in waited), tick,
                   OneIf(tickStage # "RECEIVING_ORDERS"), chances[id])
    BY DEF HInv
  <1>2. data.orders[id].expiresInTick <= tick
    BY DEF isExpired
  <1>3. QED
    BY <1>1, <1>2, LastChance

\* The history is only watched: its specification is the one of the orderbook.
LEMMA HistoryOnlyWatches == LifespanSpec => Spec
  <1>1. LifespanInit => Init
    BY DEF LifespanInit
  <1>2. [LifespanNext]_<<vars, history>> => [Next]_vars
    BY DEF LifespanNext
  <1>3. QED
    BY <1>1, <1>2, PTL DEF LifespanSpec, Spec

\* An order that is found expired was matchable in as many ticks as its lifespan, if it was inserted
\* between two ticks, and in one less if it had to wait for the end of a tick; hints of moves name no
\* pending order.
THEOREM LifespansAreKept ==
    ASSUME HintsInBook, 0 \notin Lifespans
    PROVE  LifespanSpec => []BookedOrdersHaveTheirLifespan
  <1>1. LifespanInit => HInv
    BY InitHInv
  <1>2. IInv /\ HInv /\ [LifespanNext]_<<vars, history>> => HInv'
    BY NextHInv
  <1>3. LifespanSpec => []IInv
    BY HistoryOnlyWatches, ListsStayLinked
  <1>4. QED
    BY <1>1, <1>2, <1>3, HInvLifespan, PTL DEF LifespanSpec

\* Every order that is stored can be canceled between two ticks, without a hint, if no move was given a
\* hint that names a pending order: no owner has funds in an order that does not let go of them.
THEOREM OrdersCanBeCanceled ==
    ASSUME HintsInBook, 0 \notin Lifespans
    PROVE  Spec => [](tickStage = "RECEIVING_ORDERS" =>
                        \A id \in Ids : data.orders[id].id # 0 => CanRemove(data, id, 0))
  <1>1. ASSUME IInv, tickStage = "RECEIVING_ORDERS", NEW id \in Ids, data.orders[id].id # 0
        PROVE  CanRemove(data, id, 0)
    <2> DEFINE b == Books(data)
               q == Queues(data)
    <2>1. Good(data, b, q, {}) /\ \A t \in OrderTypes : q[t] = <<>>
      BY <1>1 DEF IInv
    <2>2. \E t \in OrderTypes : id \in In(b[t]) \union In(q[t])
      BY <1>1, StoredAreListed
    <2> HIDE DEF b, q
    <2>3. In(<<>>) = {}
      BY DEF In
    <2>4. PICK t \in OrderTypes : id \in In(b[t])
      BY <2>1, <2>2, <2>3
    <2>5. b[t] \in Seq(Ids)
      BY <2>1, GoodFacts
    <2>6. PICK at \in 1 .. Len(b[t]) : b[t][at] = id
      BY <2>4, <2>5, Places
    <2>7. CanRemove(data, b[t][at], 0)
      BY <2>1, EveryOrderCanBeRemoved
    <2>8. QED
      BY <2>6, <2>7
  <1>2. IInv => (tickStage = "RECEIVING_ORDERS" => \A id \in Ids : data.orders[id].id # 0 => CanRemove(data, id, 0))
    BY <1>1
  <1>3. Spec => []IInv
    BY ListsStayLinked
  <1>4. QED
    BY <1>2, <1>3, PTL
=============================================================================
