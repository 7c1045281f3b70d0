--------------------------- MODULE ExchangeProofs ---------------------------
(***************************************************************************)
(* The exchange never makes or loses a token, and its matching does what   *)
(* the simulation announced, for any number of orders, of any amounts,     *)
(* prices, rates and precisions, under every interleaving.                 *)
(*                                                                         *)
(* Tokens.  The invariant is that, of each token, what the exchange owns   *)
(* less the commissions it keeps and the tokens it could not send is what  *)
(* the lists of that side hold.  It needs that no order is twice in the    *)
(* lists, and that new ids are new.                                        *)
(*                                                                         *)
(* Matches.  The argument is a run of matches.  A moment is the orders of  *)
(* each side that have not expired; the match of the two tops of a moment  *)
(* gives the next moment; a run is moments one after the other, each of    *)
(* two tops that match.  The simulation builds a run that starts at the    *)
(* books as they are, without changing them; each match of the matching is *)
(* the first of what is left of that run; insertions go to the queues,     *)
(* expirations only take what is of no moment, and cancelations wait.      *)
(* Then: no two matches of a run are of the same two orders, so the        *)
(* matching ends with the last one and not before; and the two prices only *)
(* come closer, so the average of the last two suits every match.          *)
(***************************************************************************)
EXTENDS Exchange, Lemmas, TLAPS

-----------------------------------------------------------------------------
(* What orders hold. *)

Weight(order) == order.amount + order.commission

Weighed(S) == IsFiniteSet(S) /\ \A o \in S : o.amount \in Nat /\ o.commission \in Nat

\* f is the sum that HeldBy takes, of each subset of S.
Sums(f, S) ==
    \A T \in SUBSET S : f[T] = IF T = {} THEN 0 ELSE f[T \ {Some(T)}] + Some(T).amount + Some(T).commission

\* HeldBy is a fold; its function over the subsets of a set.
LEMMA HeldByIsFold ==
    ASSUME NEW S, Weighed(S)
    PROVE  \E f \in [SUBSET S -> Nat] :
              /\ HeldBy(S) = f[S]
              /\ Sums(f, S)
  <1> DEFINE step == [x \in S \X Nat |-> x[2] + x[1].amount + x[1].commission]
             Eq(f) == f = [T \in SUBSET S |-> IF T = {} THEN 0 ELSE f[T \ {Some(T)}] + Some(T).amount + Some(T).commission]
             iter == CHOOSE f : Eq(f)
  <1>1. HeldBy(S) = iter[S]
    BY DEF HeldBy, FoldSet, MapThenFoldSet, Some
  <1>2. PICK f \in [SUBSET S -> Nat] : Folds(f, S, 0, step)
    <2>1. step \in [S \X Nat -> Nat] /\ 0 \in Nat
      BY DEF Weighed
    <2> HIDE DEF step
    <2>2. QED
      BY <2>1, FoldExists DEF Weighed
  <1>3. ASSUME NEW T \in SUBSET S
        PROVE  f[T] = IF T = {} THEN 0 ELSE f[T \ {Some(T)}] + Some(T).amount + Some(T).commission
    <2>1. CASE T # {}
      <3>1. Some(T) \in S /\ f[T \ {Some(T)}] \in Nat
        BY <2>1 DEF Some
      <3>2. QED
        BY <1>2, <2>1, <3>1 DEF Folds
    <2>2. QED
      BY <1>2, <2>1 DEF Folds
  <1>4. Eq(f)
    BY <1>2, <1>3
  <1>5. Eq(iter)
    BY <1>4
  <1> HIDE DEF iter
  <1>6. \A T \in SUBSET S : iter[T] = IF T = {} THEN 0 ELSE iter[T \ {Some(T)}] + Some(T).amount + Some(T).commission
    BY <1>5
  <1>7. SUBSET S \subseteq {T \in SUBSET S : iter[T] \in Nat}
    <2> DEFINE Good == {T \in SUBSET S : iter[T] \in Nat}
    <2>1. {} \in Good
      <3>1. {} \in SUBSET S
        OBVIOUS
      <3>2. iter[{}] = 0
        BY <1>6, <3>1
      <3>3. QED
        BY <3>1, <3>2
    <2>2. ASSUME NEW T \in SUBSET S, T # {}, \A x \in T : T \ {x} \in Good
          PROVE  T \in Good
      <3>1. Some(T) \in T
        BY <2>2 DEF Some
      <3>2. iter[T \ {Some(T)}] \in Nat /\ Some(T) \in S
        BY <2>2, <3>1
      <3>3. iter[T] = iter[T \ {Some(T)}] + Some(T).amount + Some(T).commission
        BY <1>6, <2>2
      <3>4. QED
        BY <3>2, <3>3 DEF Weighed
    <2> HIDE DEF Good
    <2>3. SUBSET S \subseteq Good
      BY <2>1, <2>2, SubsetInduction DEF Weighed
    <2>4. QED
      BY <2>3 DEF Good
  <1>8. iter \in [SUBSET S -> Nat]
    BY <1>5, <1>7
  <1>9. QED
    BY <1>1, <1>6, <1>8 DEF Sums

\* A part of a weighed set is weighed.
LEMMA WeighedPart ==
    ASSUME NEW S, Weighed(S), NEW T, T \subseteq S
    PROVE  Weighed(T)
  BY FS_Subset DEF Weighed

\* The function of a set gives HeldBy of its subsets.
LEMMA HeldByOfSubset ==
    ASSUME NEW S, Weighed(S), NEW f, Sums(f, S),
           NEW U \in SUBSET S
    PROVE  f[U] = HeldBy(U)
  <1>1. Weighed(U)
    BY WeighedPart
  <1>2. PICK g \in [SUBSET U -> Nat] :
            /\ HeldBy(U) = g[U]
            /\ Sums(g, U)
    BY <1>1, HeldByIsFold
  <1> DEFINE Good == {T \in SUBSET U : f[T] = g[T]}
  <1>3. {} \in Good
    <2>1. {} \in SUBSET U /\ {} \in SUBSET S
      OBVIOUS
    <2>2. f[{}] = 0 /\ g[{}] = 0
      BY <1>2, <2>1 DEF Sums
    <2>3. QED
      BY <2>1, <2>2
  <1>4. ASSUME NEW T \in SUBSET U, T # {}, \A x \in T : T \ {x} \in Good
        PROVE  T \in Good
    <2>1. Some(T) \in T /\ T \in SUBSET S
      BY <1>4 DEF Some
    <2>2. f[T \ {Some(T)}] = g[T \ {Some(T)}]
      BY <1>4, <2>1
    <2>3. /\ f[T] = f[T \ {Some(T)}] + Some(T).amount + Some(T).commission
          /\ g[T] = g[T \ {Some(T)}] + Some(T).amount + Some(T).commission
      BY <1>2, <1>4, <2>1 DEF Sums
    <2>4. QED
      BY <2>2, <2>3
  <1> HIDE DEF Good
  <1>5. SUBSET U \subseteq Good
    BY <1>1, <1>3, <1>4, SubsetInduction DEF Weighed
  <1>6. U \in Good
    BY <1>5
  <1>7. QED
    BY <1>2, <1>6 DEF Good

\* HeldBy of a set, from the order that the fold takes first.
LEMMA HeldByUnfolds ==
    ASSUME NEW S, Weighed(S)
    PROVE  /\ HeldBy(S) \in Nat
           /\ S = {} => HeldBy(S) = 0
           /\ S # {} => Some(S) \in S /\ HeldBy(S) = HeldBy(S \ {Some(S)}) + Weight(Some(S))
  <1>1. PICK f \in [SUBSET S -> Nat] :
            /\ HeldBy(S) = f[S]
            /\ Sums(f, S)
    BY HeldByIsFold
  <1>2. S \in SUBSET S /\ S \ {Some(S)} \in SUBSET S
    OBVIOUS
  <1>3. f[S \ {Some(S)}] = HeldBy(S \ {Some(S)})
    BY <1>1, <1>2, HeldByOfSubset
  <1>4. HeldBy(S) \in Nat /\ f[S \ {Some(S)}] \in Nat
    BY <1>1, <1>2
  <1>5. f[S] = IF S = {} THEN 0 ELSE f[S \ {Some(S)}] + Some(S).amount + Some(S).commission
    BY <1>1, <1>2 DEF Sums
  <1>6. S # {} => Some(S) \in S
    BY DEF Some
  <1>7. CASE S = {}
    BY <1>1, <1>4, <1>5, <1>7
  <1>8. CASE S # {}
    <2>1. Some(S).amount \in Nat /\ Some(S).commission \in Nat
      BY <1>6, <1>8 DEF Weighed
    <2>2. HeldBy(S) = HeldBy(S \ {Some(S)}) + Weight(Some(S))
      BY <1>1, <1>3, <1>4, <1>5, <1>8, <2>1 DEF Weight
    <2>3. QED
      BY <1>4, <1>6, <1>8, <2>2
  <1>9. QED
    BY <1>7, <1>8

\* An order that is taken out of a set takes what it holds, whichever it is.
LEMMA HeldByWithout ==
    ASSUME NEW S, Weighed(S), NEW o \in S
    PROVE  HeldBy(S) = HeldBy(S \ {o}) + Weight(o)
  <1> DEFINE Good == {T \in SUBSET S : \A x \in T : HeldBy(T) = HeldBy(T \ {x}) + Weight(x)}
  <1>1. \A T \in SUBSET S : Weighed(T) /\ \A x \in T : Weight(x) \in Nat
    BY WeighedPart DEF Weighed, Weight
  <1>2. {} \in Good
    OBVIOUS
  <1>3. ASSUME NEW T \in SUBSET S, T # {}, \A x \in T : T \ {x} \in Good
        PROVE  T \in Good
    <2> SUFFICES ASSUME NEW x \in T
                 PROVE  HeldBy(T) = HeldBy(T \ {x}) + Weight(x)
      OBVIOUS
    <2> DEFINE y == Some(T)
    <2>1. y \in T /\ HeldBy(T) = HeldBy(T \ {y}) + Weight(y)
      BY <1>1, <1>3, HeldByUnfolds
    <2> HIDE DEF y
    <2>2. CASE x = y
      BY <2>1, <2>2
    <2>3. CASE x # y
      <3>1. x \in T \ {y} /\ y \in T \ {x}
        BY <2>1, <2>3
      <3>2. /\ HeldBy(T \ {y}) = HeldBy((T \ {y}) \ {x}) + Weight(x)
            /\ HeldBy(T \ {x}) = HeldBy((T \ {x}) \ {y}) + Weight(y)
        BY <1>3, <2>1, <3>1
      <3>3. (T \ {y}) \ {x} = (T \ {x}) \ {y}
        OBVIOUS
      <3> DEFINE rest == (T \ {x}) \ {y}
      <3>4. HeldBy(rest) \in Nat /\ Weight(x) \in Nat /\ Weight(y) \in Nat
        BY <1>1, <2>1, HeldByUnfolds
      <3> HIDE DEF rest
      <3>5. HeldBy(T \ {y}) = HeldBy(rest) + Weight(x) /\ HeldBy(T \ {x}) = HeldBy(rest) + Weight(y)
        BY <3>2, <3>3 DEF rest
      <3>6. QED
        BY <2>1, <3>4, <3>5
    <2>4. QED
      BY <2>2, <2>3
  <1> HIDE DEF Good
  <1>4. SUBSET S \subseteq Good
    BY <1>2, <1>3, SubsetInduction DEF Weighed
  <1>5. S \in Good
    BY <1>4
  <1>6. QED
    BY <1>5 DEF Good

\* An order that comes to a set adds what it holds.
LEMMA HeldByWith ==
    ASSUME NEW S, Weighed(S), NEW o, o.amount \in Nat, o.commission \in Nat, o \notin S
    PROVE  Weighed(S \union {o}) /\ HeldBy(S \union {o}) = HeldBy(S) + Weight(o)
  <1>1. Weighed(S \union {o})
    BY FS_AddElement DEF Weighed
  <1>2. (S \union {o}) \ {o} = S /\ o \in S \union {o}
    OBVIOUS
  <1> DEFINE T == S \union {o}
  <1> HIDE DEF T
  <1>3. HeldBy(T) = HeldBy(T \ {o}) + Weight(o)
    BY <1>1, <1>2, HeldByWithout DEF T
  <1>4. QED
    BY <1>1, <1>2, <1>3 DEF T

-----------------------------------------------------------------------------
(* The ledger. *)

Ledgers == [balance : [Sides -> Nat], charged : [Sides -> Nat], stranded : [Sides -> Nat]]

\* What is left of a token for the orders.
Net(l, token) == l.balance[token] - l.charged[token] - l.stranded[token]

\* The ledger l becomes the ledger k, with "amount" of a token less for the orders.
Pays(l, k, token, amount) ==
    /\ k \in Ledgers
    /\ Net(k, token) = Net(l, token) - amount
    /\ Net(k, Other(token)) = Net(l, Other(token))

\* The two tokens.
LEMMA OtherSide ==
    ASSUME NEW token \in Sides
    PROVE  Other(token) \in Sides /\ Other(token) # token /\ Other(Other(token)) = token
           /\ Sides = {token, Other(token)}
  BY DEF Sides, Other

\* What is left of a token is a number.
LEMMA NetIsInt ==
    ASSUME NEW l \in Ledgers, NEW token \in Sides
    PROVE  Net(l, token) \in Int
  BY DEF Ledgers, Net

\* chargeCommission takes the commission from what is left for the orders.
LEMMA ChargePays ==
    ASSUME NEW l \in Ledgers, NEW token \in Sides, NEW amount \in Nat
    PROVE  Pays(l, chargeCommission(l, token, amount), token, amount)
  <1> DEFINE new == [l.charged EXCEPT ![token] = l.charged[token] + amount]
             k == [l EXCEPT !.charged = new]
  <1>1. chargeCommission(l, token, amount) = k
    BY DEF chargeCommission
  <1>2. l.charged \in [Sides -> Nat] /\ l.balance \in [Sides -> Nat] /\ l.stranded \in [Sides -> Nat]
    BY DEF Ledgers
  <1>3. /\ new \in [Sides -> Nat] /\ new[token] = l.charged[token] + amount
        /\ new[Other(token)] = l.charged[Other(token)]
    BY <1>2, OtherSide
  <1> HIDE DEF new
  <1>4. k \in Ledgers /\ k.charged = new /\ k.balance = l.balance /\ k.stranded = l.stranded
    BY <1>2, <1>3 DEF Ledgers
  <1> HIDE DEF k
  <1>5. Net(k, token) = Net(l, token) - amount
    BY <1>2, <1>3, <1>4 DEF Net
  <1>6. Net(k, Other(token)) = Net(l, Other(token))
    BY <1>3, <1>4 DEF Net
  <1>7. QED
    BY <1>1, <1>4, <1>5, <1>6 DEF Pays

\* doTransfer takes the amount from what is left for the orders, whether it succeeds or not.
LEMMA TransferPays ==
    ASSUME NEW l \in Ledgers, NEW id, NEW token \in Sides, NEW amount \in Nat
    PROVE  Pays(l, doTransfer(l, id, token, amount), token, amount)
  <1>1. l.charged \in [Sides -> Nat] /\ l.balance \in [Sides -> Nat] /\ l.stranded \in [Sides -> Nat]
    BY DEF Ledgers
  <1>2. CASE TransferFails(l, id, token, amount)
    <2> DEFINE new == [l.stranded EXCEPT ![token] = l.stranded[token] + amount]
               k == [l EXCEPT !.stranded = new]
    <2>1. doTransfer(l, id, token, amount) = k
      BY <1>2 DEF doTransfer
    <2>2. /\ new \in [Sides -> Nat] /\ new[token] = l.stranded[token] + amount
          /\ new[Other(token)] = l.stranded[Other(token)]
      BY <1>1, OtherSide
    <2> HIDE DEF new
    <2>3. k \in Ledgers /\ k.stranded = new /\ k.balance = l.balance /\ k.charged = l.charged
      BY <1>1, <2>2 DEF Ledgers
    <2> HIDE DEF k
    <2>4. Net(k, token) = Net(l, token) - amount
      BY <1>1, <2>2, <2>3 DEF Net
    <2>5. Net(k, Other(token)) = Net(l, Other(token))
      BY <2>2, <2>3 DEF Net
    <2>6. QED
      BY <2>1, <2>3, <2>4, <2>5 DEF Pays
  <1>3. CASE ~TransferFails(l, id, token, amount)
    <2> DEFINE new == [l.balance EXCEPT ![token] = l.balance[token] - amount]
               k == [l EXCEPT !.balance = new]
    <2>1. doTransfer(l, id, token, amount) = k
      BY <1>3 DEF doTransfer
    <2>2. l.balance[token] - amount \in Nat
      BY <1>1, <1>3 DEF TransferFails
    <2>3. /\ new \in [Sides -> Nat] /\ new[token] = l.balance[token] - amount
          /\ new[Other(token)] = l.balance[Other(token)]
      BY <1>1, <2>2, OtherSide
    <2> HIDE DEF new
    <2>4. k \in Ledgers /\ k.balance = new /\ k.stranded = l.stranded /\ k.charged = l.charged
      BY <1>1, <2>3 DEF Ledgers
    <2> HIDE DEF k
    <2>5. Net(k, token) = Net(l, token) - amount
      BY <1>1, <2>3, <2>4 DEF Net
    <2>6. Net(k, Other(token)) = Net(l, Other(token))
      BY <2>3, <2>4 DEF Net
    <2>7. QED
      BY <2>1, <2>4, <2>5, <2>6 DEF Pays
  <1>4. QED
    BY <1>2, <1>3

\* Two payments of one token.
LEMMA PaysTwice ==
    ASSUME NEW l \in Ledgers, NEW token \in Sides, NEW k, NEW m, NEW a \in Nat, NEW b \in Nat,
           Pays(l, k, token, a), Pays(k, m, token, b)
    PROVE  Pays(l, m, token, a + b)
  <1>1. k \in Ledgers /\ m \in Ledgers
    BY DEF Pays
  <1>2. Net(l, token) \in Int /\ Net(k, token) \in Int /\ Net(m, token) \in Int
    BY <1>1, NetIsInt
  <1>3. Net(k, token) = Net(l, token) - a /\ Net(m, token) = Net(k, token) - b
    BY DEF Pays
  <1>4. QED
    BY <1>1, <1>2, <1>3 DEF Pays

\* refundOrder takes all that the order held, as penalty and as refund.
LEMMA RefundPays ==
    ASSUME NEW l \in Ledgers, NEW side \in Sides, NEW order, order.amount \in Nat, order.commission \in Nat,
           NEW rate \in 0 .. RatePrecision
    PROVE  Pays(l, refundOrder(l, side, order, rate), side, Weight(order))
  <1>1. /\ Penalty(order, rate) \in Nat /\ Refund(order, rate) \in Nat
        /\ Penalty(order, rate) + Refund(order, rate) = Weight(order)
    BY RefundBounds DEF Weight
  <1> DEFINE k == chargeCommission(l, side, Penalty(order, rate))
             m == doTransfer(k, order.id, side, Refund(order, rate))
  <1>2. Pays(l, k, side, Penalty(order, rate))
    BY <1>1, ChargePays
  <1>3. k \in Ledgers
    BY <1>2 DEF Pays
  <1> HIDE DEF k
  <1>4. Pays(k, m, side, Refund(order, rate))
    BY <1>1, <1>3, TransferPays
  <1> HIDE DEF m
  <1>5. Pays(l, m, side, Penalty(order, rate) + Refund(order, rate))
    BY <1>1, <1>2, <1>4, PaysTwice
  <1>6. refundOrder(l, side, order, rate) = m
    BY DEF refundOrder, k, m
  <1>7. QED
    BY <1>1, <1>5, <1>6

\* Refunding a set of orders pays what they hold.
LEMMA RefundAllPays ==
    ASSUME NEW l \in Ledgers, NEW side \in Sides, NEW S, Weighed(S), ExpirationRate \in 0 .. RatePrecision
    PROVE  Pays(l, RefundAll(l, side, S), side, HeldBy(S))
  <1> DEFINE Refunded(k, order) == refundOrder(k, side, order, ExpirationRate)
             step == [x \in S \X Ledgers |-> Refunded(x[2], x[1])]
             Eq(f) == f = [T \in SUBSET S |-> IF T = {} THEN l ELSE Refunded(f[T \ {Some(T)}], Some(T))]
             iter == CHOOSE f : Eq(f)
  <1>1. RefundAll(l, side, S) = iter[S]
    BY DEF RefundAll, FoldSet, MapThenFoldSet, Some
  <1>2. \A k \in Ledgers, order \in S : Pays(k, Refunded(k, order), side, Weight(order))
    BY RefundPays DEF Weighed
  <1> HIDE DEF Refunded
  <1>3. PICK f \in [SUBSET S -> Ledgers] : Folds(f, S, l, step)
    <2>1. step \in [S \X Ledgers -> Ledgers]
      BY <1>2 DEF Pays
    <2> HIDE DEF step
    <2>2. QED
      BY <2>1, FoldExists DEF Weighed
  <1>4. ASSUME NEW T \in SUBSET S
        PROVE  f[T] = IF T = {} THEN l ELSE Refunded(f[T \ {Some(T)}], Some(T))
    <2>1. CASE T # {}
      <3>1. Some(T) \in S /\ f[T \ {Some(T)}] \in Ledgers
        BY <2>1 DEF Some
      <3>2. QED
        BY <1>3, <2>1, <3>1 DEF Folds
    <2>2. QED
      BY <1>3, <2>1 DEF Folds
  <1>5. Eq(f)
    BY <1>3, <1>4
  <1>6. Eq(iter)
    BY <1>5
  <1> HIDE DEF iter
  <1>7. \A T \in SUBSET S : iter[T] = IF T = {} THEN l ELSE Refunded(iter[T \ {Some(T)}], Some(T))
    BY <1>6
  <1> DEFINE Good == {T \in SUBSET S : Pays(l, iter[T], side, HeldBy(T))}
  <1>8. {} \in Good
    <2>1. {} \in SUBSET S /\ Weighed({})
      BY FS_EmptySet DEF Weighed
    <2>2. iter[{}] = l /\ HeldBy({}) = 0
      BY <1>7, <2>1, HeldByUnfolds
    <2>3. Pays(l, l, side, 0)
      BY NetIsInt DEF Pays
    <2>4. Pays(l, iter[{}], side, HeldBy({}))
      BY <2>2, <2>3
    <2>5. QED
      BY <2>1, <2>4
  <1>9. ASSUME NEW T \in SUBSET S, T # {}, \A x \in T : T \ {x} \in Good
        PROVE  T \in Good
    <2> DEFINE x == Some(T)
               rest == T \ {x}
    <2>1. x \in T /\ x \in S /\ Weighed(T) /\ Weighed(rest)
      BY <1>9, WeighedPart DEF Some
    <2>2. iter[T] = Refunded(iter[rest], x)
      BY <1>7, <1>9
    <2>3. HeldBy(T) = HeldBy(rest) + Weight(x)
      BY <2>1, HeldByWithout
    <2>4. Pays(l, iter[rest], side, HeldBy(rest))
      BY <1>9, <2>1
    <2> HIDE DEF x, rest
    <2>5. Pays(iter[rest], iter[T], side, Weight(x))
      BY <1>2, <2>1, <2>2, <2>4 DEF Pays
    <2>6. HeldBy(rest) \in Nat /\ Weight(x) \in Nat
      <3>1. HeldBy(rest) \in Nat
        BY <2>1, HeldByUnfolds
      <3>2. Weight(x) \in Nat
        BY <2>1 DEF Weighed, Weight
      <3>3. QED
        BY <3>1, <3>2
    <2>7. Pays(l, iter[T], side, HeldBy(rest) + Weight(x))
      BY <2>4, <2>5, <2>6, PaysTwice
    <2>8. Pays(l, iter[T], side, HeldBy(T))
      BY <2>3, <2>7 DEF rest
    <2>9. QED
      BY <2>8
  <1> HIDE DEF Good
  <1>10. S \in Good
    BY <1>8, <1>9, SubsetInduction DEF Weighed
  <1>11. QED
    BY <1>1, <1>10 DEF Good

-----------------------------------------------------------------------------
(* The lists of a side. *)

Lists == [OrderTypes -> Seq(OrderType)]

\* The orders of a side: b is its book and q its queues.
OrdersOf(b, q) == UNION {In(b[t]) \union In(q[t]) : t \in OrderTypes}

\* The lists of a side hold orders of their type, and no id twice.
Tidy(b, q) ==
    /\ b \in Lists /\ q \in Lists
    /\ \A t \in OrderTypes : Distinct(b[t]) /\ Distinct(q[t]) /\ In(b[t]) \cap In(q[t]) = {}
    /\ \A t \in OrderTypes : \A o \in In(b[t]) \union In(q[t]) : o.orderType = t
    /\ \A o, r \in OrdersOf(b, q) : o.id = r.id => o = r

\* The orders of a tidy side can be added up.
LEMMA TidyIsWeighed ==
    ASSUME NEW b, NEW q, Tidy(b, q)
    PROVE  OrdersOf(b, q) \subseteq OrderType /\ Weighed(OrdersOf(b, q))
  <1>1. \A t \in OrderTypes : b[t] \in Seq(OrderType) /\ q[t] \in Seq(OrderType)
    BY DEF Tidy, Lists
  <1>2. \A t \in OrderTypes : /\ In(b[t]) \subseteq OrderType /\ IsFiniteSet(In(b[t]))
                              /\ In(q[t]) \subseteq OrderType /\ IsFiniteSet(In(q[t]))
    BY <1>1, InIsFinite
  <1> DEFINE A(t) == In(b[t]) \union In(q[t])
  <1>3. \A t \in OrderTypes : A(t) \subseteq OrderType /\ IsFiniteSet(A(t))
    BY <1>2, FS_Union
  <1>4. OrdersOf(b, q) = A("LIMIT_ORDER") \union A("MARKET_ORDER")
    BY DEF OrdersOf, OrderTypes
  <1> HIDE DEF A
  <1>5. IsFiniteSet(OrdersOf(b, q)) /\ OrdersOf(b, q) \subseteq OrderType
    BY <1>3, <1>4, FS_Union DEF OrderTypes
  <1>6. QED
    BY <1>5 DEF Weighed, OrderType

\* Books and queues play the same part.
LEMMA TidyIsSymmetric ==
    ASSUME NEW b, NEW q, Tidy(b, q)
    PROVE  Tidy(q, b) /\ OrdersOf(q, b) = OrdersOf(b, q)
  <1>1. OrdersOf(q, b) = OrdersOf(b, q)
    BY DEF OrdersOf
  <1>2. \A t \in OrderTypes : In(q[t]) \cap In(b[t]) = {}
    BY DEF Tidy
  <1>3. QED
    BY <1>1, <1>2 DEF Tidy

\* The orders of the other type.
OthersOf(b, q, t) == UNION {In(b[u]) \union In(q[u]) : u \in OrderTypes \ {t}}

\* The list of type t becomes s.
Changes(b, c, t, s) ==
    /\ c \in Lists
    /\ c[t] = s
    /\ \A u \in OrderTypes : u # t => c[u] = b[u]

\* An assignment to one list changes that list.
LEMMA ExceptChanges ==
    ASSUME NEW b \in Lists, NEW t \in OrderTypes, NEW s \in Seq(OrderType)
    PROVE  Changes(b, [b EXCEPT ![t] = s], t, s)
  BY DEF Changes, Lists

\* Orders leave a list.
LEMMA RemovedOrders ==
    ASSUME NEW b, NEW q, Tidy(b, q), NEW t \in OrderTypes, NEW D, D \subseteq In(b[t]),
           NEW s \in Seq(OrderType), Distinct(s), In(s) = In(b[t]) \ D,
           NEW c, Changes(b, c, t, s)
    PROVE  Tidy(c, q) /\ OrdersOf(c, q) = OrdersOf(b, q) \ D
  <1> DEFINE rest == OthersOf(b, q, t)
  <1>1. /\ c \in Lists /\ c[t] = s
        /\ \A u \in OrderTypes : u # t => c[u] = b[u]
        /\ OrdersOf(c, q) = In(s) \union In(q[t]) \union rest
        /\ OrdersOf(b, q) = In(b[t]) \union In(q[t]) \union rest
    <2>1. c \in Lists /\ c[t] = s /\ \A u \in OrderTypes : u # t => c[u] = b[u]
      BY DEF Changes
    <2>2. OrdersOf(c, q) = In(s) \union In(q[t]) \union rest
      BY <2>1 DEF OrdersOf, OthersOf
    <2>3. OrdersOf(b, q) = In(b[t]) \union In(q[t]) \union rest
      BY DEF OrdersOf, OthersOf
    <2>4. QED
      BY <2>1, <2>2, <2>3
  <1>2. /\ \A u \in OrderTypes : Distinct(b[u]) /\ Distinct(q[u]) /\ In(b[u]) \cap In(q[u]) = {}
        /\ \A u \in OrderTypes : \A o \in In(b[u]) \union In(q[u]) : o.orderType = u
        /\ \A o, r \in OrdersOf(b, q) : o.id = r.id => o = r
        /\ q \in Lists
    BY DEF Tidy
  <1>3. D \cap rest = {} /\ D \cap In(q[t]) = {}
    BY <1>2 DEF OthersOf
  <1> HIDE DEF rest
  <1>4. OrdersOf(c, q) = OrdersOf(b, q) \ D
    BY <1>1, <1>3
  <1>5. /\ \A u \in OrderTypes : Distinct(c[u]) /\ Distinct(q[u]) /\ In(c[u]) \cap In(q[u]) = {}
        /\ \A u \in OrderTypes : \A o \in In(c[u]) \union In(q[u]) : o.orderType = u
    <2> SUFFICES ASSUME NEW u \in OrderTypes
                 PROVE  /\ Distinct(c[u]) /\ Distinct(q[u]) /\ In(c[u]) \cap In(q[u]) = {}
                        /\ \A o \in In(c[u]) \union In(q[u]) : o.orderType = u
      OBVIOUS
    <2>1. CASE u = t
      BY <1>1, <1>2, <2>1
    <2>2. CASE u # t
      BY <1>1, <1>2, <2>2
    <2>3. QED
      BY <2>1, <2>2
  <1>6. \A o, r \in OrdersOf(c, q) : o.id = r.id => o = r
    BY <1>2, <1>4
  <1>7. Tidy(c, q)
    BY <1>1, <1>2, <1>5, <1>6 DEF Tidy
  <1>8. QED
    BY <1>4, <1>7

\* An order comes to a list.
LEMMA AddedOrder ==
    ASSUME NEW b, NEW q, Tidy(b, q), NEW t \in OrderTypes, NEW o \in OrderType, o.orderType = t,
           \A r \in OrdersOf(b, q) : r.id # o.id,
           NEW s \in Seq(OrderType), Distinct(s), In(s) = In(b[t]) \union {o},
           NEW c, Changes(b, c, t, s)
    PROVE  Tidy(c, q) /\ OrdersOf(c, q) = OrdersOf(b, q) \union {o}
  <1> DEFINE rest == OthersOf(b, q, t)
  <1>1. /\ c \in Lists /\ c[t] = s
        /\ \A u \in OrderTypes : u # t => c[u] = b[u]
        /\ OrdersOf(c, q) = In(s) \union In(q[t]) \union rest
        /\ OrdersOf(b, q) = In(b[t]) \union In(q[t]) \union rest
    <2>1. c \in Lists /\ c[t] = s /\ \A u \in OrderTypes : u # t => c[u] = b[u]
      BY DEF Changes
    <2>2. OrdersOf(c, q) = In(s) \union In(q[t]) \union rest
      BY <2>1 DEF OrdersOf, OthersOf
    <2>3. OrdersOf(b, q) = In(b[t]) \union In(q[t]) \union rest
      BY DEF OrdersOf, OthersOf
    <2>4. QED
      BY <2>1, <2>2, <2>3
  <1>2. /\ \A u \in OrderTypes : Distinct(b[u]) /\ Distinct(q[u]) /\ In(b[u]) \cap In(q[u]) = {}
        /\ \A u \in OrderTypes : \A r \in In(b[u]) \union In(q[u]) : r.orderType = u
        /\ \A p, r \in OrdersOf(b, q) : p.id = r.id => p = r
        /\ q \in Lists
    BY DEF Tidy
  <1> HIDE DEF rest
  <1>3. o \notin OrdersOf(b, q)
    OBVIOUS
  <1>4. OrdersOf(c, q) = OrdersOf(b, q) \union {o}
    BY <1>1
  <1>5. /\ \A u \in OrderTypes : Distinct(c[u]) /\ Distinct(q[u]) /\ In(c[u]) \cap In(q[u]) = {}
        /\ \A u \in OrderTypes : \A r \in In(c[u]) \union In(q[u]) : r.orderType = u
    <2> SUFFICES ASSUME NEW u \in OrderTypes
                 PROVE  /\ Distinct(c[u]) /\ Distinct(q[u]) /\ In(c[u]) \cap In(q[u]) = {}
                        /\ \A r \in In(c[u]) \union In(q[u]) : r.orderType = u
      OBVIOUS
    <2>1. CASE u = t
      BY <1>1, <1>2, <1>3, <2>1
    <2>2. CASE u # t
      BY <1>1, <1>2, <2>2
    <2>3. QED
      BY <2>1, <2>2
  <1>6. \A p, r \in OrdersOf(c, q) : p.id = r.id => p = r
    BY <1>2, <1>4
  <1>7. Tidy(c, q)
    BY <1>1, <1>2, <1>5, <1>6 DEF Tidy
  <1>8. QED
    BY <1>4, <1>7

-----------------------------------------------------------------------------
(* Whether the ledger has what the orders of a side hold. *)

\* What a set of orders holds is what some of them hold and what the others hold.
LEMMA HeldBySplits ==
    ASSUME NEW S, Weighed(S), NEW D, D \subseteq S
    PROVE  /\ HeldBy(S) \in Nat /\ HeldBy(D) \in Nat /\ HeldBy(S \ D) \in Nat
           /\ HeldBy(S) = HeldBy(S \ D) + HeldBy(D)
  <1> DEFINE Good == {T \in SUBSET D : HeldBy(S) = HeldBy(S \ T) + HeldBy(T)}
  <1>1. Weighed(D) /\ Weighed(S \ D)
    BY WeighedPart
  <1>2. HeldBy(S) \in Nat /\ HeldBy(D) \in Nat /\ HeldBy(S \ D) \in Nat
    BY <1>1, HeldByUnfolds
  <1>3. {} \in Good
    <2>1. Weighed({})
      BY WeighedPart
    <2>2. HeldBy({}) = 0
      BY <2>1, HeldByUnfolds
    <2>3. S \ {} = S
      OBVIOUS
    <2>4. HeldBy(S) = HeldBy(S \ {}) + HeldBy({})
      BY <1>2, <2>2, <2>3
    <2>5. QED
      BY <2>4
  <1>4. ASSUME NEW T \in SUBSET D, T # {}, \A x \in T : T \ {x} \in Good
        PROVE  T \in Good
    <2>1. PICK x \in T : TRUE
      BY <1>4
    <2> DEFINE rest == T \ {x}
               left == S \ rest
    <2>2. HeldBy(S) = HeldBy(left) + HeldBy(rest)
      BY <1>4
    <2>3. Weighed(T) /\ Weighed(rest) /\ Weighed(left) /\ Weighed(S \ T)
      <3>1. T \subseteq S /\ rest \subseteq S /\ left \subseteq S /\ S \ T \subseteq S
        OBVIOUS
      <3>2. QED
        BY <3>1, WeighedPart
    <2>4. x \in left /\ left \ {x} = S \ T
      OBVIOUS
    <2>5. HeldBy(T) = HeldBy(rest) + Weight(x)
      BY <2>3, HeldByWithout
    <2> HIDE DEF left, rest
    <2>6. HeldBy(left) = HeldBy(S \ T) + Weight(x)
      BY <2>3, <2>4, HeldByWithout
    <2>7. HeldBy(rest) \in Nat /\ HeldBy(S \ T) \in Nat
      BY <2>3, HeldByUnfolds
    <2>8. Weight(x) \in Nat
      BY <2>3, <2>1 DEF Weighed, Weight
    <2>9. HeldBy(S) = HeldBy(S \ T) + HeldBy(T)
      BY <2>2, <2>5, <2>6, <2>7, <2>8
    <2>10. QED
      BY <2>9
  <1> HIDE DEF Good
  <1>5. D \in Good
    BY <1>1, <1>3, <1>4, SubsetInduction DEF Weighed
  <1>6. QED
    BY <1>2, <1>5 DEF Good

\* The two sides share nothing; "n" is what the ledger has for the orders of one.
Solvent(b, q, n) == Tidy(b, q) /\ n = HeldBy(OrdersOf(b, q))

\* Books and queues play the same part.
LEMMA SolventIsSymmetric ==
    ASSUME NEW b, NEW q, NEW n, Solvent(b, q, n)
    PROVE  Solvent(q, b, n)
  BY TidyIsSymmetric DEF Solvent

\* A side that loses orders needs less by what they hold.
LEMMA SolventLess ==
    ASSUME NEW b, NEW q, NEW n, Solvent(b, q, n), NEW t \in OrderTypes, NEW D, D \subseteq In(b[t]),
           NEW s \in Seq(OrderType), Distinct(s), In(s) = In(b[t]) \ D,
           NEW c, Changes(b, c, t, s)
    PROVE  Solvent(c, q, n - HeldBy(D))
  <1>1. Tidy(b, q) /\ n = HeldBy(OrdersOf(b, q))
    BY DEF Solvent
  <1>2. Tidy(c, q) /\ OrdersOf(c, q) = OrdersOf(b, q) \ D
    BY <1>1, RemovedOrders
  <1>3. Weighed(OrdersOf(b, q)) /\ D \subseteq OrdersOf(b, q)
    BY <1>1, TidyIsWeighed DEF OrdersOf
  <1> DEFINE S == OrdersOf(b, q)
  <1> HIDE DEF S
  <1>4. /\ HeldBy(S) \in Nat /\ HeldBy(D) \in Nat /\ HeldBy(S \ D) \in Nat
        /\ HeldBy(S) = HeldBy(S \ D) + HeldBy(D)
    BY <1>3, HeldBySplits DEF S
  <1>5. n - HeldBy(D) = HeldBy(S \ D)
    BY <1>1, <1>4 DEF S
  <1>6. QED
    BY <1>2, <1>5 DEF Solvent, S

\* A side that gains an order needs more by what it holds.
LEMMA SolventMore ==
    ASSUME NEW b, NEW q, NEW n, Solvent(b, q, n), NEW t \in OrderTypes,
           NEW o \in OrderType, o.orderType = t, \A r \in OrdersOf(b, q) : r.id # o.id,
           NEW s \in Seq(OrderType), Distinct(s), In(s) = In(b[t]) \union {o},
           NEW c, Changes(b, c, t, s)
    PROVE  Solvent(c, q, n + Weight(o)) /\ OrdersOf(c, q) = OrdersOf(b, q) \union {o}
  <1>1. Tidy(b, q) /\ n = HeldBy(OrdersOf(b, q))
    BY DEF Solvent
  <1>2. Tidy(c, q) /\ OrdersOf(c, q) = OrdersOf(b, q) \union {o}
    BY <1>1, AddedOrder
  <1>3. Weighed(OrdersOf(b, q)) /\ o \notin OrdersOf(b, q)
    BY <1>1, TidyIsWeighed
  <1>4. o.amount \in Nat /\ o.commission \in Nat
    BY DEF OrderType
  <1>5. HeldBy(OrdersOf(b, q) \union {o}) = HeldBy(OrdersOf(b, q)) + Weight(o)
    BY <1>3, <1>4, HeldByWith
  <1>6. QED
    BY <1>1, <1>2, <1>5 DEF Solvent

\* What one order holds.
LEMMA HeldByOne ==
    ASSUME NEW o \in OrderType
    PROVE  HeldBy({o}) = Weight(o) /\ Weight(o) \in Nat
  <1>1. o.amount \in Nat /\ o.commission \in Nat
    BY DEF OrderType
  <1>2. Weighed({}) /\ Weighed({o})
    BY <1>1, FS_EmptySet, FS_Singleton DEF Weighed
  <1>3. HeldBy({}) = 0 /\ {o} \ {o} = {}
    BY <1>2, HeldByUnfolds
  <1>4. HeldBy({o}) = HeldBy({o} \ {o}) + Weight(o)
    BY <1>2, HeldByWithout
  <1>5. Weight(o) \in Nat
    BY <1>1 DEF Weight
  <1>6. QED
    BY <1>3, <1>4, <1>5

-----------------------------------------------------------------------------
(* Both sides. *)

\* The books bs and the queues qs hold what the ledger l has, of each token, and no id
\* after "last".
Accounted(bs, qs, l, last) ==
    /\ bs \in [Sides -> Lists] /\ qs \in [Sides -> Lists]
    /\ l \in Ledgers
    /\ last \in 0 .. MaxOrders
    /\ \A side \in Sides : Solvent(bs[side], qs[side], Net(l, side))
    /\ \A side \in Sides : \A o \in OrdersOf(bs[side], qs[side]) : o.id <= last

\* Only the lists of one side and what the ledger has of its token change.
LEMMA OneSideChanges ==
    ASSUME NEW bs, NEW qs, NEW l, NEW last, Accounted(bs, qs, l, last),
           NEW side \in Sides, NEW cs \in [Sides -> Lists], NEW ds \in [Sides -> Lists],
           NEW k \in Ledgers, NEW newest \in last .. MaxOrders,
           cs[Other(side)] = bs[Other(side)], ds[Other(side)] = qs[Other(side)],
           Net(k, Other(side)) = Net(l, Other(side)),
           Solvent(cs[side], ds[side], Net(k, side)),
           \A o \in OrdersOf(cs[side], ds[side]) : o.id <= newest
    PROVE  Accounted(cs, ds, k, newest)
  <1>1. last \in 0 .. MaxOrders /\ MaxOrders \in Nat
    BY ExchangeAssumption DEF Accounted
  <1>2. newest \in 0 .. MaxOrders
    BY <1>1
  <1>3. \A s \in Sides : s = side \/ s = Other(side)
    BY OtherSide
  <1>4. Solvent(bs[Other(side)], qs[Other(side)], Net(l, Other(side)))
    BY OtherSide DEF Accounted
  <1>5. \A o \in OrdersOf(bs[Other(side)], qs[Other(side)]) : o.id <= newest
    <2> SUFFICES ASSUME NEW o \in OrdersOf(bs[Other(side)], qs[Other(side)])
                 PROVE  o.id <= newest
      OBVIOUS
    <2>1. o.id <= last
      BY OtherSide DEF Accounted
    <2>2. o \in OrderType
      BY <1>4, TidyIsWeighed DEF Solvent
    <2>3. o.id \in Nat
      BY <1>1, <2>2 DEF OrderType, Ids
    <2>4. QED
      BY <1>1, <2>1, <2>3
  <1>6. QED
    BY <1>2, <1>3, <1>4, <1>5 DEF Accounted

\* In the lists bs, the one of a side and a type becomes s.
Replaces(bs, cs, side, t, s) == cs = [bs EXCEPT ![side][t] = s]

\* What an assignment to one list of one side changes.
LEMMA ListChanges ==
    ASSUME NEW bs \in [Sides -> Lists], NEW side \in Sides, NEW t \in OrderTypes, NEW s \in Seq(OrderType),
           NEW cs, Replaces(bs, cs, side, t, s)
    PROVE  /\ cs \in [Sides -> Lists]
           /\ Changes(bs[side], cs[side], t, s)
           /\ cs[Other(side)] = bs[Other(side)]
  <1> DEFINE c == [bs[side] EXCEPT ![t] = s]
  <1>1. bs[side] \in Lists
    OBVIOUS
  <1>2. Changes(bs[side], c, t, s)
    BY <1>1, ExceptChanges
  <1>3. cs = [bs EXCEPT ![side] = c]
    BY DEF Replaces
  <1> HIDE DEF c
  <1>4. c \in Lists
    BY <1>2 DEF Changes
  <1>5. QED
    BY <1>2, <1>3, <1>4, OtherSide

\* A new order comes to a book.
LEMMA AccountedInsert ==
    ASSUME NEW bs, NEW qs, NEW l, NEW last, Accounted(bs, qs, l, last),
           NEW side \in Sides, NEW t \in OrderTypes, NEW o \in OrderType, o.orderType = t, o.id = last + 1,
           NEW s \in Seq(OrderType), Distinct(s), In(s) = In(bs[side][t]) \union {o},
           NEW cs, Replaces(bs, cs, side, t, s),
           NEW k \in Ledgers, Net(k, side) = Net(l, side) + Weight(o),
           Net(k, Other(side)) = Net(l, Other(side))
    PROVE  Accounted(cs, qs, k, last + 1)
  <1>1. /\ last \in 0 .. MaxOrders /\ MaxOrders \in Nat /\ o.id \in 1 .. MaxOrders
    BY ExchangeAssumption DEF Accounted, OrderType, Ids
  <1>2. last + 1 \in last .. MaxOrders /\ last \in Nat
    BY <1>1
  <1>3. /\ bs \in [Sides -> Lists] /\ qs \in [Sides -> Lists]
        /\ Solvent(bs[side], qs[side], Net(l, side))
        /\ \A r \in OrdersOf(bs[side], qs[side]) : r.id <= last
    BY DEF Accounted
  <1>4. /\ \A r \in OrdersOf(bs[side], qs[side]) : r.id # o.id
        /\ \A r \in OrdersOf(bs[side], qs[side]) : r.id <= last + 1
    <2> SUFFICES ASSUME NEW r \in OrdersOf(bs[side], qs[side])
                 PROVE  r.id # o.id /\ r.id <= last + 1
      OBVIOUS
    <2>1. r.id <= last
      BY <1>3
    <2>2. r \in OrderType
      BY <1>3, TidyIsWeighed DEF Solvent
    <2>3. r.id \in Nat
      BY <1>1, <2>2 DEF OrderType, Ids
    <2>4. QED
      BY <1>2, <2>1, <2>3
  <1>5. /\ cs \in [Sides -> Lists]
        /\ Changes(bs[side], cs[side], t, s)
        /\ cs[Other(side)] = bs[Other(side)]
    BY <1>3, ListChanges
  <1>6. Solvent(cs[side], qs[side], Net(l, side) + Weight(o))
        /\ OrdersOf(cs[side], qs[side]) = OrdersOf(bs[side], qs[side]) \union {o}
    BY <1>3, <1>4, <1>5, SolventMore
  <1>7. \A r \in OrdersOf(cs[side], qs[side]) : r.id <= last + 1
    BY <1>1, <1>2, <1>4, <1>6
  <1>8. QED
    BY <1>2, <1>3, <1>5, <1>6, <1>7, OneSideChanges

\* What is said of a book is true of a queue.
LEMMA AccountedSymmetric ==
    ASSUME NEW bs, NEW qs, NEW l, NEW last, Accounted(bs, qs, l, last)
    PROVE  Accounted(qs, bs, l, last)
  <1>1. \A side \in Sides : Solvent(qs[side], bs[side], Net(l, side))
    BY SolventIsSymmetric DEF Accounted
  <1>2. \A side \in Sides : OrdersOf(qs[side], bs[side]) = OrdersOf(bs[side], qs[side])
    BY TidyIsSymmetric DEF Accounted, Solvent
  <1>3. QED
    BY <1>1, <1>2 DEF Accounted

\* Orders leave a book.
LEMMA AccountedRemove ==
    ASSUME NEW bs, NEW qs, NEW l, NEW last, Accounted(bs, qs, l, last),
           NEW side \in Sides, NEW t \in OrderTypes, NEW D, D \subseteq In(bs[side][t]),
           NEW s \in Seq(OrderType), Distinct(s), In(s) = In(bs[side][t]) \ D,
           NEW cs, Replaces(bs, cs, side, t, s),
           NEW k, Pays(l, k, side, HeldBy(D))
    PROVE  Accounted(cs, qs, k, last)
  <1>1. /\ bs \in [Sides -> Lists] /\ qs \in [Sides -> Lists]
        /\ Solvent(bs[side], qs[side], Net(l, side))
        /\ \A r \in OrdersOf(bs[side], qs[side]) : r.id <= last
        /\ last \in 0 .. MaxOrders
    BY DEF Accounted
  <1>2. /\ cs \in [Sides -> Lists]
        /\ Changes(bs[side], cs[side], t, s)
        /\ cs[Other(side)] = bs[Other(side)]
    BY <1>1, ListChanges
  <1>3. Solvent(cs[side], qs[side], Net(l, side) - HeldBy(D))
    BY <1>1, <1>2, SolventLess
  <1>4. OrdersOf(cs[side], qs[side]) = OrdersOf(bs[side], qs[side]) \ D
    BY <1>1, <1>2, RemovedOrders DEF Solvent
  <1>5. k \in Ledgers /\ Net(k, side) = Net(l, side) - HeldBy(D) /\ Net(k, Other(side)) = Net(l, Other(side))
    BY DEF Pays
  <1>6. last \in last .. MaxOrders
    BY <1>1, ExchangeAssumption
  <1>7. QED
    BY <1>1, <1>2, <1>3, <1>4, <1>5, <1>6, OneSideChanges

\* The orders of a list are weighed and tidy.
LEMMA ListOf ==
    ASSUME NEW bs, NEW qs, NEW l, NEW last, Accounted(bs, qs, l, last),
           NEW side \in Sides, NEW t \in OrderTypes
    PROVE  /\ bs[side][t] \in Seq(OrderType) /\ Distinct(bs[side][t])
           /\ In(bs[side][t]) \subseteq OrderType /\ Weighed(In(bs[side][t]))
           /\ \A o \in In(bs[side][t]) : o.orderType = t
  <1>1. Tidy(bs[side], qs[side])
    BY DEF Accounted, Solvent
  <1>2. bs[side][t] \in Seq(OrderType) /\ Distinct(bs[side][t])
        /\ \A o \in In(bs[side][t]) : o.orderType = t
    BY <1>1 DEF Tidy, Lists
  <1>3. In(bs[side][t]) \subseteq OrdersOf(bs[side], qs[side])
    BY DEF OrdersOf
  <1>4. QED
    BY <1>1, <1>2, <1>3, TidyIsWeighed, WeighedPart

-----------------------------------------------------------------------------
(* Insertions, cancelations, expirations and withdrawals. *)

Accounts == Accounted(books, queues, Ledger, lastOrderId)

\* A transaction that sets the ledger sets all of it.
LEMMA SetLedgerIs ==
    ASSUME NEW l \in Ledgers, SetLedger(l)
    PROVE  Ledger' = l
  BY DEF SetLedger, Ledger, Ledgers

\* A transaction that pays nobody keeps the ledger.
LEMMA SameLedger ==
    ASSUME UNCHANGED ledgerVars
    PROVE  Ledger' = Ledger
  BY DEF ledgerVars, Ledger

\* At the start nothing is held and nothing is owned.
LEMMA AccountsInit ==
    ASSUME Init
    PROVE  Accounts
  <1>1. books = Empty /\ queues = Empty /\ lastOrderId = 0 /\ balance = Zero /\ charged = Zero /\ stranded = Zero
    BY DEF Init
  <1>2. Ledger \in Ledgers /\ \A side \in Sides : Net(Ledger, side) = 0
    BY <1>1 DEF Ledger, Ledgers, Zero, Net
  <1>3. <<>> \in Seq(OrderType) /\ In(<<>>) = {} /\ Distinct(<<>>)
    BY DEF In, Distinct
  <1> DEFINE none == [t \in OrderTypes |-> <<>>]
  <1>4. none \in Lists /\ \A t \in OrderTypes : none[t] = <<>>
    BY <1>3 DEF Lists
  <1> HIDE DEF none
  <1>5. OrdersOf(none, none) = {}
    BY <1>3, <1>4 DEF OrdersOf
  <1>6. Tidy(none, none)
    BY <1>3, <1>4, <1>5 DEF Tidy
  <1>7. Solvent(none, none, 0)
    <2>1. Weighed({})
      BY FS_EmptySet DEF Weighed
    <2>2. QED
      BY <1>5, <1>6, <2>1, HeldByUnfolds DEF Solvent
  <1>8. Empty \in [Sides -> Lists] /\ \A side \in Sides : Empty[side] = none
    BY <1>4 DEF Empty, none
  <1>9. 0 \in 0 .. MaxOrders
    BY ExchangeAssumption
  <1>10. QED
    BY <1>1, <1>2, <1>5, <1>7, <1>8, <1>9 DEF Accounts, Accounted

\* An order inserted in a book or in a queue holds the whole amount that was sent.
LEMMA NewOrderIs ==
    ASSUME NEW side \in Sides, NEW t \in OrderTypes, NEW amount \in Amounts, NEW lifespan \in Lifespans,
           NEW price \in PricesOf(t), MayInsert(t, amount), Accounts, tick \in Nat
    PROVE  /\ NewOrder(t, amount, price, lifespan) \in OrderType
           /\ NewOrder(t, amount, price, lifespan).orderType = t
           /\ NewOrder(t, amount, price, lifespan).id = lastOrderId + 1
           /\ Weight(NewOrder(t, amount, price, lifespan)) = amount
           /\ lastOrderId' = lastOrderId + 1
  <1> DEFINE fee == calculateInitialFee(amount, CommissionRate, MinimumFixed)
  <1>1. /\ amount \in Nat /\ lifespan \in Nat /\ price \in Nat /\ MinimumFixed \in Nat
        /\ CommissionRate \in Nat /\ MaxOrders \in Nat /\ RatePrecision \in Nat \ {0}
    BY ExchangeAssumption, SettlementAssumption DEF PricesOf
  <1>2. fee \in Nat
    <2>1. amount * CommissionRate \in Nat
      BY <1>1, ProductIsNat
    <2>2. (amount * CommissionRate) \div RatePrecision \in Nat
      BY <1>1, <2>1, DivBounds
    <2>3. QED
      BY <1>1, <2>2 DEF calculateInitialFee
  <1>3. /\ fee <= amount /\ lastOrderId < MaxOrders /\ lastOrderId' = lastOrderId + 1
    BY DEF MayInsert
  <1>4. lastOrderId \in Nat
    BY <1>1 DEF Accounts, Accounted
  <1>5. NewOrder(t, amount, price, lifespan) =
            [id |-> lastOrderId', orderType |-> t, amount |-> amount - fee, commission |-> fee, price |-> price,
             expiresInTick |-> tick + lifespan]
    BY DEF NewOrder
  <1> HIDE DEF fee
  <1>6. amount - fee \in Nat /\ lastOrderId' \in Ids /\ tick + lifespan \in Nat /\ (amount - fee) + fee = amount
    BY <1>1, <1>2, <1>3, <1>4 DEF Ids
  <1>7. QED
    BY <1>1, <1>2, <1>3, <1>5, <1>6 DEF OrderType, Weight

\* The tokens sent with an order.
LEMMA ReceivedTokens ==
    ASSUME Ledger \in Ledgers, NEW side \in Sides, NEW amount \in Nat,
           balance' = [balance EXCEPT ![side] = @ + amount], UNCHANGED <<charged, stranded>>
    PROVE  /\ Ledger' \in Ledgers
           /\ Net(Ledger', side) = Net(Ledger, side) + amount
           /\ Net(Ledger', Other(side)) = Net(Ledger, Other(side))
  <1>1. balance \in [Sides -> Nat] /\ charged \in [Sides -> Nat] /\ stranded \in [Sides -> Nat]
    BY DEF Ledger, Ledgers
  <1>2. /\ balance' \in [Sides -> Nat] /\ charged' = charged /\ stranded' = stranded
        /\ balance'[side] = balance[side] + amount
        /\ balance'[Other(side)] = balance[Other(side)]
    BY <1>1, OtherSide
  <1>3. Ledger' \in Ledgers
    BY <1>1, <1>2 DEF Ledger, Ledgers
  <1>4. /\ Ledger.balance = balance /\ Ledger.charged = charged /\ Ledger.stranded = stranded
        /\ Ledger'.balance = balance' /\ Ledger'.charged = charged /\ Ledger'.stranded = stranded
    BY <1>2 DEF Ledger
  <1>5. balance[side] \in Nat /\ charged[side] \in Nat /\ stranded[side] \in Nat
    BY <1>1
  <1>6. QED
    BY <1>2, <1>3, <1>4, <1>5 DEF Net

\* A new id is in no list.
LEMMA NewIdIsNew ==
    ASSUME NEW bs, NEW qs, NEW l, NEW last, Accounted(bs, qs, l, last),
           NEW side \in Sides, NEW t \in OrderTypes, NEW o, o.id = last + 1
    PROVE  o \notin In(bs[side][t])
  <1>1. In(bs[side][t]) \subseteq OrdersOf(bs[side], qs[side])
    BY DEF OrdersOf
  <1>2. last \in Nat /\ \A r \in OrdersOf(bs[side], qs[side]) : r.id <= last
    BY ExchangeAssumption DEF Accounted
  <1>3. QED
    BY <1>1, <1>2

\* An insertion adds to the book what the exchange receives.
LEMMA AccountsInsertOrder ==
    ASSUME NEW side \in Sides, NEW t \in OrderTypes, NEW amount \in Amounts, NEW lifespan \in Lifespans,
           NEW price \in PricesOf(t), InsertOrder(side, t, amount, price, lifespan), Accounts, tick \in Nat
    PROVE  Accounts'
  <1> DEFINE o == NewOrder(t, amount, price, lifespan)
             s == Place(Descending(side), books[side][t], o)
  <1>1. /\ MayInsert(t, amount)
        /\ books' = [books EXCEPT ![side][t] = s]
        /\ balance' = [balance EXCEPT ![side] = @ + amount]
        /\ UNCHANGED <<charged, stranded>>
        /\ queues' = queues
    BY DEF InsertOrder
  <1>2. o \in OrderType /\ o.orderType = t /\ o.id = lastOrderId + 1 /\ Weight(o) = amount
        /\ lastOrderId' = lastOrderId + 1
    BY <1>1, NewOrderIs
  <1> HIDE DEF o
  <1>3. Accounted(books, queues, Ledger, lastOrderId)
    BY DEF Accounts
  <1>4. Ledger \in Ledgers /\ amount \in Nat
    BY <1>3, ExchangeAssumption DEF Accounted
  <1>5. /\ Ledger' \in Ledgers
        /\ Net(Ledger', side) = Net(Ledger, side) + Weight(o)
        /\ Net(Ledger', Other(side)) = Net(Ledger, Other(side))
    BY <1>1, <1>2, <1>4, ReceivedTokens
  <1>6. books[side][t] \in Seq(OrderType) /\ Distinct(books[side][t]) /\ o \notin In(books[side][t])
    BY <1>2, <1>3, ListOf, NewIdIsNew
  <1>7. s \in Seq(OrderType) /\ Distinct(s) /\ In(s) = In(books[side][t]) \union {o}
    BY <1>2, <1>6, PlaceList
  <1> HIDE DEF s
  <1>8. Replaces(books, books', side, t, s)
    BY <1>1 DEF Replaces
  <1>9. Accounted(books', queues, Ledger', lastOrderId + 1)
    BY <1>2, <1>3, <1>5, <1>7, <1>8, AccountedInsert
  <1>10. QED
    BY <1>1, <1>2, <1>9 DEF Accounts

\* An insertion during a tick adds to the queue what the exchange receives.
LEMMA AccountsInsertOrderAsPending ==
    ASSUME NEW side \in Sides, NEW t \in OrderTypes, NEW amount \in Amounts, NEW lifespan \in Lifespans,
           NEW price \in PricesOf(t), InsertOrderAsPending(side, t, amount, price, lifespan), Accounts, tick \in Nat
    PROVE  Accounts'
  <1> DEFINE o == NewOrder(t, amount, price, lifespan)
             s == Append(queues[side][t], o)
  <1>1. /\ MayInsert(t, amount)
        /\ queues' = [queues EXCEPT ![side][t] = s]
        /\ balance' = [balance EXCEPT ![side] = @ + amount]
        /\ UNCHANGED <<charged, stranded>>
        /\ books' = books
    BY DEF InsertOrderAsPending
  <1>2. o \in OrderType /\ o.orderType = t /\ o.id = lastOrderId + 1 /\ Weight(o) = amount
        /\ lastOrderId' = lastOrderId + 1
    BY <1>1, NewOrderIs
  <1> HIDE DEF o
  <1>3. Accounted(queues, books, Ledger, lastOrderId)
    BY AccountedSymmetric DEF Accounts
  <1>4. Ledger \in Ledgers /\ amount \in Nat
    BY <1>3, ExchangeAssumption DEF Accounted
  <1>5. /\ Ledger' \in Ledgers
        /\ Net(Ledger', side) = Net(Ledger, side) + Weight(o)
        /\ Net(Ledger', Other(side)) = Net(Ledger, Other(side))
    BY <1>1, <1>2, <1>4, ReceivedTokens
  <1>6. queues[side][t] \in Seq(OrderType) /\ Distinct(queues[side][t]) /\ o \notin In(queues[side][t])
    BY <1>2, <1>3, ListOf, NewIdIsNew
  <1>7. s \in Seq(OrderType) /\ Distinct(s) /\ In(s) = In(queues[side][t]) \union {o}
    BY <1>2, <1>6, AppendList
  <1> HIDE DEF s
  <1>8. Replaces(queues, queues', side, t, s)
    BY <1>1 DEF Replaces
  <1>9. Accounted(queues', books, Ledger', lastOrderId + 1)
    BY <1>2, <1>3, <1>5, <1>7, <1>8, AccountedInsert
  <1>10. Accounted(books, queues', Ledger', lastOrderId + 1)
    BY <1>9, AccountedSymmetric
  <1>11. QED
    BY <1>1, <1>2, <1>10 DEF Accounts

\* A cancelation pays what the order held.
LEMMA AccountsCancelOrder ==
    ASSUME NEW side \in Sides, NEW t \in OrderTypes, NEW order \in In(books[side][t]),
           CancelOrder(side, t, order), Accounts
    PROVE  Accounts'
  <1> DEFINE s == Without(books[side][t], {order})
             k == refundOrder(Ledger, side, order, CancelationRate)
  <1>1. /\ books' = [books EXCEPT ![side][t] = s] /\ SetLedger(k)
        /\ queues' = queues /\ lastOrderId' = lastOrderId
    BY DEF CancelOrder
  <1>2. Accounted(books, queues, Ledger, lastOrderId)
    BY DEF Accounts
  <1>3. /\ books[side][t] \in Seq(OrderType) /\ Distinct(books[side][t]) /\ order \in OrderType
    BY <1>2, ListOf
  <1>4. s \in Seq(OrderType) /\ Distinct(s) /\ In(s) = In(books[side][t]) \ {order}
    BY <1>3, WithoutList
  <1>5. Pays(Ledger, k, side, HeldBy({order}))
    <2>1. Ledger \in Ledgers /\ order.amount \in Nat /\ order.commission \in Nat /\ CancelationRate \in 0 .. RatePrecision
      BY <1>2, <1>3, ExchangeAssumption DEF Accounted, OrderType
    <2>2. Pays(Ledger, k, side, Weight(order))
      BY <2>1, RefundPays
    <2>3. QED
      BY <1>3, <2>2, HeldByOne
  <1> HIDE DEF s, k
  <1>6. Replaces(books, books', side, t, s)
    BY <1>1 DEF Replaces
  <1>7. Accounted(books', queues, k, lastOrderId)
    <2>1. {order} \subseteq In(books[side][t])
      OBVIOUS
    <2>2. QED
      BY <1>2, <1>4, <1>5, <1>6, <2>1, AccountedRemove
  <1>8. Ledger' = k
    BY <1>1, <1>5, SetLedgerIs DEF Pays
  <1>9. QED
    BY <1>1, <1>7, <1>8 DEF Accounts

\* processExpired pays what the expired orders held.
LEMMA AccountsProcessExpired ==
    ASSUME NEW side \in Sides, NEW t \in OrderTypes,
           NEW from \in DOMAIN books[side][t], NEW to \in DOMAIN books[side][t],
           ProcessExpired(side, t, from, to), Accounts
    PROVE  Accounts'
  <1> DEFINE list == books[side][t]
             expired == {order \in In(SubSeq(list, from, to)) : isExpired(order)}
             s == Without(list, expired)
             k == RefundAll(Ledger, side, expired)
  <1>1. /\ books' = [books EXCEPT ![side][t] = s] /\ SetLedger(k)
        /\ queues' = queues /\ lastOrderId' = lastOrderId
    BY DEF ProcessExpired
  <1>2. Accounted(books, queues, Ledger, lastOrderId)
    BY DEF Accounts
  <1>3. /\ list \in Seq(OrderType) /\ Distinct(list) /\ Weighed(In(list))
    BY <1>2, ListOf
  <1>4. expired \subseteq In(list)
    <2>1. DOMAIN list = 1 .. Len(list) /\ Len(list) \in Nat
      BY <1>3, LenProperties
    <2>2. \A i \in from .. to : list[i] \in OrderType /\ i \in DOMAIN list
      BY <1>3, <2>1
    <2> DEFINE part == SubSeq(list, from, to)
    <2>3. DOMAIN part = 1 .. Len(part)
          /\ \A i \in DOMAIN part : part[i] = list[from + i - 1] /\ from + i - 1 \in DOMAIN list
      <3>1. from \in Int /\ to \in Int
        BY <2>1
      <3>2. /\ part \in Seq(OrderType)
            /\ Len(part) = IF from <= to THEN to - from + 1 ELSE 0
            /\ \A i \in 1 .. (to - from + 1) : part[i] = list[from + i - 1]
        BY <2>2, <3>1, SubSeqProperties
      <3>3. DOMAIN part = 1 .. Len(part)
        BY <3>2, LenProperties
      <3> HIDE DEF part
      <3>4. \A i \in 1 .. Len(part) : i \in 1 .. (to - from + 1) /\ from + i - 1 \in from .. to
        BY <3>1, <3>2
      <3>5. QED
        BY <2>2, <3>2, <3>3, <3>4
    <2> HIDE DEF part, list
    <2>4. In(part) \subseteq In(list)
      BY <2>3 DEF In
    <2>5. QED
      BY <2>4 DEF part
  <1> HIDE DEF expired
  <1>5. s \in Seq(OrderType) /\ Distinct(s) /\ In(s) = In(list) \ expired
    BY <1>3, WithoutList
  <1>6. Pays(Ledger, k, side, HeldBy(expired))
    <2>1. Ledger \in Ledgers /\ ExpirationRate \in 0 .. RatePrecision /\ Weighed(expired)
      BY <1>2, <1>3, <1>4, WeighedPart, ExchangeAssumption DEF Accounted
    <2>2. QED
      BY <2>1, RefundAllPays
  <1> HIDE DEF s, k
  <1>7. Replaces(books, books', side, t, s)
    BY <1>1 DEF Replaces
  <1>8. Accounted(books', queues, k, lastOrderId)
    BY <1>2, <1>4, <1>5, <1>6, <1>7, AccountedRemove
  <1>9. Ledger' = k
    BY <1>1, <1>6, SetLedgerIs DEF Pays
  <1>10. QED
    BY <1>1, <1>8, <1>9 DEF Accounts

\* The ledger changes and leaves the same for the orders.
LEMMA AccountedLedger ==
    ASSUME NEW bs, NEW qs, NEW l, NEW last, Accounted(bs, qs, l, last), NEW k \in Ledgers,
           \A side \in Sides : Net(k, side) = Net(l, side)
    PROVE  Accounted(bs, qs, k, last)
  BY DEF Accounted

\* A withdrawal pays commissions, and nothing that is held for orders.
LEMMA AccountsWithdrawCommissions ==
    ASSUME NEW token \in Sides, WithdrawCommissions(token), Accounts
    PROVE  Accounts'
  <1>1. Accounted(books, queues, Ledger, lastOrderId) /\ Ledger \in Ledgers
    BY DEF Accounts, Accounted
  <1>2. balance \in [Sides -> Nat] /\ charged \in [Sides -> Nat] /\ stranded \in [Sides -> Nat]
    BY <1>1 DEF Ledger, Ledgers
  <1>3. /\ balance[token] >= charged[token]
        /\ balance' = [balance EXCEPT ![token] = @ - charged[token]]
        /\ charged' = [charged EXCEPT ![token] = 0]
        /\ stranded' = stranded /\ books' = books /\ queues' = queues /\ lastOrderId' = lastOrderId
    BY DEF WithdrawCommissions
  <1>4. balance[token] - charged[token] \in Nat
    BY <1>2, <1>3
  <1>5. /\ balance' \in [Sides -> Nat] /\ charged' \in [Sides -> Nat]
        /\ balance'[token] = balance[token] - charged[token] /\ charged'[token] = 0
        /\ balance'[Other(token)] = balance[Other(token)] /\ charged'[Other(token)] = charged[Other(token)]
    BY <1>2, <1>3, <1>4, OtherSide
  <1>6. Ledger' \in Ledgers
    BY <1>2, <1>3, <1>5 DEF Ledger, Ledgers
  <1>7. /\ Ledger.balance = balance /\ Ledger.charged = charged /\ Ledger.stranded = stranded
        /\ Ledger'.balance = balance' /\ Ledger'.charged = charged' /\ Ledger'.stranded = stranded
    BY <1>3 DEF Ledger
  <1>8. \A side \in Sides : Net(Ledger', side) = Net(Ledger, side)
    <2>1. Net(Ledger', token) = Net(Ledger, token)
      <3>1. balance[token] \in Nat /\ charged[token] \in Nat /\ stranded[token] \in Nat
        BY <1>2
      <3>2. QED
        BY <1>5, <1>7, <3>1 DEF Net
    <2>2. Net(Ledger', Other(token)) = Net(Ledger, Other(token))
      BY <1>5, <1>7 DEF Net
    <2>3. QED
      BY <2>1, <2>2, OtherSide
  <1>9. Accounted(books, queues, Ledger', lastOrderId)
    BY <1>1, <1>6, <1>8, AccountedLedger
  <1>10. QED
    BY <1>3, <1>9 DEF Accounts

\* Steps that touch no list and no token.
LEMMA AccountsUnchanged ==
    ASSUME Accounts, UNCHANGED <<books, queues, ledgerVars, lastOrderId>>
    PROVE  Accounts'
  BY SameLedger DEF Accounts

-----------------------------------------------------------------------------
(* Dropping the expired orders at the top of a side. *)

\* The lists of one side of a book, each with orders of its type.
SideBooks == {b \in Lists : \A t \in OrderTypes : \A o \in In(b[t]) : o.orderType = t}

\* The first order of a list.
LEMMA FirstOfIs ==
    ASSUME NEW s \in Seq(OrderType)
    PROVE  /\ s = <<>> => FirstOf(s) = NoOrder
           /\ s # <<>> => FirstOf(s) = Head(s) /\ Head(s) = s[1] /\ s[1] \in In(s) /\ s[1] \in OrderType /\ s[1].id # 0
  <1>1. CASE s = <<>>
    BY <1>1 DEF FirstOf
  <1>2. CASE s # <<>>
    <2>1. Len(s) \in Nat \ {0} /\ DOMAIN s = 1 .. Len(s) /\ s \in [1 .. Len(s) -> OrderType]
      BY <1>2, EmptySeq, LenProperties
    <2>2. 1 \in DOMAIN s /\ s[1] \in OrderType /\ Head(s) = s[1]
      BY <2>1
    <2>3. s[1] \in In(s) /\ s[1].id # 0
      BY <2>2 DEF In, OrderType, Ids
    <2>4. QED
      BY <1>2, <2>2, <2>3 DEF FirstOf
  <1>3. QED
    BY <1>1, <1>2

\* The most competitive order is one of the two.
LEMMA BestOfTwo ==
    ASSUME NEW marketPrice, NEW side, NEW limit, NEW market
    PROVE  mostCompetitiveOrder(marketPrice, side, limit, market) \in {limit, market}
  BY DEF mostCompetitiveOrder

\* The top of a side, when there is one, is the first order of the list of its type.
LEMMA TopIs ==
    ASSUME NEW b \in SideBooks, NEW marketPrice, NEW side
    PROVE  LET top == TopOf(marketPrice, side, b)
           IN  /\ top.id = 0 => top = NoOrder
               /\ top.id # 0 => /\ top \in OrderType /\ top.orderType \in OrderTypes
                                /\ b[top.orderType] # <<>> /\ top = Head(b[top.orderType])
                                /\ top \in In(b[top.orderType])
  <1> DEFINE top == TopOf(marketPrice, side, b)
  <1>1. top \in {FirstOf(b["LIMIT_ORDER"]), FirstOf(b["MARKET_ORDER"])}
    BY BestOfTwo DEF TopOf
  <1> HIDE DEF top
  <1>2. PICK t \in OrderTypes : top = FirstOf(b[t])
    BY <1>1 DEF OrderTypes
  <1>3. b[t] \in Seq(OrderType) /\ \A o \in In(b[t]) : o.orderType = t
    BY DEF SideBooks, Lists
  <1>4. CASE b[t] = <<>>
    <2>1. top = NoOrder
      BY <1>2, <1>3, <1>4, FirstOfIs
    <2>2. NoOrder.id = 0
      BY DEF NoOrder
    <2>3. QED
      BY <2>1, <2>2 DEF top
  <1>5. CASE b[t] # <<>>
    BY <1>2, <1>3, <1>5, FirstOfIs DEF top
  <1>6. QED
    BY <1>4, <1>5

\* The top leaves the list of its type, and no other changes.
LEMMA PoppedIs ==
    ASSUME NEW b \in SideBooks, NEW marketPrice, NEW side, TopOf(marketPrice, side, b).id # 0
    PROVE  LET t == TopOf(marketPrice, side, b).orderType
           IN  /\ Popped(marketPrice, side, b) \in SideBooks
               /\ Changes(b, Popped(marketPrice, side, b), t, Tail(b[t]))
               /\ Tail(b[t]) \in Seq(OrderType)
  <1> DEFINE top == TopOf(marketPrice, side, b)
             t == top.orderType
             rest == Tail(b[t])
  <1>1. top.id # 0 => t \in OrderTypes /\ b[t] # <<>>
    BY TopIs
  <1>2. Popped(marketPrice, side, b) = [b EXCEPT ![t] = rest]
    BY DEF Popped
  <1> HIDE DEF top
  <1>3. t \in OrderTypes /\ b[t] # <<>>
    BY <1>1 DEF top
  <1> HIDE DEF t
  <1>4. b \in Lists /\ b[t] \in Seq(OrderType) /\ \A u \in OrderTypes : \A o \in In(b[u]) : o.orderType = u
    BY <1>3 DEF SideBooks, Lists
  <1>5. rest \in Seq(OrderType) /\ In(rest) \subseteq In(b[t])
    <2>1. Len(b[t]) \in Nat \ {0} /\ DOMAIN b[t] = 1 .. Len(b[t])
      BY <1>3, <1>4, EmptySeq, LenProperties
    <2>2. /\ rest \in Seq(OrderType) /\ Len(rest) = Len(b[t]) - 1
          /\ \A i \in 1 .. Len(b[t]) - 1 : rest[i] = b[t][i + 1]
      BY <1>3, <1>4, HeadTailProperties
    <2>3. DOMAIN rest = 1 .. Len(b[t]) - 1
      BY <2>2, LenProperties
    <2> HIDE DEF rest
    <2>4. \A i \in DOMAIN rest : i + 1 \in DOMAIN b[t] /\ rest[i] = b[t][i + 1]
      BY <2>1, <2>2, <2>3
    <2>5. QED
      BY <2>2, <2>4 DEF In
  <1> HIDE DEF rest
  <1>6. Changes(b, [b EXCEPT ![t] = rest], t, rest)
    BY <1>3, <1>4, <1>5, ExceptChanges
  <1> DEFINE c == [b EXCEPT ![t] = rest]
  <1> HIDE DEF c
  <1>7. c \in SideBooks
    <2>1. c \in Lists /\ c[t] = rest /\ \A u \in OrderTypes : u # t => c[u] = b[u]
      BY <1>6 DEF Changes, c
    <2>2. ASSUME NEW u \in OrderTypes, NEW o \in In(c[u])
          PROVE  o.orderType = u
      <3>1. CASE u = t
        BY <1>4, <1>5, <2>1, <2>2, <3>1
      <3>2. CASE u # t
        BY <1>4, <2>1, <2>2, <3>2
      <3>3. QED
        BY <3>1, <3>2
    <2>3. QED
      BY <2>1, <2>2 DEF SideBooks
  <1>8. QED
    BY <1>2, <1>5, <1>6, <1>7 DEF c, t, top, rest

\* A tidy side has orders of the right type in each list of its book.
LEMMA TidyIsSideBook ==
    ASSUME NEW b, NEW q, Tidy(b, q)
    PROVE  b \in SideBooks
  BY DEF Tidy, SideBooks

\* One turn of the loop that drops the expired orders.
DropTop(side, x) ==
    LET top == TopOf(page.marketPrice, side, x.book)
    IN  IF top.id = 0 \/ ~isExpired(top)
        THEN x
        ELSE [book   |-> Popped(page.marketPrice, side, x.book),
              ledger |-> refundOrder(x.ledger, side, top, ExpirationRate)]

\* f[k] is what k turns of the loop make of x.
Drops(f, side, x) ==
    \A k \in 0 .. MaxOrders : f[k] = IF k = 0 THEN x ELSE DropTop(side, f[k - 1])

Droppables == [book : SideBooks, ledger : Ledgers]

\* A turn of the loop that drops expired orders leaves a book and a ledger.
LEMMA DropTopIs ==
    ASSUME NEW side \in Sides, NEW x \in Droppables
    PROVE  DropTop(side, x) \in Droppables
  <1> DEFINE top == TopOf(page.marketPrice, side, x.book)
             b == Popped(page.marketPrice, side, x.book)
             l == refundOrder(x.ledger, side, top, ExpirationRate)
  <1>1. DropTop(side, x) = IF top.id = 0 \/ ~isExpired(top) THEN x ELSE [book |-> b, ledger |-> l]
    BY DEF DropTop
  <1>2. x.book \in SideBooks /\ x.ledger \in Ledgers
    BY DEF Droppables
  <1>3. CASE top.id # 0
    <2>1. b \in SideBooks
      BY <1>2, <1>3, PoppedIs
    <2>2. top \in OrderType
      BY <1>2, <1>3, TopIs
    <2>3. top.amount \in Nat /\ top.commission \in Nat /\ ExpirationRate \in 0 .. RatePrecision
      BY <2>2, ExchangeAssumption DEF OrderType
    <2>4. l \in Ledgers
      <3> HIDE DEF top
      <3>1. QED
        BY <1>2, <2>3, RefundPays DEF Pays
    <2> HIDE DEF top, b, l
    <2>5. QED
      BY <1>1, <2>1, <2>4 DEF Droppables
  <1>4. CASE top.id = 0
    BY <1>1, <1>4
  <1>5. QED
    BY <1>3, <1>4

\* DropExpired is what MaxOrders turns of its loop make.
LEMMA DropExpiredIs ==
    ASSUME NEW side \in Sides, NEW b \in SideBooks, NEW l \in Ledgers
    PROVE  \E f \in [0 .. MaxOrders -> Droppables] :
               /\ Drops(f, side, [book |-> b, ledger |-> l])
               /\ DropExpired(side, b, l) = f[MaxOrders]
  <1> DEFINE x == [book |-> b, ledger |-> l]
             Eq(f) == f = [k \in 0 .. MaxOrders |-> IF k = 0 THEN x ELSE DropTop(side, f[k - 1])]
             drop == CHOOSE f : Eq(f)
             step == [p \in Nat \X Droppables |-> DropTop(side, p[2])]
  <1>1. DropExpired(side, b, l) = drop[MaxOrders]
    BY DEF DropExpired, DropTop
  <1>2. x \in Droppables /\ MaxOrders \in Nat
    BY ExchangeAssumption DEF Droppables
  <1> HIDE DEF x
  <1>3. step \in [Nat \X Droppables -> Droppables]
    BY DropTopIs
  <1>4. PICK f \in [0 .. MaxOrders -> Droppables] : Recurses(f, MaxOrders, x, step)
    <2> HIDE DEF step
    <2>1. QED
      BY <1>2, <1>3, RecursionExists
  <1>5. \A k \in 0 .. MaxOrders : f[k] = IF k = 0 THEN x ELSE DropTop(side, f[k - 1])
    <2> SUFFICES ASSUME NEW k \in 0 .. MaxOrders
                 PROVE  f[k] = IF k = 0 THEN x ELSE DropTop(side, f[k - 1])
      OBVIOUS
    <2>1. CASE k = 0
      BY <1>4, <2>1 DEF Recurses
    <2>2. CASE k # 0
      <3>1. k \in Nat /\ k - 1 \in 0 .. MaxOrders
        BY <1>2, <2>2
      <3>2. f[k - 1] \in Droppables
        BY <1>4, <3>1
      <3>3. f[k] = step[<<k, f[k - 1]>>]
        BY <1>4, <2>2 DEF Recurses
      <3>4. QED
        BY <2>2, <3>1, <3>2, <3>3
    <2>3. QED
      BY <2>1, <2>2
  <1>6. Eq(f)
    BY <1>4, <1>5
  <1>7. Eq(drop)
    BY <1>6
  <1> HIDE DEF drop
  <1>8. \A k \in 0 .. MaxOrders : drop[k] = IF k = 0 THEN x ELSE DropTop(side, drop[k - 1])
    BY <1>7
  <1> DEFINE Same == {k \in Nat : k <= MaxOrders => drop[k] = f[k]}
  <1>9. 0 \in Same
    <2>1. 0 \in 0 .. MaxOrders
      BY <1>2
    <2>2. drop[0] = f[0]
      BY <1>5, <1>8, <2>1
    <2>3. QED
      BY <2>2
  <1>10. ASSUME NEW k \in Nat, k \in Same
         PROVE  k + 1 \in Same
    <2> SUFFICES ASSUME k + 1 <= MaxOrders
                 PROVE  drop[k + 1] = f[k + 1]
      OBVIOUS
    <2>1. drop[k] = f[k]
      BY <1>2, <1>10
    <2>2. k + 1 \in 0 .. MaxOrders /\ k + 1 # 0 /\ k + 1 - 1 = k
      BY <1>2
    <2> DEFINE n == k + 1
    <2>3. drop[n] = IF n = 0 THEN x ELSE DropTop(side, drop[n - 1])
      BY <1>8, <2>2
    <2>4. f[n] = IF n = 0 THEN x ELSE DropTop(side, f[n - 1])
      BY <1>5, <2>2
    <2>5. QED
      BY <2>1, <2>2, <2>3, <2>4
  <1> HIDE DEF Same
  <1>11. drop[MaxOrders] = f[MaxOrders]
    <2>1. MaxOrders \in Same
      BY <1>2, <1>9, <1>10, NaturalInduction
    <2>2. QED
      BY <1>2, <2>1 DEF Same
  <1>12. QED
    BY <1>1, <1>4, <1>5, <1>11 DEF Drops, x

-----------------------------------------------------------------------------
(* What a match leaves of a side. *)

\* What is left of the book b of a side, with the queues q, and of the ledger l: the
\* book c and the ledger k.
Leaves(side, q, b, l, c, k) ==
    /\ k \in Ledgers
    /\ Solvent(c, q, Net(k, side))
    /\ Net(k, Other(side)) = Net(l, Other(side))
    /\ OrdersOf(c, q) \subseteq OrdersOf(b, q)

\* The top leaves the book, paid with what it held.
LEMMA PopLeaves ==
    ASSUME NEW side \in Sides, NEW q, NEW b, NEW l \in Ledgers, Solvent(b, q, Net(l, side)),
           NEW marketPrice, TopOf(marketPrice, side, b).id # 0,
           NEW k, Pays(l, k, side, Weight(TopOf(marketPrice, side, b)))
    PROVE  Leaves(side, q, b, l, Popped(marketPrice, side, b), k)
  <1> DEFINE top == TopOf(marketPrice, side, b)
             t == top.orderType
             c == Popped(marketPrice, side, b)
             s == Tail(b[t])
  <1>1. Tidy(b, q) /\ b \in SideBooks
    BY TidyIsSideBook DEF Solvent
  <1>2. top \in OrderType /\ t \in OrderTypes /\ b[t] # <<>> /\ top = Head(b[t])
    BY <1>1, TopIs
  <1>3. Changes(b, c, t, s)
    BY <1>1, PoppedIs
  <1>4. Pays(l, k, side, Weight(top))
    OBVIOUS
  <1> HIDE DEF top, c
  <1> HIDE DEF t
  <1>5. b[t] \in Seq(OrderType) /\ Distinct(b[t])
    BY <1>1, <1>2 DEF Tidy, Lists
  <1>6. s \in Seq(OrderType) /\ Distinct(s) /\ In(s) = In(b[t]) \ {top} /\ {top} \subseteq In(b[t])
    BY <1>2, <1>5, TailList
  <1> HIDE DEF s
  <1>7. Solvent(c, q, Net(l, side) - HeldBy({top}))
    BY <1>2, <1>3, <1>6, SolventLess
  <1>8. OrdersOf(c, q) = OrdersOf(b, q) \ {top}
    <2> DEFINE D == {top}
    <2>1. D \subseteq In(b[t]) /\ In(s) = In(b[t]) \ D
      BY <1>6
    <2> HIDE DEF D
    <2>2. OrdersOf(c, q) = OrdersOf(b, q) \ D
      BY <1>1, <1>2, <1>3, <1>6, <2>1, RemovedOrders
    <2>3. QED
      BY <2>2 DEF D
  <1>9. k \in Ledgers /\ Net(k, side) = Net(l, side) - HeldBy({top}) /\ Net(k, Other(side)) = Net(l, Other(side))
    BY <1>2, <1>4, HeldByOne DEF Pays
  <1>10. QED
    BY <1>7, <1>8, <1>9 DEF Leaves, c

\* One thing after the other.
LEMMA LeavesTwice ==
    ASSUME NEW side \in Sides, NEW q, NEW b, NEW l, NEW c, NEW k, NEW d, NEW m,
           Leaves(side, q, b, l, c, k), Leaves(side, q, c, k, d, m)
    PROVE  Leaves(side, q, b, l, d, m)
  BY DEF Leaves

\* Dropping the expired orders at the top pays what they hold.
LEMMA DropExpiredLeaves ==
    ASSUME NEW side \in Sides, NEW q, NEW b, NEW l \in Ledgers, Solvent(b, q, Net(l, side))
    PROVE  Leaves(side, q, b, l, DropExpired(side, b, l).book, DropExpired(side, b, l).ledger)
  <1>1. b \in SideBooks /\ MaxOrders \in Nat
    BY TidyIsSideBook, ExchangeAssumption DEF Solvent
  <1> DEFINE x == [book |-> b, ledger |-> l]
  <1>2. PICK f \in [0 .. MaxOrders -> Droppables] : Drops(f, side, x) /\ DropExpired(side, b, l) = f[MaxOrders]
    BY <1>1, DropExpiredIs
  <1>3. x.book = b /\ x.ledger = l
    OBVIOUS
  <1> HIDE DEF x
  <1> DEFINE Good == {k \in Nat : k <= MaxOrders => Leaves(side, q, b, l, f[k].book, f[k].ledger)}
  <1>4. 0 \in Good
    <2>1. 0 \in 0 .. MaxOrders
      BY <1>1
    <2>2. f[0] = x
      BY <1>2, <2>1 DEF Drops
    <2>3. Leaves(side, q, b, l, b, l)
      BY DEF Leaves
    <2>4. QED
      BY <1>3, <2>2, <2>3
  <1>5. ASSUME NEW k \in Nat, k \in Good
        PROVE  k + 1 \in Good
    <2> SUFFICES ASSUME k + 1 <= MaxOrders
                 PROVE  Leaves(side, q, b, l, f[k + 1].book, f[k + 1].ledger)
      OBVIOUS
    <2>1. k + 1 \in 0 .. MaxOrders /\ k + 1 # 0 /\ k + 1 - 1 = k /\ k \in 0 .. MaxOrders
      BY <1>1
    <2> DEFINE n == k + 1
               y == f[k]
               top == TopOf(page.marketPrice, side, y.book)
               c == Popped(page.marketPrice, side, y.book)
               m == refundOrder(y.ledger, side, top, ExpirationRate)
    <2>2. f[n] = IF n = 0 THEN x ELSE DropTop(side, f[n - 1])
      BY <1>2, <2>1 DEF Drops
    <2>3. f[n] = DropTop(side, y)
      BY <2>1, <2>2
    <2>4. Leaves(side, q, b, l, y.book, y.ledger)
      BY <1>1, <1>5, <2>1
    <2> HIDE DEF n, y
    <2>5. CASE top.id = 0 \/ ~isExpired(top)
      BY <2>3, <2>4, <2>5 DEF DropTop, n
    <2>6. CASE ~(top.id = 0 \/ ~isExpired(top))
      <3>1. f[n] = [book |-> c, ledger |-> m]
        BY <2>3, <2>6 DEF DropTop
      <3>2. y.ledger \in Ledgers /\ Solvent(y.book, q, Net(y.ledger, side))
        BY <2>4 DEF Leaves
      <3>3. y.book \in SideBooks /\ top.id # 0
        BY <2>6, <3>2, TidyIsSideBook DEF Solvent
      <3>4. top \in OrderType
        BY <3>3, TopIs
      <3>5. Pays(y.ledger, m, side, Weight(top))
        <4>1. top.amount \in Nat /\ top.commission \in Nat /\ ExpirationRate \in 0 .. RatePrecision
          BY <3>4, ExchangeAssumption DEF OrderType
        <4> HIDE DEF top
        <4>2. QED
          BY <3>2, <4>1, RefundPays
      <3> HIDE DEF m
      <3>6. Leaves(side, q, y.book, y.ledger, c, m)
        BY <3>2, <3>3, <3>5, PopLeaves
      <3> HIDE DEF c, top
      <3>7. Leaves(side, q, b, l, c, m)
        BY <2>4, <3>6, LeavesTwice
      <3>8. f[n].book = c /\ f[n].ledger = m
        BY <3>1
      <3>9. QED
        BY <3>7, <3>8 DEF n
    <2>7. QED
      BY <2>5, <2>6
  <1> HIDE DEF Good
  <1>6. MaxOrders \in Good
    BY <1>1, <1>4, <1>5, NaturalInduction
  <1>7. QED
    BY <1>1, <1>2, <1>6 DEF Good

\* A match takes a part of the top of a side, and its share of the commission.
LEMMA AfterMatchLeaves ==
    ASSUME NEW side \in Sides, NEW q, NEW b, NEW l \in Ledgers, Solvent(b, q, Net(l, side)),
           NEW order, order = TopOf(page.marketPrice, side, b), order.id # 0, order.amount # 0,
           NEW sent \in 0 .. order.amount, NEW isFilled, isFilled => sent = order.amount,
           NEW k \in Ledgers, Net(k, side) = Net(l, side) - (sent + CommissionFor(order, sent)),
           NEW last, \A o \in OrdersOf(b, q) : o.id <= last
    PROVE  /\ Solvent(AfterMatch(side, b, order, sent, isFilled), q, Net(k, side))
           /\ \A o \in OrdersOf(AfterMatch(side, b, order, sent, isFilled), q) : o.id <= last
  <1> DEFINE t == order.orderType
             com == CommissionFor(order, sent)
             s == Tail(b[t])
             less == subtractAmount(order, sent)
             n == Net(l, side)
  <1>1. Tidy(b, q) /\ b \in SideBooks
    BY TidyIsSideBook DEF Solvent
  <1>2. order \in OrderType /\ t \in OrderTypes /\ b[t] # <<>> /\ order = Head(b[t])
    BY <1>1, TopIs
  <1>3. /\ order.amount \in Nat \ {0} /\ order.commission \in Nat /\ sent \in Nat /\ sent <= order.amount
        /\ order.id \in Nat
    BY <1>2 DEF OrderType, Ids
  <1>4. com \in Nat /\ com <= order.commission /\ (sent = order.amount => com = order.commission)
    BY <1>3, CommissionForBounds
  <1>5. b[t] \in Seq(OrderType) /\ Distinct(b[t])
    BY <1>1, <1>2 DEF Tidy, Lists
  <1>6. s \in Seq(OrderType) /\ Distinct(s) /\ In(s) = In(b[t]) \ {order} /\ {order} \subseteq In(b[t])
    BY <1>2, <1>5, TailList
  <1>7. Net(l, side) \in Int
    BY NetIsInt
  <1> HIDE DEF com
  <1>8. CASE isFilled
    <2>1. AfterMatch(side, b, order, sent, isFilled) = Popped(page.marketPrice, side, b)
      BY <1>8 DEF AfterMatch
    <2> DEFINE c == Popped(page.marketPrice, side, b)
    <2>2. Changes(b, c, t, s)
      BY <1>1, PoppedIs
    <2> HIDE DEF s, c
    <2>3. Solvent(c, q, n - HeldBy({order})) /\ OrdersOf(c, q) = OrdersOf(b, q) \ {order}
      <3> DEFINE D == {order}
      <3>1. D \subseteq In(b[t]) /\ In(s) = In(b[t]) \ D
        BY <1>6
      <3> HIDE DEF D
      <3>2. Solvent(c, q, n - HeldBy(D))
        BY <1>2, <1>6, <2>2, <3>1, SolventLess
      <3>3. OrdersOf(c, q) = OrdersOf(b, q) \ D
        BY <1>1, <1>2, <1>6, <2>2, <3>1, RemovedOrders
      <3>4. QED
        BY <3>2, <3>3 DEF D
    <2>4. HeldBy({order}) = sent + com
      BY <1>2, <1>3, <1>4, <1>8, HeldByOne DEF Weight
    <2>5. Net(k, side) = n - HeldBy({order})
      BY <2>4 DEF com
    <2>6. QED
      BY <2>1, <2>3, <2>5 DEF c
  <1>9. CASE ~isFilled
    <2> DEFINE c == [b EXCEPT ![t] = s]
               r == <<less>> \o s
               d == [b EXCEPT ![t] = r]
    <2>1. AfterMatch(side, b, order, sent, isFilled) = d
      BY <1>9 DEF AfterMatch
    <2>2. /\ less \in OrderType /\ less.orderType = t /\ less.id = order.id
          /\ less.amount = order.amount - sent /\ less.commission = order.commission - com
      <3>1. less = [order EXCEPT !.commission = order.commission - com, !.amount = order.amount - sent]
        BY DEF subtractAmount, com
      <3> DEFINE half == [order EXCEPT !.commission = order.commission - com]
      <3>2. order.commission - com \in Nat /\ order.amount - sent \in Nat
        BY <1>3, <1>4
      <3>3. half \in OrderType /\ half.orderType = t /\ half.id = order.id /\ half.commission = order.commission - com
            /\ half.amount = order.amount
        BY <1>2, <3>2 DEF OrderType
      <3>4. less = [half EXCEPT !.amount = order.amount - sent]
        BY <1>2, <3>1 DEF OrderType
      <3> HIDE DEF half, less
      <3>5. QED
        BY <3>2, <3>3, <3>4 DEF OrderType
    <2> HIDE DEF less, s
    <2>3. Changes(b, c, t, s) /\ b \in Lists
      BY <1>1, <1>2, <1>6, ExceptChanges DEF SideBooks
    <2> HIDE DEF c
    <2>4. Solvent(c, q, n - HeldBy({order})) /\ OrdersOf(c, q) = OrdersOf(b, q) \ {order}
      <3> DEFINE D == {order}
      <3>1. D \subseteq In(b[t]) /\ In(s) = In(b[t]) \ D
        BY <1>6
      <3> HIDE DEF D
      <3>2. Solvent(c, q, n - HeldBy(D))
        BY <1>2, <1>6, <2>3, <3>1, SolventLess
      <3>3. OrdersOf(c, q) = OrdersOf(b, q) \ D
        BY <1>1, <1>2, <1>6, <2>3, <3>1, RemovedOrders
      <3>4. QED
        BY <3>2, <3>3 DEF D
    <2>5. \A o \in OrdersOf(c, q) : o.id # less.id
      <3>1. \A o \in OrdersOf(b, q) : o.id = order.id => o = order
        <4>1. order \in OrdersOf(b, q)
          BY <1>2, <1>6 DEF OrdersOf
        <4>2. QED
          BY <1>1, <4>1 DEF Tidy
      <3>2. QED
        BY <2>2, <2>4, <3>1
    <2>6. c[t] = s /\ c \in Lists
      BY <2>3 DEF Changes
    <2>7. less \notin In(s)
      <3>1. In(s) \subseteq OrdersOf(c, q)
        BY <1>2, <2>6 DEF OrdersOf
      <3>2. QED
        BY <2>5, <3>1
    <2>8. r \in Seq(OrderType) /\ Distinct(r) /\ In(r) = In(s) \union {less}
      BY <1>6, <2>2, <2>7, FrontList
    <2> HIDE DEF r
    <2>9. Changes(c, d, t, r)
      <3>1. Changes(b, d, t, r)
        BY <1>2, <2>3, <2>8, ExceptChanges
      <3> HIDE DEF d
      <3>2. QED
        BY <2>3, <3>1 DEF Changes
    <2> HIDE DEF d
    <2>10. /\ Solvent(d, q, n - HeldBy({order}) + Weight(less))
           /\ OrdersOf(d, q) = OrdersOf(c, q) \union {less}
      <3>1. In(r) = In(c[t]) \union {less}
        BY <2>6, <2>8
      <3>2. less.orderType = t
        BY <2>2
      <3> DEFINE v == n - HeldBy({order})
      <3> HIDE DEF v
      <3>3. Solvent(c, q, v)
        BY <2>4 DEF v
      <3>4. Solvent(d, q, v + Weight(less)) /\ OrdersOf(d, q) = OrdersOf(c, q) \union {less}
        BY <1>2, <2>2, <2>5, <2>8, <2>9, <3>1, <3>2, <3>3, SolventMore
      <3>5. QED
        BY <3>4 DEF v
    <2>11. n - HeldBy({order}) + Weight(less) = n - (sent + com)
      <3>1. HeldBy({order}) = order.amount + order.commission
        BY <1>2, HeldByOne DEF Weight
      <3>2. Weight(less) = (order.amount - sent) + (order.commission - com)
        BY <2>2 DEF Weight
      <3>3. QED
        BY <1>3, <1>4, <1>7, <3>1, <3>2
    <2>12. Net(k, side) = n - (sent + com)
      BY DEF com
    <2>13. \A o \in OrdersOf(d, q) : o.id <= last
      <3>1. order \in OrdersOf(b, q)
        BY <1>2, <1>6 DEF OrdersOf
      <3>2. order.id <= last
        BY <3>1
      <3>3. QED
        BY <2>2, <2>4, <2>10, <3>2
    <2>14. QED
      BY <2>1, <2>10, <2>11, <2>12, <2>13
  <1>10. QED
    BY <1>8, <1>9

\* The payments of a match, of each token.
LEMMA SettlePays ==
    ASSUME NEW l \in Ledgers, NEW buy, NEW sell, NEW m,
           m.limiting \in Nat, m.expectedSend \in Nat, m.buyerSent \in 0 .. m.expectedSend,
           m.sellCommission \in Nat, CommissionFor(buy, m.expectedSend) \in Nat,
           m.buyCommission \in 0 .. CommissionFor(buy, m.expectedSend)
    PROVE  /\ SettleMatch(l, buy, sell, m) \in Ledgers
           /\ Net(SettleMatch(l, buy, sell, m), "buy") = Net(l, "buy") - (m.expectedSend + CommissionFor(buy, m.expectedSend))
           /\ Net(SettleMatch(l, buy, sell, m), "sell") = Net(l, "sell") - (m.limiting + m.sellCommission)
  <1> DEFINE l1 == chargeCommission(l, "buy", m.buyCommission)
             l2 == doTransfer(l1, buy.id, "buy", Change(buy, m))
             l3 == doTransfer(l2, buy.id, "sell", m.limiting)
             l4 == chargeCommission(l3, "sell", m.sellCommission)
             l5 == doTransfer(l4, sell.id, "buy", m.buyerSent)
             all == CommissionFor(buy, m.expectedSend)
  <1>1. SettleMatch(l, buy, sell, m) = l5
    BY DEF SettleMatch
  <1>2. "buy" \in Sides /\ "sell" \in Sides /\ Other("buy") = "sell" /\ Other("sell") = "buy"
    BY DEF Sides, Other
  <1>3. /\ Change(buy, m) = (m.expectedSend - m.buyerSent) + (all - m.buyCommission)
    BY DEF Change
  <1> HIDE DEF all
  <1>4. /\ Change(buy, m) \in Nat /\ m.buyCommission \in Nat /\ m.buyerSent \in Nat
        /\ all \in Nat
    BY <1>3 DEF all
  <1>5. Pays(l, l1, "buy", m.buyCommission)
    BY <1>2, <1>4, ChargePays
  <1> HIDE DEF l1
  <1>6. Pays(l1, l2, "buy", Change(buy, m))
    BY <1>2, <1>4, <1>5, TransferPays DEF Pays
  <1> HIDE DEF l2
  <1>7. Pays(l2, l3, "sell", m.limiting)
    BY <1>2, <1>6, TransferPays DEF Pays
  <1> HIDE DEF l3
  <1>8. Pays(l3, l4, "sell", m.sellCommission)
    BY <1>2, <1>7, ChargePays DEF Pays
  <1> HIDE DEF l4
  <1>9. Pays(l4, l5, "buy", m.buyerSent)
    BY <1>2, <1>4, <1>8, TransferPays DEF Pays
  <1> HIDE DEF l5
  <1>10. l1 \in Ledgers /\ l2 \in Ledgers /\ l3 \in Ledgers /\ l4 \in Ledgers /\ l5 \in Ledgers
    BY <1>5, <1>6, <1>7, <1>8, <1>9 DEF Pays
  <1>11. Net(l, "buy") \in Int /\ Net(l, "sell") \in Int
    BY <1>2, NetIsInt
  <1>12. /\ Net(l1, "buy") = Net(l, "buy") - m.buyCommission /\ Net(l1, "sell") = Net(l, "sell")
         /\ Net(l2, "buy") = Net(l1, "buy") - Change(buy, m) /\ Net(l2, "sell") = Net(l1, "sell")
         /\ Net(l3, "sell") = Net(l2, "sell") - m.limiting /\ Net(l3, "buy") = Net(l2, "buy")
         /\ Net(l4, "sell") = Net(l3, "sell") - m.sellCommission /\ Net(l4, "buy") = Net(l3, "buy")
         /\ Net(l5, "buy") = Net(l4, "buy") - m.buyerSent /\ Net(l5, "sell") = Net(l4, "sell")
    BY <1>2, <1>5, <1>6, <1>7, <1>8, <1>9 DEF Pays
  <1>13. Net(l5, "buy") = Net(l, "buy") - (m.expectedSend + all)
    <2>1. m.expectedSend \in Nat /\ m.buyerSent \in Nat
      BY <1>4
    <2>2. Net(l5, "buy") = Net(l, "buy") - m.buyCommission - Change(buy, m) - m.buyerSent
      BY <1>12
    <2>3. QED
      BY <1>3, <1>4, <1>11, <2>1, <2>2
  <1>14. Net(l5, "sell") = Net(l, "sell") - (m.limiting + m.sellCommission)
    BY <1>11, <1>12
  <1>15. QED
    BY <1>1, <1>10, <1>13, <1>14 DEF all

-----------------------------------------------------------------------------
(* The matching and the moving of pending orders. *)

\* The page memories.
Pages == [marketPrice : Nat, emergentPrice : Nat, matchesAmount : Nat,
          last : [Sides -> OrderType \union {NoOrder}], lastIds : [Sides -> [OrderTypes -> Nat]]]

\* A spot price is a natural number.
LEMMA SpotPriceIsNat ==
    ASSUME NEW marketPrice \in Nat, NEW multiplyFactor \in Nat
    PROVE  marketOrderSpotPrice(marketPrice, multiplyFactor) \in Nat
  <1>1. multiplyFactor * marketPrice \in Nat
    BY ProductIsNat
  <1>2. QED
    BY <1>1, DivBounds, SettlementAssumption DEF marketOrderSpotPrice

\* The price of an order is a natural number.
LEMMA OrderPriceIsNat ==
    ASSUME NEW marketPrice \in Nat, NEW order, order.price \in Nat
    PROVE  getOrderPrice(marketPrice, order) \in Nat
  BY SpotPriceIsNat DEF getOrderPrice

\* The order at id 0.
LEMMA NoOrderIs ==
    /\ NoOrder.id = 0 /\ NoOrder.amount = 0 /\ NoOrder.commission = 0 /\ NoOrder.price = 0
    /\ NoOrder.orderType \in OrderTypes
  BY DEF NoOrder, OrderTypes

\* The match m takes at most the sell order s, and all of the order it fills.
Takes(m, b, s) ==
    /\ m.limiting \in 0 .. s.amount
    /\ m.expectedSend \in 0 .. b.amount
    /\ m.buyerSent \in Nat
    /\ m.matchType \in {"DOUBLE_FILL", "BUYER_FILL", "SELLER_FILL"}
    /\ m.matchType # "SELLER_FILL" => m.expectedSend = b.amount
    /\ m.matchType # "BUYER_FILL" => m.limiting = s.amount
    /\ m.buyCommission = CommissionFor(b, m.buyerSent)
    /\ m.sellCommission = CommissionFor(s, m.limiting)

\* Whatever the price, a match takes at most the sell order, and all of the order it fills.
LEMMA MatchTakes ==
    ASSUME NEW b, NEW s, NEW bp \in Nat \ {0}, NEW sp \in Nat, NEW p \in Nat, b.amount \in Nat, s.amount \in Nat
    PROVE  Takes(Match(b, bp, s, sp, p), b, s)
  <1> DEFINE m == Match(b, bp, s, sp, p)
             intent == (b.amount * PricePrecision) \div bp
             most == (m.limiting * bp) \div PricePrecision
  <1>1. b.amount * PricePrecision \in Nat /\ PricePrecision \in Nat \ {0} /\ b.amount \in Nat /\ s.amount \in Nat
    BY SettlementAssumption, ProductIsNat
  <1>2. intent \in Nat /\ intent * bp <= b.amount * PricePrecision
    BY <1>1, DivBounds
  <1>3. /\ m.limiting = IF s.amount > intent THEN intent ELSE s.amount
        /\ m.matchType = IF s.amount > intent THEN "BUYER_FILL" ELSE IF s.amount < intent THEN "SELLER_FILL" ELSE "DOUBLE_FILL"
    BY DEF Match, compareIntents
  <1>4. /\ m.expectedSend = IF m.matchType = "SELLER_FILL" THEN most ELSE b.amount
        /\ m.buyerSent = (m.limiting * p) \div PricePrecision
    BY DEF Match, compareIntents, convertToBase
  <1>5. m.buyCommission = CommissionFor(b, m.buyerSent) /\ m.sellCommission = CommissionFor(s, m.limiting)
    BY DEF Match, compareIntents
  <1> HIDE DEF m, intent
  <1>6. m.limiting \in 0 .. s.amount /\ m.limiting <= intent /\ m.limiting \in Nat
    BY <1>1, <1>2, <1>3
  <1>7. most \in 0 .. b.amount
    <2>1. m.limiting * bp <= intent * bp /\ intent * bp \in Nat /\ m.limiting * bp \in Nat
      BY <1>1, <1>2, <1>6, ProductIsNat, ProductIsMonotonic
    <2>2. m.limiting * bp <= b.amount * PricePrecision
      BY <1>1, <1>2, <2>1
    <2>3. QED
      BY <1>1, <2>1, <2>2, DivIsAtMost, DivBounds
  <1> HIDE DEF most
  <1>8. m.buyerSent \in Nat
    <2>1. m.limiting * p \in Nat
      BY <1>6, ProductIsNat
    <2>2. QED
      BY <1>1, <1>4, <2>1, DivBounds
  <1>9. m.expectedSend \in 0 .. b.amount
    BY <1>1, <1>4, <1>7
  <1>10. /\ m.matchType \in {"DOUBLE_FILL", "BUYER_FILL", "SELLER_FILL"}
         /\ m.matchType # "SELLER_FILL" => m.expectedSend = b.amount
         /\ m.matchType # "BUYER_FILL" => m.limiting = s.amount
    BY <1>1, <1>2, <1>3, <1>4
  <1>11. QED
    BY <1>5, <1>6, <1>8, <1>9, <1>10 DEF m, Takes

\* What both sides have when the expired orders at their tops are gone.
LEMMA FrontsAre ==
    ASSUME Accounts
    PROVE  /\ SellFront.ledger \in Ledgers
           /\ Solvent(BuyFront.book, queues["buy"], Net(SellFront.ledger, "buy"))
           /\ Solvent(SellFront.book, queues["sell"], Net(SellFront.ledger, "sell"))
           /\ \A o \in OrdersOf(BuyFront.book, queues["buy"]) : o.id <= lastOrderId
           /\ \A o \in OrdersOf(SellFront.book, queues["sell"]) : o.id <= lastOrderId
  <1>1. "buy" \in Sides /\ "sell" \in Sides /\ Other("buy") = "sell" /\ Other("sell") = "buy"
    BY DEF Sides, Other
  <1>2. /\ Ledger \in Ledgers
        /\ \A side \in Sides : Solvent(books[side], queues[side], Net(Ledger, side))
        /\ \A side \in Sides : \A o \in OrdersOf(books[side], queues[side]) : o.id <= lastOrderId
    BY DEF Accounts, Accounted
  <1> DEFINE x == BuyFront
             y == SellFront
             q == queues
  <1>3. Leaves("buy", q["buy"], books["buy"], Ledger, x.book, x.ledger)
    BY <1>1, <1>2, DropExpiredLeaves DEF BuyFront
  <1> HIDE DEF x
  <1>4. /\ x.ledger \in Ledgers /\ Solvent(x.book, q["buy"], Net(x.ledger, "buy"))
        /\ Net(x.ledger, "sell") = Net(Ledger, "sell")
        /\ OrdersOf(x.book, q["buy"]) \subseteq OrdersOf(books["buy"], q["buy"])
    BY <1>1, <1>3 DEF Leaves
  <1>5. Solvent(books["sell"], q["sell"], Net(x.ledger, "sell"))
    BY <1>1, <1>2, <1>4
  <1>6. Leaves("sell", q["sell"], books["sell"], x.ledger, y.book, y.ledger)
    BY <1>1, <1>4, <1>5, DropExpiredLeaves DEF SellFront, x
  <1> HIDE DEF y
  <1>7. /\ y.ledger \in Ledgers /\ Solvent(y.book, q["sell"], Net(y.ledger, "sell"))
        /\ Net(y.ledger, "buy") = Net(x.ledger, "buy")
        /\ OrdersOf(y.book, q["sell"]) \subseteq OrdersOf(books["sell"], q["sell"])
    BY <1>1, <1>6 DEF Leaves
  <1>8. Solvent(x.book, q["buy"], Net(y.ledger, "buy"))
    BY <1>4, <1>7
  <1>9. /\ \A o \in OrdersOf(x.book, q["buy"]) : o.id <= lastOrderId
        /\ \A o \in OrdersOf(y.book, q["sell"]) : o.id <= lastOrderId
    BY <1>1, <1>2, <1>4, <1>7
  <1>10. QED
    BY <1>7, <1>8, <1>9 DEF x, y

\* A match pays from each of its orders what it takes from it, whatever expired before it and whichever transfers fail.
LEMMA AccountsMatchBest ==
    ASSUME Accounts, page \in Pages, MatchBest, UNCHANGED <<queues, lastOrderId>>
    PROVE  Accounts'
  <1> DEFINE b == BestBuy
             s == BestSell
             bp == PriceOf(page, BestBuy)
             sp == PriceOf(page, BestSell)
             p == page.emergentPrice
             m == Match(b, bp, s, sp, p)
             fills == CASE m.matchType = "DOUBLE_FILL" -> Sides
                        [] m.matchType = "BUYER_FILL"  -> {"buy"}
                        [] m.matchType = "SELLER_FILL" -> {"sell"}
             l == SellFront.ledger
             k == SettleMatch(l, b, s, m)
             bb == AfterMatch("buy", BuyFront.book, b, m.expectedSend, "buy" \in fills)
             sb == AfterMatch("sell", SellFront.book, s, m.limiting, "sell" \in fills)
  <1>1. /\ CanMatch
        /\ books' = [buy |-> bb, sell |-> sb]
        /\ SetLedger(k)
        /\ queues' = queues /\ lastOrderId' = lastOrderId
    BY DEF MatchBest
  <1>2. /\ l \in Ledgers
        /\ Solvent(BuyFront.book, queues["buy"], Net(l, "buy"))
        /\ Solvent(SellFront.book, queues["sell"], Net(l, "sell"))
        /\ \A o \in OrdersOf(BuyFront.book, queues["buy"]) : o.id <= lastOrderId
        /\ \A o \in OrdersOf(SellFront.book, queues["sell"]) : o.id <= lastOrderId
    BY FrontsAre
  <1>3. b.id # 0 /\ s.id # 0 /\ NoRevert(b, bp, s, sp, p)
    BY <1>1 DEF CanMatch
  <1>4. b = TopOf(page.marketPrice, "buy", BuyFront.book) /\ s = TopOf(page.marketPrice, "sell", SellFront.book)
    BY DEF BestBuy, BestSell
  <1> HIDE DEF b, s
  <1>5. b \in OrderType /\ s \in OrderType
    <2>1. BuyFront.book \in SideBooks /\ SellFront.book \in SideBooks
      BY <1>2, TidyIsSideBook DEF Solvent
    <2>2. QED
      BY <1>3, <1>4, <2>1, TopIs
  <1>6. /\ b.amount \in Nat \ {0} /\ s.amount \in Nat \ {0} /\ b.commission \in Nat /\ s.commission \in Nat
        /\ b.price \in Nat /\ s.price \in Nat
    BY <1>3, <1>5 DEF OrderType, NoRevert
  <1>7. page.marketPrice \in Nat /\ p \in Nat
    BY DEF Pages
  <1>8. bp \in Nat \ {0} /\ sp \in Nat
    <2>1. bp # 0
      BY <1>3 DEF NoRevert
    <2>2. bp \in Nat /\ sp \in Nat
      BY <1>6, <1>7, OrderPriceIsNat DEF PriceOf, b, s
    <2>3. QED
      BY <2>1, <2>2
  <1> HIDE DEF bp, sp, p
  <1>9. /\ m.limiting \in 0 .. s.amount
        /\ m.expectedSend \in 0 .. b.amount
        /\ m.buyerSent \in Nat
        /\ m.matchType \in {"DOUBLE_FILL", "BUYER_FILL", "SELLER_FILL"}
        /\ m.matchType # "SELLER_FILL" => m.expectedSend = b.amount
        /\ m.matchType # "BUYER_FILL" => m.limiting = s.amount
        /\ m.buyCommission = CommissionFor(b, m.buyerSent)
        /\ m.sellCommission = CommissionFor(s, m.limiting)
    <2>1. b.amount \in Nat /\ s.amount \in Nat
      BY <1>6
    <2>2. Takes(m, b, s)
      BY <1>7, <1>8, <2>1, MatchTakes
    <2> HIDE DEF m
    <2>3. QED
      BY <2>2 DEF Takes
  <1>10. m.expectedSend >= m.buyerSent
    BY <1>3 DEF NoRevert
  <1>11. /\ "buy" \in fills => m.matchType # "SELLER_FILL"
         /\ "sell" \in fills => m.matchType # "BUYER_FILL"
    BY <1>9
  <1> HIDE DEF m, fills
  <1>12. /\ m.limiting \in Nat /\ m.expectedSend \in Nat /\ m.buyerSent \in 0 .. m.expectedSend
         /\ m.buyerSent \in 0 .. b.amount
    BY <1>6, <1>9, <1>10
  <1>13. /\ CommissionFor(b, m.expectedSend) \in Nat /\ CommissionFor(s, m.limiting) \in Nat
         /\ m.sellCommission \in Nat
    BY <1>6, <1>9, CommissionForBounds
  <1>14. m.buyCommission \in 0 .. CommissionFor(b, m.expectedSend)
    <2>1. CommissionFor(b, m.buyerSent) \in Nat
      BY <1>6, <1>12, CommissionForBounds
    <2>2. CommissionFor(b, m.buyerSent) <= CommissionFor(b, m.expectedSend)
      BY <1>6, <1>9, <1>12, CommissionForBounds
    <2>3. QED
      BY <1>9, <1>13, <2>1, <2>2
  <1> HIDE DEF l
  <1>15. /\ k \in Ledgers
         /\ Net(k, "buy") = Net(l, "buy") - (m.expectedSend + CommissionFor(b, m.expectedSend))
         /\ Net(k, "sell") = Net(l, "sell") - (m.limiting + CommissionFor(s, m.limiting))
    BY <1>2, <1>9, <1>12, <1>13, <1>14, SettlePays
  <1> HIDE DEF k
  <1>16. "buy" \in Sides /\ "sell" \in Sides /\ \A side \in Sides : side = "buy" \/ side = "sell"
    BY DEF Sides
  <1> DEFINE bf == "buy" \in fills
             sf == "sell" \in fills
  <1>17. (bf => m.expectedSend = b.amount) /\ (sf => m.limiting = s.amount)
    BY <1>9, <1>11
  <1>18. bb = AfterMatch("buy", BuyFront.book, b, m.expectedSend, bf) /\ sb = AfterMatch("sell", SellFront.book, s, m.limiting, sf)
    OBVIOUS
  <1> HIDE DEF bf, sf, bb, sb
  <1>19. /\ Solvent(bb, queues["buy"], Net(k, "buy"))
         /\ \A o \in OrdersOf(bb, queues["buy"]) : o.id <= lastOrderId
    <2>1. b.id # 0 /\ b.amount # 0
      BY <1>3, <1>6
    <2>2. QED
      BY <1>2, <1>4, <1>9, <1>15, <1>16, <1>17, <1>18, <2>1, AfterMatchLeaves
  <1>20. /\ Solvent(sb, queues["sell"], Net(k, "sell"))
         /\ \A o \in OrdersOf(sb, queues["sell"]) : o.id <= lastOrderId
    <2>1. s.id # 0 /\ s.amount # 0
      BY <1>3, <1>6
    <2>2. QED
      BY <1>2, <1>4, <1>9, <1>15, <1>16, <1>17, <1>18, <2>1, AfterMatchLeaves
  <1>21. Ledger' = k
    BY <1>1, <1>15, SetLedgerIs
  <1>22. books' \in [Sides -> Lists] /\ books'["buy"] = bb /\ books'["sell"] = sb
    <2>1. bb \in Lists /\ sb \in Lists
      BY <1>19, <1>20 DEF Solvent, Tidy
    <2>2. QED
      BY <1>1, <2>1 DEF Sides
  <1>23. queues \in [Sides -> Lists] /\ lastOrderId \in 0 .. MaxOrders
    BY DEF Accounts, Accounted
  <1>24. Accounted(books', queues, k, lastOrderId)
    BY <1>15, <1>16, <1>19, <1>20, <1>22, <1>23 DEF Accounted
  <1>25. QED
    BY <1>1, <1>21, <1>24 DEF Accounts

\* An order moves from its queue to its book.
LEMMA MoveOneAccounted ==
    ASSUME NEW s, NEW l, NEW last, Accounted(s.books, s.queues, l, last), NEW t \in OrderTypes
    PROVE  Accounted(MoveOne(s, t).books, MoveOne(s, t).queues, l, last)
  <1>1. CASE Pendings(s.queues, t) = {}
    BY <1>1 DEF MoveOne
  <1>2. CASE Pendings(s.queues, t) # {}
    <2> DEFINE side == IF "buy" \in Pendings(s.queues, t) THEN "buy" ELSE "sell"
               bs == s.books
               qs == s.queues
               list == qs[side][t]
               o == Head(list)
               rest == Tail(list)
               placed == Place(Descending(side), bs[side][t], o)
               cs == [bs EXCEPT ![side][t] = placed]
               ds == [qs EXCEPT ![side][t] = rest]
    <2>1. MoveOne(s, t) = [books |-> cs, queues |-> ds]
      BY <1>2 DEF MoveOne
    <2>2. side \in Sides /\ side \in Pendings(s.queues, t)
      BY <1>2 DEF Pendings, Sides
    <2>3. list # <<>>
      BY <2>2 DEF Pendings
    <2> HIDE DEF side
    <2>4. /\ bs \in [Sides -> Lists] /\ qs \in [Sides -> Lists] /\ l \in Ledgers /\ last \in 0 .. MaxOrders
          /\ Solvent(bs[side], qs[side], Net(l, side))
          /\ \A r \in OrdersOf(bs[side], qs[side]) : r.id <= last
      BY <2>2 DEF Accounted
    <2> HIDE DEF bs, qs
    <2> DEFINE n == Net(l, side)
               b == bs[side]
               q == qs[side]
    <2>5. Tidy(b, q) /\ b[t] \in Seq(OrderType) /\ Distinct(b[t]) /\ q[t] \in Seq(OrderType) /\ Distinct(q[t])
          /\ \A r \in In(q[t]) : r.orderType = t
      BY <2>4 DEF Solvent, Tidy, Lists
    <2>6. /\ o \in In(q[t]) /\ rest \in Seq(OrderType) /\ Distinct(rest) /\ In(rest) = In(q[t]) \ {o}
      BY <2>3, <2>5, TailList
    <2>7. o \in OrderType /\ o.orderType = t /\ {o} \subseteq In(q[t])
      BY <2>5, <2>6, InIsFinite
    <2>8. ds \in [Sides -> Lists] /\ Changes(q, ds[side], t, rest) /\ ds[Other(side)] = qs[Other(side)]
      <3>1. Replaces(qs, ds, side, t, rest)
        BY DEF Replaces
      <3> HIDE DEF ds, rest
      <3>2. QED
        BY <2>2, <2>4, <2>6, <3>1, ListChanges
    <2> HIDE DEF ds, rest
    <2> DEFINE D == {o}
    <2>9. D \subseteq In(q[t]) /\ In(rest) = In(q[t]) \ D
      BY <2>6, <2>7
    <2>10. HeldBy(D) = Weight(o) /\ Weight(o) \in Nat
      BY <2>7, HeldByOne
    <2> HIDE DEF D
    <2>11. Solvent(q, b, n) /\ OrdersOf(q, b) = OrdersOf(b, q)
      BY <2>4, <2>5, SolventIsSymmetric, TidyIsSymmetric
    <2> DEFINE d == ds[side]
               v == n - Weight(o)
    <2> HIDE DEF o, d
    <2>12. Solvent(d, b, v)
      BY <2>6, <2>8, <2>9, <2>10, <2>11, SolventLess DEF d
    <2>13. OrdersOf(d, b) = OrdersOf(q, b) \ D
      BY <2>5, <2>6, <2>8, <2>9, TidyIsSymmetric, RemovedOrders DEF d
    <2> HIDE DEF v
    <2>14. Solvent(b, d, v) /\ OrdersOf(b, d) = OrdersOf(b, q) \ {o}
      BY <2>11, <2>12, <2>13, SolventIsSymmetric, TidyIsSymmetric DEF Solvent, D
    <2>15. \A r \in OrdersOf(b, d) : r.id # o.id
      <3>1. o \in OrdersOf(b, q)
        BY <2>6 DEF OrdersOf
      <3>2. \A r \in OrdersOf(b, q) : r.id = o.id => r = o
        BY <2>5, <3>1 DEF Tidy
      <3>3. QED
        BY <2>14, <3>2
    <2>16. o \notin In(b[t])
      <3>1. In(b[t]) \subseteq OrdersOf(b, d)
        BY DEF OrdersOf
      <3>2. QED
        BY <2>15, <3>1
    <2>17. placed \in Seq(OrderType) /\ Distinct(placed) /\ In(placed) = In(b[t]) \union {o}
      BY <2>5, <2>7, <2>16, PlaceList
    <2>18. cs \in [Sides -> Lists] /\ Changes(b, cs[side], t, placed) /\ cs[Other(side)] = bs[Other(side)]
      <3>1. Replaces(bs, cs, side, t, placed)
        BY DEF Replaces
      <3> HIDE DEF cs, placed
      <3>2. QED
        BY <2>2, <2>4, <2>17, <3>1, ListChanges
    <2> HIDE DEF cs, placed
    <2> DEFINE c == cs[side]
    <2>19. Solvent(c, d, v + Weight(o)) /\ OrdersOf(c, d) = OrdersOf(b, d) \union {o}
      <3> HIDE DEF c
      <3>1. Changes(b, c, t, placed)
        BY <2>18 DEF c
      <3>2. QED
        BY <2>7, <2>14, <2>15, <2>17, <3>1, SolventMore
    <2>20. v + Weight(o) = Net(l, side)
      <3>1. n \in Int
        BY <2>2, <2>4, NetIsInt
      <3>2. QED
        BY <2>10, <3>1 DEF v
    <2>21. \A r \in OrdersOf(c, d) : r.id <= last
      <3>1. o \in OrdersOf(b, q)
        BY <2>6 DEF OrdersOf
      <3>2. OrdersOf(c, d) \subseteq OrdersOf(b, q)
        BY <2>14, <2>19, <3>1
      <3>3. QED
        BY <2>4, <3>2
    <2>22. last \in last .. MaxOrders
      BY <2>4, ExchangeAssumption
    <2>23. Accounted(bs, qs, l, last)
      BY DEF bs, qs
    <2>24. Accounted(cs, ds, l, last)
      BY <2>2, <2>4, <2>8, <2>18, <2>19, <2>20, <2>21, <2>22, <2>23, OneSideChanges DEF d
    <2>25. QED
      BY <2>1, <2>24 DEF cs, ds
  <1>3. QED
    BY <1>1, <1>2

\* Moving pending orders moves what they hold.
LEMMA AccountsMoveStep ==
    ASSUME Accounts, MoveStep, UNCHANGED <<ledgerVars, lastOrderId>>
    PROVE  Accounts'
  <1> DEFINE s == [books |-> books, queues |-> queues]
             limit == MoveOne(s, "LIMIT_ORDER")
             other == MoveOne(limit, "MARKET_ORDER")
             market == IF Pendings(limit.queues, "LIMIT_ORDER") # {} THEN limit ELSE other
  <1>1. books' = market.books /\ queues' = market.queues
    BY DEF MoveStep
  <1>2. Accounted(s.books, s.queues, Ledger, lastOrderId)
    BY DEF Accounts
  <1> HIDE DEF s
  <1>3. "LIMIT_ORDER" \in OrderTypes /\ "MARKET_ORDER" \in OrderTypes
    BY DEF OrderTypes
  <1>4. Accounted(limit.books, limit.queues, Ledger, lastOrderId)
    BY <1>2, <1>3, MoveOneAccounted
  <1> HIDE DEF limit
  <1>5. Accounted(other.books, other.queues, Ledger, lastOrderId)
    BY <1>3, <1>4, MoveOneAccounted
  <1> HIDE DEF other
  <1>6. Accounted(market.books, market.queues, Ledger, lastOrderId)
    BY <1>4, <1>5
  <1> HIDE DEF market
  <1>7. Ledger' = Ledger /\ lastOrderId' = lastOrderId
    BY SameLedger
  <1>8. QED
    BY <1>1, <1>6, <1>7 DEF Accounts

-----------------------------------------------------------------------------
(* The page memory. *)

\* The greatest of a set of natural numbers with a bound.
LEMMA MaxIsGreatest ==
    ASSUME NEW N \in Nat, NEW T, T \subseteq 0 .. N, T # {}
    PROVE  Max(T) \in T /\ \A y \in T : y <= Max(T)
  <1> DEFINE U == {N - x : x \in T}
  <1>1. U \subseteq Nat /\ U # {}
    <2>1. \A x \in T : x \in 0 .. N
      OBVIOUS
    <2>2. \A x \in T : N - x \in Nat
      BY <2>1
    <2>3. QED
      BY <2>2
  <1>2. PICK u \in U : \A v \in U : u <= v
    BY <1>1, LeastNat
  <1>3. PICK x \in T : u = N - x
    BY <1>2
  <1>4. \A y \in T : x >= y
    <2> SUFFICES ASSUME NEW y \in T PROVE x >= y
      OBVIOUS
    <2>1. N - y \in U
      OBVIOUS
    <2> HIDE DEF U
    <2>2. N - x <= N - y
      BY <1>2, <1>3, <2>1
    <2>3. x \in Nat /\ y \in Nat
      OBVIOUS
    <2>4. QED
      BY <2>2, <2>3
  <1>5. \E z \in T : \A y \in T : z >= y
    BY <1>4
  <1>6. Max(T) \in T /\ \A y \in T : Max(T) >= y
    BY <1>5 DEF Max
  <1>7. QED
    BY <1>6

MaybeOrder == OrderType \union {NoOrder}

\* The next valid order of a list is an order or none.
LEMMA NextValidIs ==
    ASSUME NEW list \in Seq(OrderType), NEW id
    PROVE  NextValid(list, id) \in MaybeOrder
  <1> DEFINE after == {n \in DOMAIN list : list[n].id = id}
             from == IF id = 0 THEN 1 ELSE IF after = {} THEN Len(list) + 1 ELSE Max(after) + 1
             valid == {n \in from .. Len(list) : ~isExpired(list[n])}
  <1>1. DOMAIN list = 1 .. Len(list) /\ Len(list) \in Nat /\ list \in [1 .. Len(list) -> OrderType]
    BY LenProperties
  <1>2. NextValid(list, id) = IF valid = {} THEN NoOrder ELSE list[Min(valid)]
    BY DEF NextValid
  <1>3. from \in Nat \ {0}
    <2>1. CASE id # 0 /\ after # {}
      <3>1. after \subseteq 0 .. Len(list) /\ after \subseteq 1 .. Len(list)
        BY <1>1
      <3> HIDE DEF after
      <3>2. Max(after) \in after
        BY <1>1, <2>1, <3>1, MaxIsGreatest
      <3> DEFINE n == Max(after)
      <3> HIDE DEF n
      <3>3. n + 1 \in Nat \ {0}
        <4>1. n \in 1 .. Len(list)
          BY <3>1, <3>2 DEF n
        <4>2. QED
          BY <1>1, <4>1
      <3>4. QED
        BY <2>1, <3>3 DEF n
    <2>2. CASE ~(id # 0 /\ after # {})
      BY <1>1, <2>2
    <2>3. QED
      BY <2>1, <2>2
  <1> HIDE DEF from
  <1>4. valid \subseteq 1 .. Len(list) /\ valid \subseteq Nat
    BY <1>1, <1>3
  <1> HIDE DEF valid
  <1>5. CASE valid # {}
    <2>1. Min(valid) \in valid
      BY <1>4, <1>5, MinIsLeast
    <2>2. list[Min(valid)] \in OrderType
      BY <1>1, <1>4, <2>1
    <2>3. QED
      BY <1>2, <1>5, <2>2 DEF MaybeOrder
  <1>6. CASE valid = {}
    BY <1>2, <1>6 DEF MaybeOrder
  <1>7. QED
    BY <1>5, <1>6

\* The fields of an order, or of none.
LEMMA MaybeOrderIs ==
    ASSUME NEW o \in MaybeOrder
    PROVE  /\ o.id \in Nat /\ o.amount \in Nat /\ o.commission \in Nat /\ o.price \in Nat /\ o.orderType \in OrderTypes
           /\ o.id # 0 => o \in OrderType
  <1>1. CASE o \in OrderType
    BY <1>1 DEF OrderType, Ids
  <1>2. CASE o = NoOrder
    BY <1>2, NoOrderIs
  <1>3. QED
    BY <1>1, <1>2 DEF MaybeOrder

\* getNextValidOrder gives an order or none, and ids.
LEMMA GetNextValidOrderIs ==
    ASSUME NEW p \in Pages, NEW side \in Sides, books \in [Sides -> Lists]
    PROVE  /\ getNextValidOrder(p, side).order \in MaybeOrder
           /\ getNextValidOrder(p, side).ids \in [OrderTypes -> Nat]
  <1> DEFINE a == NextValid(books[side]["LIMIT_ORDER"], p.lastIds[side]["LIMIT_ORDER"])
             b == NextValid(books[side]["MARKET_ORDER"], p.lastIds[side]["MARKET_ORDER"])
             next == mostCompetitiveOrder(p.marketPrice, side, a, b)
             ids == p.lastIds[side]
             after == [ids EXCEPT ![next.orderType] = next.id]
  <1>1. getNextValidOrder(p, side) = [order |-> next, ids |-> after]
    BY DEF getNextValidOrder
  <1>2. a \in MaybeOrder /\ b \in MaybeOrder
    <2>1. books[side]["LIMIT_ORDER"] \in Seq(OrderType) /\ books[side]["MARKET_ORDER"] \in Seq(OrderType)
      BY DEF Lists, OrderTypes
    <2>2. QED
      BY <2>1, NextValidIs
  <1> HIDE DEF a, b
  <1>3. next \in {a, b}
    BY BestOfTwo
  <1> HIDE DEF next
  <1>4. next \in MaybeOrder
    BY <1>2, <1>3
  <1>5. next.id \in Nat /\ next.orderType \in OrderTypes
    BY <1>4, MaybeOrderIs
  <1>6. ids \in [OrderTypes -> Nat]
    BY DEF Pages
  <1> HIDE DEF ids
  <1>7. after \in [OrderTypes -> Nat]
    BY <1>5, <1>6
  <1> HIDE DEF after
  <1>8. QED
    BY <1>1, <1>4, <1>7

\* The fields of a page memory.
LEMMA PageFields ==
    ASSUME NEW p \in Pages
    PROVE  /\ p.marketPrice \in Nat /\ p.emergentPrice \in Nat /\ p.matchesAmount \in Nat
           /\ p.last \in [Sides -> MaybeOrder] /\ p.lastIds \in [Sides -> [OrderTypes -> Nat]]
  BY DEF Pages, MaybeOrder

\* The fields of a page that a step sets.
Priced(p, marketPrice) == [p EXCEPT !.marketPrice = marketPrice]
Finished(p, price) == [p EXCEPT !.emergentPrice = price]
Counted(p, n, last) == [p EXCEPT !.matchesAmount = n, !.last = last]
Turned(p, last, ids) == [p EXCEPT !.last = last, !.lastIds = ids]

\* A page memory with other values of the right type.
LEMMA PageChanges ==
    ASSUME NEW p \in Pages, NEW n \in Nat, NEW last \in [Sides -> MaybeOrder],
           NEW ids \in [Sides -> [OrderTypes -> Nat]]
    PROVE  /\ Priced(p, n) \in Pages /\ Finished(p, n) \in Pages
           /\ Counted(p, n, last) \in Pages /\ Turned(p, last, ids) \in Pages
  <1>1. Priced(p, n) \in Pages
    BY DEF Pages, Priced
  <1>2. Finished(p, n) \in Pages
    BY DEF Pages, Finished
  <1>3. Counted(p, n, last) \in Pages
    <2> DEFINE q == [p EXCEPT !.matchesAmount = n]
    <2>1. q \in Pages /\ Counted(p, n, last) = [q EXCEPT !.last = last]
      BY DEF Pages, Counted
    <2> HIDE DEF q
    <2>2. QED
      BY <2>1 DEF Pages, MaybeOrder
  <1>4. Turned(p, last, ids) \in Pages
    <2> DEFINE q == [p EXCEPT !.last = last]
    <2>1. q \in Pages /\ Turned(p, last, ids) = [q EXCEPT !.lastIds = ids]
      BY DEF Pages, Turned, MaybeOrder
    <2> HIDE DEF q
    <2>2. QED
      BY <2>1 DEF Pages
  <1>5. QED
    BY <1>1, <1>2, <1>3, <1>4

\* The page memory a tick starts with.
LEMMA StartPageIs ==
    ASSUME page \in Pages, books \in [Sides -> Lists], NEW marketPrice \in Nat
    PROVE  StartPage(marketPrice) \in Pages
  <1> DEFINE q == Priced(page, marketPrice)
             last == [side \in Sides |-> getNextValidOrder(q, side).order]
             ids == [side \in Sides |-> getNextValidOrder(q, side).ids]
  <1>1. q \in Pages
    BY PageChanges, PageFields
  <1>2. StartPage(marketPrice) = Turned(q, last, ids)
    BY DEF StartPage, Turned, Priced
  <1> HIDE DEF q
  <1>3. last \in [Sides -> MaybeOrder] /\ ids \in [Sides -> [OrderTypes -> Nat]]
    BY <1>1, GetNextValidOrderIs
  <1> HIDE DEF last, ids
  <1>4. QED
    BY <1>1, <1>2, <1>3, PageChanges

\* What compareIntents says of two orders takes at most each of them.
LEMMA IntentsTake ==
    ASSUME NEW a \in Nat, NEW s \in Nat, NEW bp \in Nat \ {0}
    PROVE  /\ compareIntents(a, bp, s).limitingAmount \in 0 .. s
           /\ convertToBase(compareIntents(a, bp, s).limitingAmount, bp) \in 0 .. a
           /\ compareIntents(a, bp, s).matchType \in {"DOUBLE_FILL", "BUYER_FILL", "SELLER_FILL"}
  <1> DEFINE intent == (a * PricePrecision) \div bp
             m == compareIntents(a, bp, s)
             lim == m.limitingAmount
  <1>1. a * PricePrecision \in Nat /\ PricePrecision \in Nat \ {0}
    BY SettlementAssumption, ProductIsNat
  <1>2. intent \in Nat /\ intent * bp <= a * PricePrecision
    BY <1>1, DivBounds
  <1>3. /\ lim = IF s > intent THEN intent ELSE s
        /\ m.matchType = IF s > intent THEN "BUYER_FILL" ELSE IF s < intent THEN "SELLER_FILL" ELSE "DOUBLE_FILL"
    BY DEF compareIntents
  <1> HIDE DEF m, lim, intent
  <1>4. lim \in 0 .. s /\ lim <= intent /\ lim \in Nat
    BY <1>2, <1>3
  <1>5. (lim * bp) \div PricePrecision \in 0 .. a
    <2>1. lim * bp <= intent * bp /\ intent * bp \in Nat /\ lim * bp \in Nat
      BY <1>2, <1>4, ProductIsNat, ProductIsMonotonic
    <2>2. lim * bp <= a * PricePrecision
      BY <1>1, <1>2, <2>1
    <2>3. QED
      BY <1>1, <2>1, <2>2, DivIsAtMost, DivBounds
  <1>6. m.matchType \in {"DOUBLE_FILL", "BUYER_FILL", "SELLER_FILL"}
    BY <1>3
  <1>7. QED
    BY <1>4, <1>5, <1>6 DEF convertToBase, lim, m

\* The sides that a match of a type fills.
FilledBy(matchType) ==
    CASE matchType = "DOUBLE_FILL" -> Sides
      [] matchType = "BUYER_FILL"  -> {"buy"}
      [] matchType = "SELLER_FILL" -> {"sell"}

\* A match fills one side or both.
LEMMA FilledByIs ==
    ASSUME NEW matchType \in {"DOUBLE_FILL", "BUYER_FILL", "SELLER_FILL"}
    PROVE  /\ FilledBy(matchType) \subseteq Sides /\ FilledBy(matchType) # {}
           /\ IsFiniteSet(FilledBy(matchType)) /\ Cardinality(FilledBy(matchType)) \in {1, 2}
           /\ Cardinality(FilledBy(matchType)) \in Nat
  <1>1. CASE matchType = "DOUBLE_FILL"
    <2>1. FilledBy(matchType) = {"buy"} \union {"sell"}
      BY <1>1 DEF FilledBy, Sides
    <2>2. IsFiniteSet({"buy"}) /\ Cardinality({"buy"}) = 1 /\ "sell" \notin {"buy"}
      BY FS_Singleton
    <2>3. IsFiniteSet({"buy"} \union {"sell"}) /\ Cardinality({"buy"} \union {"sell"}) = 2
      BY <2>2, FS_AddElement
    <2>4. QED
      BY <2>1, <2>3 DEF Sides
  <1>2. CASE matchType = "BUYER_FILL"
    <2>1. FilledBy(matchType) = {"buy"}
      BY <1>2 DEF FilledBy
    <2>2. QED
      BY <2>1, FS_Singleton DEF Sides
  <1>3. CASE matchType = "SELLER_FILL"
    <2>1. FilledBy(matchType) = {"sell"}
      BY <1>3 DEF FilledBy
    <2>2. QED
      BY <2>1, FS_Singleton DEF Sides
  <1>4. QED
    BY <1>1, <1>2, <1>3

-----------------------------------------------------------------------------
(* The simulation. *)

\* The prices and the intents of the two orders the simulation compares.
SimPrice(p) == PriceOf(p, p.last["buy"])
SimIntents(p) == compareIntents(p.last["buy"].amount, SimPrice(p), p.last["sell"].amount)
SimUsed(p) == [buy  |-> convertToBase(SimIntents(p).limitingAmount, SimPrice(p)),
               sell |-> SimIntents(p).limitingAmount]

\* What is left of the two orders, and what comes next.
Less(o, amount) == [o EXCEPT !.amount = amount]
SimReduced(p) ==
    [side \in Sides |-> IF side \in FilledBy(SimIntents(p).matchType)
                        THEN p.last[side]
                        ELSE Less(p.last[side], p.last[side].amount - SimUsed(p)[side])]
SimNext(p) ==
    [side \in Sides |-> IF side \in FilledBy(SimIntents(p).matchType)
                        THEN getNextValidOrder(p, side)
                        ELSE [order |-> SimReduced(p)[side], ids |-> p.lastIds[side]]]
SimCounted(p) ==
    Counted(p, p.matchesAmount + Cardinality(FilledBy(SimIntents(p).matchType)), SimReduced(p))
SimGoesOn(p) == ShouldMatch(p, SimNext(p)["buy"].order, SimNext(p)["sell"].order)
SimTurned(p) ==
    Turned(SimCounted(p), [side \in Sides |-> SimNext(p)[side].order], [side \in Sides |-> SimNext(p)[side].ids])

\* Simulate, in the parts named above.
LEMMA SimulateIs ==
    ASSUME NEW p
    PROVE  /\ Simulate(p).goesOn = SimGoesOn(p)
           /\ Simulate(p).page = IF SimGoesOn(p) THEN SimTurned(p) ELSE SimCounted(p)
  BY DEF Simulate, SimGoesOn, SimTurned, SimCounted, SimNext, SimReduced, SimUsed, SimIntents, SimPrice, FilledBy,
         Less, Counted, Turned

\* What the simulation leaves of the two orders.
LEMMA SimReducedIs ==
    ASSUME NEW p \in Pages, p.last["buy"].id # 0, p.last["sell"].id # 0, SimPrice(p) # 0
    PROVE  /\ SimReduced(p) \in [Sides -> OrderType]
           /\ SimPrice(p) \in Nat \ {0}
           /\ \A side \in Sides : SimUsed(p)[side] \in 0 .. p.last[side].amount
           /\ SimIntents(p).matchType \in {"DOUBLE_FILL", "BUYER_FILL", "SELLER_FILL"}
  <1> DEFINE b == p.last["buy"]
             s == p.last["sell"]
  <1>1. \A side \in Sides : p.last[side] \in MaybeOrder /\ p.last[side] \in OrderType
    <2>1. \A side \in Sides : p.last[side] \in MaybeOrder /\ p.last[side].id # 0
      BY PageFields DEF Sides
    <2>2. QED
      BY <2>1, MaybeOrderIs
  <1>2. b \in OrderType /\ s \in OrderType /\ p.marketPrice \in Nat
    BY <1>1, PageFields DEF Sides
  <1>3. b.amount \in Nat /\ s.amount \in Nat /\ b.price \in Nat
    BY <1>2 DEF OrderType
  <1>4. SimPrice(p) \in Nat \ {0}
    BY <1>2, <1>3, OrderPriceIsNat DEF SimPrice, PriceOf
  <1> DEFINE bp == SimPrice(p)
  <1> HIDE DEF bp
  <1>5. /\ compareIntents(b.amount, bp, s.amount).limitingAmount \in 0 .. s.amount
        /\ convertToBase(compareIntents(b.amount, bp, s.amount).limitingAmount, bp) \in 0 .. b.amount
        /\ compareIntents(b.amount, bp, s.amount).matchType \in {"DOUBLE_FILL", "BUYER_FILL", "SELLER_FILL"}
    BY <1>3, <1>4, IntentsTake DEF bp
  <1>6. SimUsed(p)["buy"] \in 0 .. b.amount /\ SimUsed(p)["sell"] \in 0 .. s.amount
    BY <1>5 DEF SimUsed, SimIntents, bp
  <1>7. \A side \in Sides : SimUsed(p)[side] \in 0 .. p.last[side].amount
    BY <1>6 DEF Sides
  <1>8. SimIntents(p).matchType \in {"DOUBLE_FILL", "BUYER_FILL", "SELLER_FILL"}
    BY <1>5 DEF SimIntents, bp
  <1>9. ASSUME NEW side \in Sides
        PROVE  Less(p.last[side], p.last[side].amount - SimUsed(p)[side]) \in OrderType
    <2> DEFINE o == p.last[side]
               n == o.amount - SimUsed(p)[side]
    <2>1. o \in OrderType /\ n \in Nat
      <3>1. o \in OrderType /\ o.amount \in Nat
        BY <1>1 DEF OrderType
      <3>2. QED
        BY <1>7, <3>1
    <2> HIDE DEF o, n
    <2>2. Less(o, n) \in OrderType
      BY <2>1 DEF Less, OrderType
    <2>3. QED
      BY <2>2 DEF o, n
  <1>10. SimReduced(p) \in [Sides -> OrderType]
    BY <1>1, <1>9 DEF SimReduced
  <1>11. QED
    BY <1>4, <1>7, <1>8, <1>10

\* A step of the simulation gives a page memory.
LEMMA SimulateIsTyped ==
    ASSUME NEW p \in Pages, books \in [Sides -> Lists],
           p.last["buy"].id # 0, p.last["sell"].id # 0, SimPrice(p) # 0
    PROVE  SimCounted(p) \in Pages /\ SimTurned(p) \in Pages
  <1> DEFINE n == p.matchesAmount + Cardinality(FilledBy(SimIntents(p).matchType))
             last == [side \in Sides |-> SimNext(p)[side].order]
             ids == [side \in Sides |-> SimNext(p)[side].ids]
  <1>1. /\ SimReduced(p) \in [Sides -> OrderType] /\ SimReduced(p) \in [Sides -> MaybeOrder]
        /\ SimIntents(p).matchType \in {"DOUBLE_FILL", "BUYER_FILL", "SELLER_FILL"}
    BY SimReducedIs DEF MaybeOrder
  <1>2. n \in Nat
    BY <1>1, FilledByIs, PageFields
  <1>3. ASSUME NEW side \in Sides
        PROVE  SimNext(p)[side].order \in MaybeOrder /\ SimNext(p)[side].ids \in [OrderTypes -> Nat]
    <2>1. CASE side \in FilledBy(SimIntents(p).matchType)
      <3>1. SimNext(p)[side] = getNextValidOrder(p, side)
        BY <2>1 DEF SimNext
      <3>2. QED
        BY <3>1, GetNextValidOrderIs
    <2>2. CASE side \notin FilledBy(SimIntents(p).matchType)
      <3>1. SimNext(p)[side] = [order |-> SimReduced(p)[side], ids |-> p.lastIds[side]]
        BY <2>2 DEF SimNext
      <3>2. QED
        BY <1>1, <3>1, PageFields
    <2>3. QED
      BY <2>1, <2>2
  <1>4. last \in [Sides -> MaybeOrder] /\ ids \in [Sides -> [OrderTypes -> Nat]]
    BY <1>3
  <1>5. SimCounted(p) = Counted(p, n, SimReduced(p)) /\ SimTurned(p) = Turned(SimCounted(p), last, ids)
    BY DEF SimCounted, SimTurned
  <1> HIDE DEF n, last, ids
  <1>6. SimCounted(p) \in Pages
    BY <1>1, <1>2, <1>4, <1>5, PageChanges
  <1>7. SimTurned(p) \in Pages
    BY <1>2, <1>4, <1>5, <1>6, PageChanges
  <1>8. QED
    BY <1>6, <1>7

\* So does its finish.
LEMMA FinishIsTyped ==
    ASSUME NEW p \in Pages
    PROVE  FinishSimulation(p) \in Pages
  <1> DEFINE a == PriceOf(p, p.last["buy"])
             b == PriceOf(p, p.last["sell"])
             e == average(a, b)
  <1>1. /\ p.marketPrice \in Nat /\ p.last["buy"].price \in Nat /\ p.last["sell"].price \in Nat
    BY PageFields, MaybeOrderIs DEF Sides
  <1>2. a \in Nat /\ b \in Nat
    BY <1>1, OrderPriceIsNat DEF PriceOf
  <1>3. e \in Nat
    <2> HIDE DEF a, b
    <2>1. a + b \in Nat
      BY <1>2
    <2>2. QED
      BY <2>1, DivBounds DEF average
  <1>4. FinishSimulation(p) = IF p.matchesAmount > 0 THEN Finished(p, e) ELSE p
    BY DEF FinishSimulation, Finished
  <1> HIDE DEF e
  <1>5. Finished(p, e) \in Pages
    BY <1>3, PageFields, PageChanges
  <1>6. QED
    BY <1>4, <1>5

\* A step of the simulation, from the page memory p.
LEMMA SimulationStepIs ==
    ASSUME NEW p, SimulationStep(p)
    PROVE  /\ taskDone' \in BOOLEAN
           /\ ShouldMatch(p, p.last["buy"], p.last["sell"]) => SimPrice(p) # 0
           /\ ~ShouldMatch(p, p.last["buy"], p.last["sell"]) => taskDone' /\ page' = FinishSimulation(p)
           /\ ShouldMatch(p, p.last["buy"], p.last["sell"]) /\ SimGoesOn(p) => ~taskDone' /\ page' = SimTurned(p)
           /\ ShouldMatch(p, p.last["buy"], p.last["sell"]) /\ ~SimGoesOn(p)
                 => taskDone' /\ page' = FinishSimulation(SimCounted(p))
  BY SimulateIs DEF SimulationStep, SimPrice

\* So do both together.
LEMMA SimulationIsTyped ==
    ASSUME NEW p \in Pages, books \in [Sides -> Lists], SimulationStep(p)
    PROVE  page' \in Pages /\ taskDone' \in BOOLEAN
  <1>1. CASE ~ShouldMatch(p, p.last["buy"], p.last["sell"])
    BY <1>1, SimulationStepIs, FinishIsTyped
  <1>2. CASE ShouldMatch(p, p.last["buy"], p.last["sell"])
    <2>1. p.last["buy"].id # 0 /\ p.last["sell"].id # 0
      BY <1>2 DEF ShouldMatch
    <2>2. SimCounted(p) \in Pages /\ SimTurned(p) \in Pages
      BY <1>2, <2>1, SimulationStepIs, SimulateIsTyped
    <2>3. QED
      BY <1>2, <2>2, SimulationStepIs, FinishIsTyped
  <1>3. QED
    BY <1>1, <1>2

-----------------------------------------------------------------------------

TickTyped ==
    /\ tickStage \in {"RECEIVING_ORDERS", "RUNNING_SIMULATION", "RUNNING_MATCHING", "MOVING_PENDING_ORDERS"}
    /\ taskDone \in BOOLEAN /\ paused \in BOOLEAN /\ disabled \in BOOLEAN
    /\ tick \in Nat /\ filled \in Nat /\ pendingIds \in Nat
    /\ page \in Pages

SolvencyIInv == TickTyped /\ Accounts

\* A page memory that was deleted is one.
LEMMA EmptyPageIs == EmptyPage \in Pages
  <1>1. [side \in Sides |-> NoOrder] \in [Sides -> MaybeOrder]
    BY DEF MaybeOrder
  <1>2. [side \in Sides |-> [t \in OrderTypes |-> 0]] \in [Sides -> [OrderTypes -> Nat]]
    OBVIOUS
  <1>3. QED
    BY <1>1, <1>2 DEF EmptyPage, Pages, MaybeOrder

\* What a step of the moving does to the tick.
LEMMA MoveStepTick ==
    ASSUME MoveStep, TickTyped
    PROVE  /\ tickStage' \in {"MOVING_PENDING_ORDERS", "RECEIVING_ORDERS"} /\ taskDone' = FALSE
           /\ tick' \in Nat /\ filled' \in Nat /\ page' \in Pages
           /\ tickStage' = "MOVING_PENDING_ORDERS" => tick' = tick /\ page' = page /\ filled' = filled
           /\ tickStage' = "RECEIVING_ORDERS" => page' = EmptyPage /\ filled' = 0 /\ queues' = Empty
  BY EmptyPageIs DEF MoveStep, TickTyped

\* What a step of the matching does to the count of orders.
LEMMA MatchStepFilled ==
    ASSUME MatchStep, TickTyped, Accounts
    PROVE  filled' \in Nat /\ taskDone' \in BOOLEAN
  <1>1. CASE page.matchesAmount = 0
    BY <1>1 DEF MatchStep, TickTyped
  <1>2. CASE page.matchesAmount # 0
    <2> DEFINE b == BestBuy
               s == BestSell
               bp == PriceOf(page, b)
               sp == PriceOf(page, s)
               e == page.emergentPrice
               m == Match(b, bp, s, sp, e)
    <2>1. filled' = filled + Cardinality(FilledBy(m.matchType)) /\ CanMatch /\ taskDone' = IsLastMatch(BestBuy, BestSell)
      BY <1>2 DEF MatchStep, MatchBest, FilledBy
    <2>2. b.id # 0 /\ s.id # 0 /\ NoRevert(b, bp, s, sp, e)
      BY <2>1 DEF CanMatch
    <2>3. b \in OrderType /\ s \in OrderType
      <3>1. BuyFront.book \in SideBooks /\ SellFront.book \in SideBooks
        BY FrontsAre, TidyIsSideBook DEF Solvent
      <3>2. QED
        BY <2>2, <3>1, TopIs DEF BestBuy, BestSell
    <2>4. b.amount \in Nat /\ s.amount \in Nat /\ b.price \in Nat /\ s.price \in Nat
      BY <2>3 DEF OrderType
    <2> HIDE DEF b, s
    <2>5. page.marketPrice \in Nat /\ e \in Nat
      BY PageFields DEF TickTyped
    <2>6. bp \in Nat \ {0} /\ sp \in Nat
      BY <2>2, <2>4, <2>5, OrderPriceIsNat DEF PriceOf, NoRevert
    <2> HIDE DEF bp, sp, e
    <2>7. Takes(m, b, s)
      BY <2>4, <2>5, <2>6, MatchTakes
    <2> HIDE DEF m
    <2>8. Cardinality(FilledBy(m.matchType)) \in Nat
      BY <2>7, FilledByIs DEF Takes
    <2>9. filled \in Nat
      BY DEF TickTyped
    <2>10. QED
      BY <2>1, <2>8, <2>9 DEF IsLastMatch
  <1>3. QED
    BY <1>1, <1>2

\* A step of the matching pays what it takes.
LEMMA AccountsMatchStep ==
    ASSUME MatchStep, TickTyped, Accounts, UNCHANGED <<queues, lastOrderId>>
    PROVE  Accounts'
  <1>1. CASE page.matchesAmount = 0
    BY <1>1, AccountsUnchanged DEF MatchStep
  <1>2. CASE page.matchesAmount # 0
    BY <1>2, AccountsMatchBest DEF MatchStep, TickTyped
  <1>3. QED
    BY <1>1, <1>2

\* The invariant holds at the start,
LEMMA InitSolvency == Init => SolvencyIInv
  <1> SUFFICES ASSUME Init PROVE SolvencyIInv
    OBVIOUS
  <1>1. Accounts
    BY AccountsInit
  <1>2. TickTyped
    BY EmptyPageIs DEF Init, TickTyped
  <1>3. QED
    BY <1>1, <1>2 DEF SolvencyIInv

\* is kept by every step,
LEMMA NextSolvency == SolvencyIInv /\ [Next]_vars => SolvencyIInv'
  <1> SUFFICES ASSUME TickTyped, Accounts, [Next]_vars
               PROVE  TickTyped' /\ Accounts'
    BY DEF SolvencyIInv
  <1>0. tick \in Nat /\ page \in Pages /\ books \in [Sides -> Lists]
    BY DEF TickTyped, Accounts, Accounted
  <1>1. CASE Insert
    <2> SUFFICES ASSUME NEW side \in Sides, NEW t \in OrderTypes, NEW amount \in Amounts, NEW lifespan \in Lifespans,
                        NEW price \in PricesOf(t),
                        InsertOrder(side, t, amount, price, lifespan)
                            \/ InsertOrderAsPending(side, t, amount, price, lifespan)
                 PROVE  TickTyped' /\ Accounts'
      BY <1>1 DEF Insert
    <2>1. CASE InsertOrder(side, t, amount, price, lifespan)
      <3>1. Accounts'
        BY <1>0, <2>1, AccountsInsertOrder
      <3>2. TickTyped'
        BY <2>1 DEF InsertOrder, TickTyped, tickVars, governanceVars
      <3>3. QED
        BY <3>1, <3>2
    <2>2. CASE InsertOrderAsPending(side, t, amount, price, lifespan)
      <3>1. Accounts'
        BY <1>0, <2>2, AccountsInsertOrderAsPending
      <3>2. TickTyped'
        BY <2>2 DEF InsertOrderAsPending, TickTyped, tickVars, governanceVars
      <3>3. QED
        BY <3>1, <3>2
    <2>3. QED
      BY <2>1, <2>2
  <1>2. CASE Leave
    <2> SUFFICES ASSUME NEW side \in Sides, NEW t \in OrderTypes,
                        \/ \E order \in In(books[side][t]) : CancelOrder(side, t, order)
                        \/ \E from, to \in DOMAIN books[side][t] : ProcessExpired(side, t, from, to)
                 PROVE  TickTyped' /\ Accounts'
      BY <1>2 DEF Leave
    <2>1. ASSUME NEW order \in In(books[side][t]), CancelOrder(side, t, order)
          PROVE  TickTyped' /\ Accounts'
      <3>1. Accounts'
        BY <2>1, AccountsCancelOrder
      <3>2. TickTyped'
        BY <2>1 DEF CancelOrder, TickTyped, tickVars, governanceVars
      <3>3. QED
        BY <3>1, <3>2
    <2>2. ASSUME NEW from \in DOMAIN books[side][t], NEW to \in DOMAIN books[side][t], ProcessExpired(side, t, from, to)
          PROVE  TickTyped' /\ Accounts'
      <3>1. Accounts'
        BY <2>2, AccountsProcessExpired
      <3>2. TickTyped'
        BY <2>2 DEF ProcessExpired, TickTyped, tickVars, governanceVars
      <3>3. QED
        BY <3>1, <3>2
    <2>3. QED
      BY <2>1, <2>2
  <1>3. ASSUME NEW token \in Sides, WithdrawCommissions(token)
        PROVE  TickTyped' /\ Accounts'
    <2>1. Accounts'
      BY <1>3, AccountsWithdrawCommissions
    <2>2. TickTyped'
      BY <1>3 DEF WithdrawCommissions, TickTyped, tickVars, governanceVars
    <2>3. QED
      BY <2>1, <2>2
  <1>4. ASSUME NEW marketPrice \in MarketPrices, StartTick(marketPrice)
        PROVE  TickTyped' /\ Accounts'
    <2>1. Accounts'
      BY <1>4, AccountsUnchanged DEF StartTick
    <2>2. marketPrice \in Nat
      BY ExchangeAssumption
    <2>3. StartPage(marketPrice) \in Pages
      BY <1>0, <2>2, StartPageIs
    <2>4. page' \in Pages /\ taskDone' \in BOOLEAN
      BY <1>0, <1>4, <2>3, SimulationIsTyped DEF StartTick
    <2>5. TickTyped'
      BY <1>4, <2>4 DEF StartTick, TickTyped, governanceVars
    <2>6. QED
      BY <2>1, <2>5
  <1>5. CASE ContinueSimulation
    <2>1. Accounts'
      BY <1>5, AccountsUnchanged DEF ContinueSimulation
    <2>2. page' \in Pages /\ taskDone' \in BOOLEAN
      BY <1>0, <1>5, SimulationIsTyped DEF ContinueSimulation
    <2>3. TickTyped'
      BY <1>5, <2>2 DEF ContinueSimulation, TickTyped, governanceVars
    <2>4. QED
      BY <2>1, <2>3
  <1>6. CASE StartMatching
    <2>1. Accounts'
      BY <1>6, AccountsMatchStep DEF StartMatching
    <2>2. filled' \in Nat /\ taskDone' \in BOOLEAN
      BY <1>6, MatchStepFilled DEF StartMatching
    <2>3. TickTyped'
      BY <1>6, <2>2 DEF StartMatching, TickTyped, governanceVars
    <2>4. QED
      BY <2>1, <2>3
  <1>7. CASE ContinueMatching
    <2>1. Accounts'
      BY <1>7, AccountsMatchStep DEF ContinueMatching
    <2>2. filled' \in Nat /\ taskDone' \in BOOLEAN
      BY <1>7, MatchStepFilled DEF ContinueMatching
    <2>3. TickTyped'
      BY <1>7, <2>2 DEF ContinueMatching, TickTyped, governanceVars
    <2>4. QED
      BY <2>1, <2>3
  <1>8. CASE StartMoving
    <2>1. Accounts'
      BY <1>8, AccountsMoveStep DEF StartMoving
    <2>2. TickTyped'
      BY <1>8, MoveStepTick DEF StartMoving, TickTyped, governanceVars
    <2>3. QED
      BY <2>1, <2>2
  <1>9. CASE ContinueMoving
    <2>1. Accounts'
      BY <1>9, AccountsMoveStep DEF ContinueMoving
    <2>2. TickTyped'
      BY <1>9, MoveStepTick DEF ContinueMoving, TickTyped, governanceVars
    <2>3. QED
      BY <2>1, <2>2
  <1>10. CASE SetPaused
    <2>1. Accounts'
      BY <1>10, AccountsUnchanged DEF SetPaused
    <2>2. TickTyped'
      BY <1>10 DEF SetPaused, TickTyped, tickVars
    <2>3. QED
      BY <2>1, <2>2
  <1>11. CASE SetDisabled
    <2>1. Accounts'
      BY <1>11, AccountsUnchanged DEF SetDisabled
    <2>2. TickTyped'
      BY <1>11 DEF SetDisabled, TickTyped, tickVars
    <2>3. QED
      BY <2>1, <2>2
  <1>12. CASE UNCHANGED vars
    <2>1. Accounts'
      BY <1>12, AccountsUnchanged DEF vars
    <2>2. TickTyped'
      BY <1>12 DEF vars, TickTyped, tickVars, governanceVars
    <2>3. QED
      BY <2>1, <2>2
  <1>13. QED
    BY <1>1, <1>2, <1>3, <1>4, <1>5, <1>6, <1>7, <1>8, <1>9, <1>10, <1>11, <1>12 DEF Next, ContinueTick

\* and so always holds.
LEMMA SolvencyInduction == Spec => []SolvencyIInv
  <1>1. Init => SolvencyIInv
    BY InitSolvency
  <1>2. SolvencyIInv /\ [Next]_vars => SolvencyIInv'
    BY NextSolvency
  <1>3. QED
    BY <1>1, <1>2, PTL DEF Spec

\* Every variable has its type.
THEOREM TypeCorrect == Spec => []TypeOK
  <1>1. SolvencyIInv => TypeOK
    <2> SUFFICES ASSUME TickTyped, Accounts PROVE TypeOK
      BY DEF SolvencyIInv
    <2>1. \A side \in Sides, t \in OrderTypes : In(books[side][t]) \union In(queues[side][t]) \subseteq OrderType
      <3> SUFFICES ASSUME NEW side \in Sides, NEW t \in OrderTypes
                   PROVE  In(books[side][t]) \union In(queues[side][t]) \subseteq OrderType
        OBVIOUS
      <3>1. In(books[side][t]) \subseteq OrderType
        BY ListOf DEF Accounts
      <3>2. In(queues[side][t]) \subseteq OrderType
        BY ListOf, AccountedSymmetric DEF Accounts
      <3>3. QED
        BY <3>1, <3>2
    <2>2. lastOrderId \in Nat
      BY ExchangeAssumption DEF Accounts, Accounted
    <2>3. balance \in [Sides -> Nat] /\ charged \in [Sides -> Nat] /\ stranded \in [Sides -> Nat]
      BY DEF Accounts, Accounted, Ledger, Ledgers
    <2>4. page.last \in [Sides -> OrderType \union {NoOrder}]
      BY DEF TickTyped, Pages
    <2>5. QED
      BY <2>1, <2>2, <2>3, <2>4 DEF TypeOK, TickTyped
  <1>2. QED
    BY <1>1, SolvencyInduction, PTL

\* No match, refund, rounding or failed transfer makes or loses a token.
THEOREM TokensAreConserved == Spec => []Solvency
  <1>1. SolvencyIInv => Solvency
    <2> SUFFICES ASSUME Accounts, NEW side \in Sides
                 PROVE  balance[side] = Held(side) + charged[side] + stranded[side]
      BY DEF SolvencyIInv, Solvency
    <2>1. Solvent(books[side], queues[side], Net(Ledger, side))
      BY DEF Accounts, Accounted
    <2>2. Net(Ledger, side) = Held(side)
      BY <2>1 DEF Solvent, Held, OrdersOf
    <2>3. balance \in [Sides -> Nat] /\ charged \in [Sides -> Nat] /\ stranded \in [Sides -> Nat]
      BY DEF Accounts, Accounted, Ledger, Ledgers
    <2>4. Net(Ledger, side) = balance[side] - charged[side] - stranded[side]
      BY DEF Net, Ledger
    <2>5. QED
      BY <2>2, <2>3, <2>4
  <1>2. QED
    BY <1>1, SolvencyInduction, PTL

-----------------------------------------------------------------------------
(* Which order goes first. *)

\* Order o goes before order r in a book of their side and type.
Ahead(side, o, r) ==
    \/ Before(Descending(side), o.price, r.price)
    \/ o.price = r.price /\ o.id < r.id

\* Price p suits the other side at least as well as price q.
AtLeast(side, p, q) == p = q \/ Before(Descending(side), p, q)

\* Orders with different ids are in one order, and only in one.
LEMMA AheadIsAnOrder ==
    ASSUME NEW side \in Sides, NEW o \in OrderType, NEW r \in OrderType
    PROVE  /\ ~Ahead(side, o, o)
           /\ Ahead(side, o, r) => ~Ahead(side, r, o) /\ o # r
           /\ o.id # r.id => Ahead(side, o, r) \/ Ahead(side, r, o)
           /\ Ahead(side, o, r) => AtLeast(side, o.price, r.price)
  <1>1. o.id \in Nat /\ o.price \in Nat /\ r.id \in Nat /\ r.price \in Nat
    BY MaybeOrderIs DEF MaybeOrder
  <1>2. CASE side = "buy"
    BY <1>1, <1>2 DEF Ahead, AtLeast, Before, Descending
  <1>3. CASE side = "sell"
    BY <1>1, <1>3 DEF Ahead, AtLeast, Before, Descending
  <1> QED
    BY <1>2, <1>3 DEF Sides

\* Going before is transitive.
LEMMA AheadIsTransitive ==
    ASSUME NEW side \in Sides, NEW o \in OrderType, NEW r \in OrderType, NEW q \in OrderType,
           Ahead(side, o, r), Ahead(side, r, q)
    PROVE  Ahead(side, o, q)
  <1>1. /\ o.id \in Nat /\ o.price \in Nat /\ r.id \in Nat /\ r.price \in Nat
        /\ q.id \in Nat /\ q.price \in Nat
    BY MaybeOrderIs DEF MaybeOrder
  <1>2. CASE side = "buy"
    BY <1>1, <1>2 DEF Ahead, Before, Descending
  <1>3. CASE side = "sell"
    BY <1>1, <1>3 DEF Ahead, Before, Descending
  <1> QED
    BY <1>2, <1>3 DEF Sides

\* So is being at least as good.
LEMMA AtLeastIsTransitive ==
    ASSUME NEW side \in Sides, NEW p \in Nat, NEW q \in Nat, NEW r \in Nat
    PROVE  /\ AtLeast(side, p, p)
           /\ AtLeast(side, p, q) /\ AtLeast(side, q, r) => AtLeast(side, p, r)
           /\ AtLeast(side, p, q) <=> IF side = "buy" THEN p >= q ELSE p <= q
           /\ AtLeast(side, p, q) \/ AtLeast(side, q, p)
           /\ AtLeast(side, p, q) /\ AtLeast(side, q, p) => p = q
           /\ ~AtLeast(side, p, q) <=> Before(Descending(side), q, p)
  <1>2. CASE side = "buy"
    BY <1>2 DEF AtLeast, Before, Descending
  <1>3. CASE side = "sell"
    BY <1>3 DEF AtLeast, Before, Descending
  <1> QED
    BY <1>2, <1>3 DEF Sides

\* Order o goes before all the others of S.
IsFirst(side, o, S) == o \in S /\ \A r \in S \ {o} : Ahead(side, o, r)

\* The order that goes before all the others, when there is one.
First(side, S) == IF S = {} THEN NoOrder ELSE CHOOSE o \in S : IsFirst(side, o, S)

OneOfEachId(S) == \A o, r \in S : o.id = r.id => o = r

\* There is one in a finite set of orders.
LEMMA FirstExists ==
    ASSUME NEW side \in Sides, NEW S, IsFiniteSet(S), S \subseteq OrderType, OneOfEachId(S), S # {}
    PROVE  \E o \in S : IsFirst(side, o, S)
  <1> DEFINE Good == {T \in SUBSET S : T # {} => \E o \in T : IsFirst(side, o, T)}
  <1>1. {} \in Good
    OBVIOUS
  <1>2. ASSUME NEW T \in SUBSET S, T # {}, \A x \in T : T \ {x} \in Good
        PROVE  T \in Good
    <2>1. PICK x \in T : TRUE
      BY <1>2
    <2>2. CASE T \ {x} = {}
      BY <2>1, <2>2 DEF IsFirst
    <2>3. CASE T \ {x} # {}
      <3>1. PICK o \in T \ {x} : IsFirst(side, o, T \ {x})
        BY <1>2, <2>1, <2>3
      <3>2. o \in OrderType /\ x \in OrderType /\ o.id # x.id
        BY <2>1, <3>1 DEF OneOfEachId
      <3>3. CASE Ahead(side, o, x)
        BY <2>1, <3>1, <3>3 DEF IsFirst
      <3>4. CASE Ahead(side, x, o)
        <4>1. ASSUME NEW r \in T \ {x} PROVE Ahead(side, x, r)
          <5>1. CASE r = o
            BY <3>4, <5>1
          <5>2. CASE r # o
            <6>1. r \in OrderType /\ Ahead(side, o, r)
              BY <3>1, <5>2 DEF IsFirst
            <6> QED
              BY <3>2, <3>4, <6>1, AheadIsTransitive
          <5> QED
            BY <5>1, <5>2
        <4> QED
          BY <2>1, <4>1 DEF IsFirst
      <3> QED
        BY <3>2, <3>3, <3>4, AheadIsAnOrder
    <2> QED
      BY <2>2, <2>3
  <1> HIDE DEF Good
  <1>3. SUBSET S \subseteq Good
    BY <1>1, <1>2, SubsetInduction
  <1>4. S \in Good
    BY <1>3
  <1> QED
    BY <1>4 DEF Good

\* There is only one.
LEMMA FirstIs ==
    ASSUME NEW side \in Sides, NEW S, S \subseteq OrderType, NEW o, IsFirst(side, o, S)
    PROVE  First(side, S) = o
  <1>1. S # {} /\ o \in S
    BY DEF IsFirst
  <1>2. ASSUME NEW r \in S, IsFirst(side, r, S) PROVE r = o
    <2>1. SUFFICES ASSUME r # o PROVE FALSE
      OBVIOUS
    <2>2. Ahead(side, o, r) /\ Ahead(side, r, o)
      BY <1>1, <1>2, <2>1 DEF IsFirst
    <2> QED
      BY <1>1, <2>2, AheadIsAnOrder
  <1> QED
    BY <1>1, <1>2 DEF First

\* What is first goes before all the others.
LEMMA FirstOfOrders ==
    ASSUME NEW side \in Sides, NEW S, IsFiniteSet(S), S \subseteq OrderType, OneOfEachId(S)
    PROVE  /\ S = {} => First(side, S) = NoOrder
           /\ S # {} => IsFirst(side, First(side, S), S)
  <1>1. CASE S = {}
    BY <1>1 DEF First
  <1>2. CASE S # {}
    <2>1. PICK o \in S : IsFirst(side, o, S)
      BY <1>2, FirstExists
    <2>2. First(side, S) = o
      BY <2>1, FirstIs
    <2> QED
      BY <1>2, <2>1, <2>2
  <1> QED
    BY <1>1, <1>2

\* Of two orders of a type, the one with the better price has the better spot price.
LEMMA PricesKeepTheirOrder ==
    ASSUME NEW side \in Sides, NEW mp \in Nat, NEW o \in OrderType, NEW r \in OrderType,
           o.orderType = r.orderType, AtLeast(side, o.price, r.price)
    PROVE  /\ AtLeast(side, getOrderPrice(mp, o), getOrderPrice(mp, r))
           /\ getOrderPrice(mp, o) \in Nat /\ getOrderPrice(mp, r) \in Nat
  <1>1. o.price \in Nat /\ r.price \in Nat
    BY MaybeOrderIs DEF MaybeOrder
  <1>2. getOrderPrice(mp, o) \in Nat /\ getOrderPrice(mp, r) \in Nat
    BY <1>1, OrderPriceIsNat
  <1>3. ASSUME NEW x \in Nat, NEW y \in Nat, x <= y
        PROVE  marketOrderSpotPrice(mp, x) <= marketOrderSpotPrice(mp, y)
    <2> DEFINE X == x * mp
               Y == y * mp
    <2>1. X \in Nat /\ Y \in Nat /\ X <= Y
      BY <1>3, ProductIsNat, ProductIsMonotonic
    <2> HIDE DEF X, Y
    <2>2. X \div RatePrecision <= Y \div RatePrecision
      BY <2>1, SettlementAssumption, DivIsMonotonic
    <2> QED
      BY <2>2 DEF marketOrderSpotPrice, X, Y
  <1>4. /\ o.price >= r.price => getOrderPrice(mp, o) >= getOrderPrice(mp, r)
        /\ o.price <= r.price => getOrderPrice(mp, o) <= getOrderPrice(mp, r)
    <2> DEFINE so == marketOrderSpotPrice(mp, o.price)
               sr == marketOrderSpotPrice(mp, r.price)
    <2>1. so \in Nat /\ sr \in Nat
      BY <1>1, SpotPriceIsNat
    <2>2. /\ o.price >= r.price => so >= sr
          /\ o.price <= r.price => so <= sr
      BY <1>1, <1>3, <2>1
    <2>3. CASE o.orderType = "LIMIT_ORDER"
      BY <2>3 DEF getOrderPrice
    <2>4. CASE o.orderType # "LIMIT_ORDER"
      BY <2>2, <2>4 DEF getOrderPrice
    <2> QED
      BY <2>3, <2>4
  <1> QED
    BY <1>1, <1>2, <1>4, AtLeastIsTransitive

-----------------------------------------------------------------------------
(* The orders of a side that can be matched, as sets. *)

\* The orders of a side, by type: each id once.
Pool(L) ==
    /\ L = [t \in OrderTypes |-> L[t]]
    /\ \A t \in OrderTypes : L[t] \subseteq OrderType /\ IsFiniteSet(L[t])
    /\ \A t \in OrderTypes : \A o \in L[t] : o.orderType = t
    /\ \A t, u \in OrderTypes : \A o \in L[t], r \in L[u] : o.id = r.id => o = r

\* The most competitive order of a side.
Top(mp, side, L) ==
    mostCompetitiveOrder(mp, side, First(side, L["LIMIT_ORDER"]), First(side, L["MARKET_ORDER"]))

\* The first order of a type.
LEMMA FirstOfPool ==
    ASSUME NEW side \in Sides, NEW L, Pool(L), NEW t \in OrderTypes
    PROVE  /\ L[t] = {} => First(side, L[t]) = NoOrder /\ First(side, L[t]).id = 0
           /\ L[t] # {} => /\ IsFirst(side, First(side, L[t]), L[t]) /\ First(side, L[t]) \in L[t]
                           /\ First(side, L[t]) \in OrderType /\ First(side, L[t]).id # 0
                           /\ First(side, L[t]).orderType = t
           /\ \A o \in L[t] : AtLeast(side, First(side, L[t]).price, o.price)
  <1> DEFINE S == L[t]
  <1>1. S \subseteq OrderType /\ IsFiniteSet(S) /\ OneOfEachId(S) /\ \A o \in S : o.orderType = t
    BY DEF Pool, OneOfEachId
  <1> HIDE DEF S
  <1>2. /\ S = {} => First(side, S) = NoOrder
        /\ S # {} => IsFirst(side, First(side, S), S)
    BY <1>1, FirstOfOrders
  <1>3. S # {} => First(side, S) \in S
    BY <1>2 DEF IsFirst
  <1>4. S # {} => First(side, S) \in OrderType /\ First(side, S).orderType = t
    BY <1>1, <1>3
  <1>5. S # {} => First(side, S).id # 0
    BY <1>4 DEF OrderType, Ids
  <1>6. ASSUME NEW o \in S PROVE AtLeast(side, First(side, S).price, o.price)
    <2>1. S # {} /\ o \in OrderType
      BY <1>1
    <2>2. CASE o = First(side, S)
      BY <2>2 DEF AtLeast
    <2>3. CASE o # First(side, S)
      <3>1. Ahead(side, First(side, S), o)
        BY <1>2, <2>1, <2>3 DEF IsFirst
      <3> QED
        BY <1>4, <2>1, <3>1, AheadIsAnOrder
    <2> QED
      BY <2>2, <2>3
  <1>7. S = {} => First(side, S).id = 0
    BY <1>2, NoOrderIs
  <1> QED
    BY <1>2, <1>3, <1>4, <1>5, <1>6, <1>7 DEF S

\* mostCompetitiveOrder compares the prices at which the orders would be matched.
LEMMA BestIs ==
    ASSUME NEW side \in Sides, NEW mp \in Nat, NEW limit, NEW market,
           limit.id # 0 => limit \in OrderType /\ limit.orderType = "LIMIT_ORDER",
           market.id # 0 => market \in OrderType /\ market.orderType = "MARKET_ORDER"
    PROVE  LET best == mostCompetitiveOrder(mp, side, limit, market)
           IN  /\ market.id = 0 => best = limit
               /\ limit.id = 0 /\ market.id # 0 => best = market
               /\ limit.id # 0 /\ market.id # 0 =>
                      best = IF AtLeast(side, getOrderPrice(mp, limit), getOrderPrice(mp, market)) THEN limit ELSE market
  <1>1. limit.id # 0 => getOrderPrice(mp, limit) = limit.price
    BY DEF getOrderPrice
  <1>2. market.id # 0 => getOrderPrice(mp, market) = marketOrderSpotPrice(mp, market.price)
    BY DEF getOrderPrice
  <1> QED
    BY <1>1, <1>2 DEF mostCompetitiveOrder, AtLeast

\* The top of a pool is one of its orders, and no other has a better price.
LEMMA TopOfPool ==
    ASSUME NEW side \in Sides, NEW mp \in Nat, NEW L, Pool(L), NEW top, top = Top(mp, side, L)
    PROVE  /\ top.id = 0 => top = NoOrder /\ \A t \in OrderTypes : L[t] = {}
           /\ top.id # 0 => /\ top \in OrderType /\ top.orderType \in OrderTypes /\ top \in L[top.orderType]
                            /\ IsFirst(side, top, L[top.orderType])
           /\ \A t \in OrderTypes : \A o \in L[t] :
                  top.id # 0 /\ AtLeast(side, getOrderPrice(mp, top), getOrderPrice(mp, o))
  <1> DEFINE l == First(side, L["LIMIT_ORDER"])
             m == First(side, L["MARKET_ORDER"])
  <1>0. "LIMIT_ORDER" \in OrderTypes /\ "MARKET_ORDER" \in OrderTypes
        /\ \A t \in OrderTypes : t = "LIMIT_ORDER" \/ t = "MARKET_ORDER"
    BY DEF OrderTypes
  <1>1. /\ L["LIMIT_ORDER"] = {} => l = NoOrder /\ l.id = 0
        /\ L["LIMIT_ORDER"] # {} => /\ IsFirst(side, l, L["LIMIT_ORDER"]) /\ l \in L["LIMIT_ORDER"]
                                    /\ l \in OrderType /\ l.id # 0 /\ l.orderType = "LIMIT_ORDER"
        /\ \A o \in L["LIMIT_ORDER"] : AtLeast(side, l.price, o.price)
    BY <1>0, FirstOfPool
  <1>2. /\ L["MARKET_ORDER"] = {} => m = NoOrder /\ m.id = 0
        /\ L["MARKET_ORDER"] # {} => /\ IsFirst(side, m, L["MARKET_ORDER"]) /\ m \in L["MARKET_ORDER"]
                                     /\ m \in OrderType /\ m.id # 0 /\ m.orderType = "MARKET_ORDER"
        /\ \A o \in L["MARKET_ORDER"] : AtLeast(side, m.price, o.price)
    BY <1>0, FirstOfPool
  <1>3. top = mostCompetitiveOrder(mp, side, l, m)
    BY DEF Top
  <1>4. /\ \A o \in L["LIMIT_ORDER"] : o \in OrderType /\ o.orderType = "LIMIT_ORDER"
        /\ \A o \in L["MARKET_ORDER"] : o \in OrderType /\ o.orderType = "MARKET_ORDER"
    BY <1>0 DEF Pool
  <1> HIDE DEF l, m
  <1>5. /\ m.id = 0 => top = l
        /\ l.id = 0 /\ m.id # 0 => top = m
        /\ l.id # 0 /\ m.id # 0 =>
               top = IF AtLeast(side, getOrderPrice(mp, l), getOrderPrice(mp, m)) THEN l ELSE m
    BY <1>1, <1>2, <1>3, BestIs
  <1>6. top.id = 0 => top = NoOrder /\ \A t \in OrderTypes : L[t] = {}
    BY <1>0, <1>1, <1>2, <1>5
  <1>7. top.id # 0 => /\ top \in OrderType /\ top.orderType \in OrderTypes /\ top \in L[top.orderType]
                      /\ IsFirst(side, top, L[top.orderType])
    BY <1>0, <1>1, <1>2, <1>5
  <1>8. ASSUME NEW o \in L["LIMIT_ORDER"]
        PROVE  l.id # 0 /\ AtLeast(side, getOrderPrice(mp, l), getOrderPrice(mp, o)) /\ getOrderPrice(mp, o) \in Nat /\ getOrderPrice(mp, l) \in Nat
    <2>1. l.id # 0 /\ l \in OrderType /\ o \in OrderType /\ o.orderType = l.orderType /\ AtLeast(side, l.price, o.price)
      BY <1>1, <1>4
    <2> QED
      BY <2>1, PricesKeepTheirOrder
  <1>9. ASSUME NEW o \in L["MARKET_ORDER"]
        PROVE  m.id # 0 /\ AtLeast(side, getOrderPrice(mp, m), getOrderPrice(mp, o)) /\ getOrderPrice(mp, o) \in Nat /\ getOrderPrice(mp, m) \in Nat
    <2>1. m.id # 0 /\ m \in OrderType /\ o \in OrderType /\ o.orderType = m.orderType /\ AtLeast(side, m.price, o.price)
      BY <1>2, <1>4
    <2> QED
      BY <2>1, PricesKeepTheirOrder
  <1>10. /\ l.id # 0 => getOrderPrice(mp, l) \in Nat
         /\ m.id # 0 => getOrderPrice(mp, m) \in Nat
    BY <1>1, <1>2, <1>8, <1>9
  <1>11. ASSUME NEW o \in L["LIMIT_ORDER"]
         PROVE  top.id # 0 /\ AtLeast(side, getOrderPrice(mp, top), getOrderPrice(mp, o))
    BY <1>5, <1>8, <1>10, AtLeastIsTransitive
  <1>12. ASSUME NEW o \in L["MARKET_ORDER"]
         PROVE  top.id # 0 /\ AtLeast(side, getOrderPrice(mp, top), getOrderPrice(mp, o))
    BY <1>5, <1>9, <1>10, AtLeastIsTransitive
  <1> QED
    BY <1>0, <1>6, <1>7, <1>11, <1>12

\* A part of a pool.
Part(M, L) == M = [t \in OrderTypes |-> M[t]] /\ \A t \in OrderTypes : M[t] \subseteq L[t]

\* A part of a pool is a pool; if the top is in it, it is still the top.
LEMMA TopOfPart ==
    ASSUME NEW side \in Sides, NEW mp \in Nat, NEW L, Pool(L), NEW M, Part(M, L)
    PROVE  /\ Pool(M)
           /\ (\E t \in OrderTypes : Top(mp, side, L) \in M[t]) => Top(mp, side, M) = Top(mp, side, L)
  <1>0. "LIMIT_ORDER" \in OrderTypes /\ "MARKET_ORDER" \in OrderTypes
        /\ \A t \in OrderTypes : t = "LIMIT_ORDER" \/ t = "MARKET_ORDER"
    BY DEF OrderTypes
  <1>1. Pool(M)
    <2>1. \A t \in OrderTypes : M[t] \subseteq OrderType /\ IsFiniteSet(M[t])
      BY FS_Subset DEF Pool, Part
    <2> QED
      BY <2>1 DEF Pool, Part
  <1>2. ASSUME NEW u \in OrderTypes, Top(mp, side, L) \in M[u]
        PROVE  Top(mp, side, M) = Top(mp, side, L)
    <2> DEFINE top == Top(mp, side, L)
               l == First(side, M["LIMIT_ORDER"])
               m == First(side, M["MARKET_ORDER"])
    <2>1. top \in L[u] /\ top \in OrderType /\ top.orderType = u
      BY <1>2 DEF Pool, Part
    <2>2. top.id # 0
      BY <2>1 DEF OrderType, Ids
    <2>3. /\ IsFirst(side, top, L[u])
          /\ \A t \in OrderTypes : \A o \in L[t] : AtLeast(side, getOrderPrice(mp, top), getOrderPrice(mp, o))
      BY <2>1, <2>2, TopOfPool
    <2>4. IsFirst(side, top, M[u])
      BY <1>2, <2>3 DEF IsFirst, Part
    <2>5. M[u] \subseteq OrderType
      BY <1>1 DEF Pool
    <2>6. First(side, M[u]) = top
      BY <2>4, <2>5, FirstIs
    <2>7. /\ M["LIMIT_ORDER"] = {} => l.id = 0
          /\ M["LIMIT_ORDER"] # {} => l \in M["LIMIT_ORDER"] /\ l \in OrderType /\ l.id # 0 /\ l.orderType = "LIMIT_ORDER"
          /\ M["MARKET_ORDER"] = {} => m.id = 0
          /\ M["MARKET_ORDER"] # {} => m \in M["MARKET_ORDER"] /\ m \in OrderType /\ m.id # 0 /\ m.orderType = "MARKET_ORDER"
      BY <1>0, <1>1, FirstOfPool
    <2>8. Top(mp, side, M) = mostCompetitiveOrder(mp, side, l, m)
      BY DEF Top
    <2>9. Top(mp, side, L) = mostCompetitiveOrder(mp, side, First(side, L["LIMIT_ORDER"]), First(side, L["MARKET_ORDER"]))
      BY DEF Top
    <2>10. /\ L["LIMIT_ORDER"] = {} => First(side, L["LIMIT_ORDER"]).id = 0
           /\ L["LIMIT_ORDER"] # {} => /\ First(side, L["LIMIT_ORDER"]) \in L["LIMIT_ORDER"]
                                       /\ First(side, L["LIMIT_ORDER"]) \in OrderType
                                       /\ First(side, L["LIMIT_ORDER"]).id # 0
                                       /\ First(side, L["LIMIT_ORDER"]).orderType = "LIMIT_ORDER"
           /\ \A o \in L["LIMIT_ORDER"] : AtLeast(side, First(side, L["LIMIT_ORDER"]).price, o.price)
           /\ L["MARKET_ORDER"] = {} => First(side, L["MARKET_ORDER"]).id = 0
           /\ L["MARKET_ORDER"] # {} => /\ First(side, L["MARKET_ORDER"]) \in L["MARKET_ORDER"]
                                       /\ First(side, L["MARKET_ORDER"]) \in OrderType
                                       /\ First(side, L["MARKET_ORDER"]).id # 0
                                       /\ First(side, L["MARKET_ORDER"]).orderType = "MARKET_ORDER"
      BY <1>0, FirstOfPool
    <2> DEFINE l0 == First(side, L["LIMIT_ORDER"])
               m0 == First(side, L["MARKET_ORDER"])
    <2>11. /\ M["LIMIT_ORDER"] \subseteq L["LIMIT_ORDER"]
           /\ M["MARKET_ORDER"] \subseteq L["MARKET_ORDER"]
      BY <1>0 DEF Part
    <2>12. CASE u = "LIMIT_ORDER"
      <3>1. l = top /\ l.id # 0
        BY <2>2, <2>6, <2>12
      <3>2. CASE m.id = 0
        BY <2>7, <2>8, <3>1, <3>2, BestIs
      <3>3. CASE m.id # 0
        <4>1. AtLeast(side, getOrderPrice(mp, l), getOrderPrice(mp, m))
          BY <1>0, <2>3, <2>7, <2>11, <3>1, <3>3
        <4> QED
          BY <2>7, <2>8, <3>1, <3>3, <4>1, BestIs
      <3> QED
        BY <3>2, <3>3
    <2>13. CASE u = "MARKET_ORDER"
      <3>1. m = top /\ m.id # 0
        BY <2>2, <2>6, <2>13
      <3>2. CASE l.id = 0
        BY <2>7, <2>8, <3>1, <3>2, BestIs
      <3>3. CASE l.id # 0
        <4>1. l \in L["LIMIT_ORDER"] /\ l0 \in L["LIMIT_ORDER"] /\ l0.id # 0 /\ l0 \in OrderType /\ l \in OrderType
              /\ l0.orderType = "LIMIT_ORDER" /\ l.orderType = "LIMIT_ORDER"
          BY <2>7, <2>10, <2>11, <3>3
        <4>2. m0.id # 0 /\ m0 \in OrderType /\ m0.orderType = "MARKET_ORDER"
          BY <2>1, <2>10, <2>13
        <4>3. top = IF AtLeast(side, getOrderPrice(mp, l0), getOrderPrice(mp, m0)) THEN l0 ELSE m0
          BY <2>9, <4>1, <4>2, BestIs
        <4>4. top = m0 /\ ~AtLeast(side, getOrderPrice(mp, l0), getOrderPrice(mp, top))
          BY <2>1, <2>13, <4>1, <4>3
        <4>5. AtLeast(side, l0.price, l.price)
          BY <2>10, <4>1
        <4>6. AtLeast(side, getOrderPrice(mp, l0), getOrderPrice(mp, l))
              /\ getOrderPrice(mp, l0) \in Nat /\ getOrderPrice(mp, l) \in Nat
          BY <4>1, <4>5, PricesKeepTheirOrder
        <4>7. getOrderPrice(mp, top) \in Nat
          BY <2>1, MaybeOrderIs, OrderPriceIsNat DEF MaybeOrder
        <4>8. ~AtLeast(side, getOrderPrice(mp, l), getOrderPrice(mp, m))
          BY <3>1, <4>4, <4>6, <4>7, AtLeastIsTransitive
        <4> QED
          BY <2>7, <2>8, <3>1, <3>3, <4>8, BestIs
      <3> QED
        BY <3>2, <3>3
    <2> QED
      BY <1>0, <2>12, <2>13
  <1> QED
    BY <1>1, <1>2

-----------------------------------------------------------------------------
(* What a match leaves. *)

\* The same order, up to the amount and the commission left in it.
Same(o, r) == o.id = r.id /\ o.orderType = r.orderType /\ o.price = r.price

\* The orders L of a side when their top is filled, or is left with less: "rest".
SideAfter(L, top, isFilled, rest) ==
    [t \in OrderTypes |-> IF t # top.orderType THEN L[t]
                          ELSE (L[t] \ {top}) \union (IF isFilled THEN {} ELSE {rest})]

IdsIn(L) == {o.id : o \in UNION {L[t] : t \in OrderTypes}}

\* They are a pool, without the id of an order that is filled.
LEMMA SideAfterIs ==
    ASSUME NEW L, Pool(L), NEW top \in OrderType, top \in L[top.orderType],
           NEW isFilled \in BOOLEAN, NEW rest, ~isFilled => rest \in OrderType /\ Same(rest, top)
    PROVE  /\ Pool(SideAfter(L, top, isFilled, rest))
           /\ IdsIn(SideAfter(L, top, isFilled, rest)) \subseteq IdsIn(L)
           /\ isFilled => top.id \notin IdsIn(SideAfter(L, top, isFilled, rest))
           /\ \A t \in OrderTypes : \A o \in SideAfter(L, top, isFilled, rest)[t] :
                  \E r \in L[t] : Same(o, r)
  <1> DEFINE M == SideAfter(L, top, isFilled, rest)
             u == top.orderType
             D == {rest}
  <1>1. u \in OrderTypes
    BY DEF OrderType
  <1>2. /\ M = [t \in OrderTypes |-> M[t]]
        /\ \A t \in OrderTypes : t # u => M[t] = L[t]
        /\ isFilled => M[u] = L[u] \ {top}
        /\ ~isFilled => M[u] = (L[u] \ {top}) \union D
    BY <1>1 DEF SideAfter
  <1>3. IsFiniteSet(D) /\ \A x : x \in D <=> x = rest
    BY FS_Singleton
  <1>4. \A t \in OrderTypes : L[t] \subseteq OrderType /\ IsFiniteSet(L[t]) /\ \A o \in L[t] : o.orderType = t
    BY DEF Pool
  <1>5. \A t, v \in OrderTypes : \A o \in L[t], r \in L[v] : o.id = r.id => o = r
    BY DEF Pool
  <1>6. IsFiniteSet(L[u] \ {top})
    BY <1>1, <1>4, FS_Subset
  <1>7. IsFiniteSet((L[u] \ {top}) \union D)
    BY <1>3, <1>6, FS_Union
  <1> HIDE DEF M, D
  <1>8. \A t \in OrderTypes : \A o \in M[t] : (o \in L[t] /\ (t = u => o # top)) \/ (t = u /\ ~isFilled /\ o = rest)
    BY <1>2, <1>3
  <1>9. \A t \in OrderTypes : M[t] \subseteq OrderType /\ IsFiniteSet(M[t])
    <2> SUFFICES ASSUME NEW t \in OrderTypes PROVE M[t] \subseteq OrderType /\ IsFiniteSet(M[t])
      OBVIOUS
    <2>1. M[t] \subseteq OrderType
      BY <1>4, <1>8
    <2>2. CASE t # u
      BY <1>2, <1>4, <2>1, <2>2
    <2>3. CASE t = u
      BY <1>2, <1>6, <1>7, <2>1, <2>3
    <2> QED
      BY <2>2, <2>3
  <1>10. \A t \in OrderTypes : \A o \in M[t] : o.orderType = t
    BY <1>4, <1>8 DEF Same
  <1>11. \A t \in OrderTypes : \A o \in M[t] : \E r \in L[t] : Same(o, r)
    <2> SUFFICES ASSUME NEW t \in OrderTypes, NEW o \in M[t] PROVE \E r \in L[t] : Same(o, r)
      OBVIOUS
    <2>1. CASE o \in L[t]
      BY <2>1 DEF Same
    <2>2. CASE o \notin L[t]
      BY <1>8, <2>2
    <2> QED
      BY <2>1, <2>2
  <1>12. ASSUME NEW t \in OrderTypes, NEW v \in OrderTypes, NEW o \in M[t], NEW r \in M[v], o.id = r.id
         PROVE  o = r
    <2>1. CASE o \in L[t] /\ (t = u => o # top) /\ r \in L[v] /\ (v = u => r # top)
      BY <1>5, <1>12, <2>1
    <2>2. CASE t = u /\ ~isFilled /\ o = rest /\ v = u /\ r = rest
      BY <2>2
    <2>3. CASE t = u /\ ~isFilled /\ o = rest /\ r \in L[v] /\ (v = u => r # top)
      <3>1. r.id = top.id /\ top \in L[u]
        BY <1>12, <2>3 DEF Same
      <3>2. r = top
        BY <1>1, <1>5, <2>3, <3>1
      <3>3. r.orderType = v
        BY <1>4, <2>3
      <3> QED
        BY <2>3, <3>2, <3>3
    <2>4. CASE v = u /\ ~isFilled /\ r = rest /\ o \in L[t] /\ (t = u => o # top)
      <3>1. o.id = top.id /\ top \in L[u]
        BY <1>12, <2>4 DEF Same
      <3>2. o = top
        BY <1>1, <1>5, <2>4, <3>1
      <3>3. o.orderType = t
        BY <1>4, <2>4
      <3> QED
        BY <2>4, <3>2, <3>3
    <2> QED
      BY <1>8, <2>1, <2>2, <2>3, <2>4
  <1>13. Pool(M)
    BY <1>2, <1>9, <1>10, <1>12 DEF Pool
  <1>14. IdsIn(M) \subseteq IdsIn(L)
    <2> SUFFICES ASSUME NEW t \in OrderTypes, NEW o \in M[t] PROVE o.id \in IdsIn(L)
      BY DEF IdsIn
    <2>1. PICK r \in L[t] : Same(o, r)
      BY <1>11
    <2> QED
      BY <2>1 DEF Same, IdsIn
  <1>15. ASSUME isFilled PROVE top.id \notin IdsIn(M)
    <2> SUFFICES ASSUME NEW t \in OrderTypes, NEW o \in M[t], o.id = top.id PROVE FALSE
      BY DEF IdsIn
    <2>1. o \in L[t] /\ (t = u => o # top)
      BY <1>8, <1>15
    <2>2. o = top /\ o.orderType = t
      BY <1>1, <1>4, <1>5, <2>1
    <2> QED
      BY <2>1, <2>2
  <1> QED
    BY <1>11, <1>13, <1>14, <1>15 DEF M

\* The price at which an order would be matched does not depend on what is left of it.
LEMMA SamePrice ==
    ASSUME NEW mp, NEW o, NEW r, Same(o, r)
    PROVE  getOrderPrice(mp, o) = getOrderPrice(mp, r)
  BY DEF Same, getOrderPrice

\* What is left of the top is still the top.
LEMMA RestIsTop ==
    ASSUME NEW side \in Sides, NEW mp \in Nat, NEW L, Pool(L), NEW top, top = Top(mp, side, L), top.id # 0,
           NEW rest \in OrderType, Same(rest, top)
    PROVE  Top(mp, side, SideAfter(L, top, FALSE, rest)) = rest
  <1> DEFINE M == SideAfter(L, top, FALSE, rest)
             u == top.orderType
             D == {rest}
  <1>1. top \in OrderType /\ u \in OrderTypes /\ top \in L[u] /\ IsFirst(side, top, L[u])
    BY TopOfPool
  <1>2. /\ M = [t \in OrderTypes |-> M[t]]
        /\ \A t \in OrderTypes : t # u => M[t] = L[t]
        /\ M[u] = (L[u] \ {top}) \union D
    BY <1>1 DEF SideAfter
  <1>3. Pool(M)
    BY <1>1, SideAfterIs
  <1> HIDE DEF M
  <1>4. IsFirst(side, rest, M[u])
    <2>1. rest \in M[u]
      BY <1>2
    <2>2. ASSUME NEW r \in M[u] \ {rest} PROVE Ahead(side, rest, r)
      <3>1. r \in L[u] \ {top}
        BY <1>2
      <3>2. Ahead(side, top, r)
        BY <1>1, <3>1 DEF IsFirst
      <3> QED
        BY <3>2 DEF Ahead, Same
    <2> QED
      BY <2>1, <2>2 DEF IsFirst
  <1>5. First(side, M[u]) = rest
    BY <1>1, <1>3, <1>4, FirstIs DEF Pool
  <1>6. First(side, L[u]) = top
    BY <1>1, FirstIs DEF Pool
  <1>7. \A t \in OrderTypes : t # u => First(side, M[t]) = First(side, L[t])
    BY <1>2
  <1>8. getOrderPrice(mp, rest) = getOrderPrice(mp, top) /\ rest.id # 0 /\ rest.orderType = u /\ top.orderType = u
    BY SamePrice DEF Same
  <1>0. "LIMIT_ORDER" \in OrderTypes /\ "MARKET_ORDER" \in OrderTypes
        /\ \A t \in OrderTypes : t = "LIMIT_ORDER" \/ t = "MARKET_ORDER"
    BY DEF OrderTypes
  <1> DEFINE l == First(side, L["LIMIT_ORDER"])
             m == First(side, L["MARKET_ORDER"])
  <1>9. top = mostCompetitiveOrder(mp, side, l, m)
    BY DEF Top
  <1>10. /\ l.id # 0 => l \in OrderType /\ l.orderType = "LIMIT_ORDER"
         /\ m.id # 0 => m \in OrderType /\ m.orderType = "MARKET_ORDER"
    BY <1>0, FirstOfPool
  <1> HIDE DEF l, m
  <1>11. CASE u = "LIMIT_ORDER"
    <2>1. Top(mp, side, M) = mostCompetitiveOrder(mp, side, rest, m)
      BY <1>0, <1>5, <1>7, <1>11 DEF Top, m
    <2>2. l = top
      BY <1>6, <1>11 DEF l
    <2>3. m.id # 0 => AtLeast(side, getOrderPrice(mp, top), getOrderPrice(mp, m))
      <3> SUFFICES ASSUME m.id # 0 PROVE AtLeast(side, getOrderPrice(mp, top), getOrderPrice(mp, m))
        OBVIOUS
      <3>1. m \in L["MARKET_ORDER"]
        BY <1>0, FirstOfPool DEF m
      <3> QED
        BY <1>0, <3>1, TopOfPool
    <2>4. rest.orderType = "LIMIT_ORDER"
      BY <1>8, <1>11
    <2> QED
      BY <1>8, <1>10, <2>1, <2>3, <2>4, BestIs DEF M
  <1>12. CASE u = "MARKET_ORDER"
    <2>1. Top(mp, side, M) = mostCompetitiveOrder(mp, side, l, rest)
      BY <1>0, <1>5, <1>7, <1>12 DEF Top, l
    <2>2. m = top
      BY <1>6, <1>12 DEF m
    <2>3. rest.orderType = "MARKET_ORDER" /\ top.orderType = "MARKET_ORDER"
      BY <1>8, <1>12
    <2>4. CASE l.id = 0
      BY <1>8, <1>10, <2>1, <2>3, <2>4, BestIs DEF M
    <2>5. CASE l.id # 0
      <3>1. top = IF AtLeast(side, getOrderPrice(mp, l), getOrderPrice(mp, m)) THEN l ELSE m
        BY <1>9, <1>10, <2>2, <2>5, BestIs
      <3>2. ~AtLeast(side, getOrderPrice(mp, l), getOrderPrice(mp, rest))
        BY <1>8, <1>10, <2>2, <2>3, <2>5, <3>1
      <3> QED
        BY <1>8, <1>10, <2>1, <2>3, <2>5, <3>2, BestIs DEF M
    <2> QED
      BY <2>4, <2>5
  <1> QED
    BY <1>0, <1>1, <1>11, <1>12 DEF M

\* An order that a match does not fill is left with something.
LEMMA IntentsLeaveSome ==
    ASSUME NEW a \in Nat, NEW s \in Nat, NEW bp \in Nat \ {0}
    PROVE  LET i == compareIntents(a, bp, s)
           IN  /\ i.matchType = "SELLER_FILL" => convertToBase(i.limitingAmount, bp) < a
               /\ i.matchType = "BUYER_FILL" => i.limitingAmount < s
  <1> DEFINE apx == a * PricePrecision
             intent == apx \div bp
             sb == s * bp
             i == compareIntents(a, bp, s)
  <1>1. PricePrecision \in Nat \ {0}
    BY SettlementAssumption
  <1>2. apx \in Nat /\ sb \in Nat
    BY <1>1, ProductIsNat
  <1>3. intent \in Nat /\ intent * bp <= apx
    <2> HIDE DEF apx
    <2> QED
      BY <1>2, DivBounds
  <1>4. /\ i.matchType = "BUYER_FILL" <=> s > intent
        /\ i.matchType = "SELLER_FILL" <=> s < intent
        /\ i.limitingAmount = IF s > intent THEN intent ELSE s
    <2> HIDE DEF intent
    <2>1. i = [limitingAmount |-> IF s > intent THEN intent ELSE s,
         matchType      |-> IF s > intent THEN "BUYER_FILL"
                            ELSE IF s < intent THEN "SELLER_FILL"
                            ELSE "DOUBLE_FILL"]
      BY DEF compareIntents, intent
    <2> QED
      BY <1>3, <2>1
  <1>5. i.matchType = "BUYER_FILL" => i.limitingAmount < s
    BY <1>3, <1>4
  <1>6. ASSUME i.matchType = "SELLER_FILL" PROVE convertToBase(i.limitingAmount, bp) < a
    <2>1. i.limitingAmount = s /\ s + 1 <= intent
      BY <1>3, <1>4, <1>6
    <2>2. (s + 1) * bp <= intent * bp
      <3> HIDE DEF intent
      <3> QED
        BY <1>3, <2>1, ProductIsMonotonic
    <2>3. (s + 1) * bp = sb + bp
      BY Distributes
    <2> DEFINE ib == intent * bp
               q == sb \div PricePrecision
    <2>4. ib \in Nat
      <3> HIDE DEF intent
      <3> QED
        BY <1>3, ProductIsNat
    <2>5. sb < apx
      <3>1. sb + bp <= ib /\ ib <= apx
        BY <1>3, <2>2, <2>3
      <3> HIDE DEF sb, ib, apx
      <3> QED
        BY <1>2, <2>4, <3>1
    <2>6. q \in Nat /\ q * PricePrecision <= sb
      <3> HIDE DEF sb
      <3> QED
        BY <1>1, <1>2, DivBounds
    <2>7. q * PricePrecision < a * PricePrecision
      <3> DEFINE qp == q * PricePrecision
      <3>1. qp \in Nat
        <4> HIDE DEF q
        <4> QED
          BY <1>1, <2>6, ProductIsNat
      <3>2. qp <= sb
        BY <2>6
      <3> HIDE DEF qp, sb, apx
      <3>3. qp < apx
        BY <1>2, <2>5, <3>1, <3>2
      <3> QED
        BY <3>3 DEF qp, apx
    <2>8. q < a
      <3> HIDE DEF q
      <3> QED
        BY <1>1, <2>6, <2>7, Cancel
    <2> QED
      BY <2>1, <2>8 DEF convertToBase
  <1> QED
    BY <1>5, <1>6

-----------------------------------------------------------------------------
(* The matches of a tick, one after the other. *)

(* A moment of the matching is a record: "left", the orders of each side that are
   not filled, and "filled", how many orders are. *)

TopAt(mp, x, side) == Top(mp, side, x.left[side])

Bid(mp, x) == getOrderPrice(mp, TopAt(mp, x, "buy"))
Ask(mp, x) == getOrderPrice(mp, TopAt(mp, x, "sell"))

\* The two tops match.
Meet(mp, x) == TopAt(mp, x, "buy").id # 0 /\ TopAt(mp, x, "sell").id # 0 /\ Bid(mp, x) >= Ask(mp, x)

Intents(mp, x) == compareIntents(TopAt(mp, x, "buy").amount, Bid(mp, x), TopAt(mp, x, "sell").amount)

Fills(mp, x) == FilledBy(Intents(mp, x).matchType)

Spent(mp, x, side) ==
    IF side = "buy" THEN convertToBase(Intents(mp, x).limitingAmount, Bid(mp, x)) ELSE Intents(mp, x).limitingAmount

Rest(mp, x, side) == subtractAmount(TopAt(mp, x, side), Spent(mp, x, side))

LeftAfter(mp, x, side) == SideAfter(x.left[side], TopAt(mp, x, side), side \in Fills(mp, x), Rest(mp, x, side))

\* The moment after the match of the two tops.
After(mp, x) ==
    [left |-> [side \in Sides |-> LeftAfter(mp, x, side)], filled |-> x.filled + Cardinality(Fills(mp, x))]

IsMoment(x) == x.filled \in Nat /\ \A side \in Sides : Pool(x.left[side])

\* A partial match leaves an order of the same price and id, with something in it.
LEMMA RestIs ==
    ASSUME NEW mp \in Nat, NEW x, IsMoment(x), Meet(mp, x), Bid(mp, x) # 0
    PROVE  /\ \A side \in Sides : TopAt(mp, x, side) \in OrderType
           /\ Intents(mp, x).matchType \in {"DOUBLE_FILL", "BUYER_FILL", "SELLER_FILL"}
           /\ \A side \in Sides \ Fills(mp, x) :
                  /\ Rest(mp, x, side) \in OrderType /\ Same(Rest(mp, x, side), TopAt(mp, x, side))
                  /\ Rest(mp, x, side).expiresInTick = TopAt(mp, x, side).expiresInTick
                  /\ Rest(mp, x, side).amount = TopAt(mp, x, side).amount - Spent(mp, x, side)
                  /\ Rest(mp, x, side).amount # 0
  <1> DEFINE b == TopAt(mp, x, "buy")
             s == TopAt(mp, x, "sell")
             bp == Bid(mp, x)
             i == compareIntents(b.amount, bp, s.amount)
  <1>1. "buy" \in Sides /\ "sell" \in Sides /\ \A side \in Sides : side = "buy" \/ side = "sell"
    BY DEF Sides
  <1>2. \A side \in Sides : TopAt(mp, x, side).id # 0
    BY <1>1 DEF Meet
  <1>3. \A side \in Sides : TopAt(mp, x, side) \in OrderType
    BY <1>2, TopOfPool DEF TopAt, IsMoment
  <1>4. b \in OrderType /\ s \in OrderType
    BY <1>1, <1>3
  <1>5. b.amount \in Nat /\ b.commission \in Nat /\ s.amount \in Nat /\ s.commission \in Nat /\ b.price \in Nat
    BY <1>4, MaybeOrderIs DEF MaybeOrder
  <1>6. bp \in Nat \ {0}
    BY <1>5, OrderPriceIsNat DEF Bid
  <1> HIDE DEF bp
  <1>7. /\ i.limitingAmount \in 0 .. s.amount
        /\ convertToBase(i.limitingAmount, bp) \in 0 .. b.amount
        /\ i.matchType \in {"DOUBLE_FILL", "BUYER_FILL", "SELLER_FILL"}
        /\ i.matchType = "SELLER_FILL" => convertToBase(i.limitingAmount, bp) < b.amount
        /\ i.matchType = "BUYER_FILL" => i.limitingAmount < s.amount
    BY <1>5, <1>6, IntentsTake, IntentsLeaveSome
  <1>8. Intents(mp, x) = i
    BY DEF Intents, bp
  <1>9. ASSUME NEW side \in Sides, side \notin Fills(mp, x)
        PROVE  Spent(mp, x, side) \in Nat /\ Spent(mp, x, side) < TopAt(mp, x, side).amount
    <2>1. CASE side = "buy"
      <3>1. i.matchType = "SELLER_FILL"
        BY <1>7, <1>8, <1>9, <2>1 DEF Fills, FilledBy, Sides
      <3> HIDE DEF i
      <3> QED
        BY <1>5, <1>7, <1>8, <2>1, <3>1 DEF Spent, bp
    <2>2. CASE side = "sell"
      <3>1. i.matchType = "BUYER_FILL"
        BY <1>7, <1>8, <1>9, <2>2 DEF Fills, FilledBy, Sides
      <3> HIDE DEF i
      <3> QED
        BY <1>5, <1>7, <1>8, <2>2, <3>1 DEF Spent, bp
    <2> QED
      BY <1>1, <2>1, <2>2
  <1>10. ASSUME NEW side \in Sides, side \notin Fills(mp, x)
         PROVE  /\ Rest(mp, x, side) \in OrderType /\ Same(Rest(mp, x, side), TopAt(mp, x, side))
                /\ Rest(mp, x, side).expiresInTick = TopAt(mp, x, side).expiresInTick
                /\ Rest(mp, x, side).amount = TopAt(mp, x, side).amount - Spent(mp, x, side)
                /\ Rest(mp, x, side).amount # 0
    <2> DEFINE o == TopAt(mp, x, side)
               sent == Spent(mp, x, side)
    <2>1. o \in OrderType
      BY <1>3
    <2>2. sent \in Nat /\ sent < o.amount /\ o.amount \in Nat /\ o.commission \in Nat
      <3>1. sent \in Nat /\ sent < o.amount
        BY <1>9, <1>10
      <3>2. o \in MaybeOrder
        BY <2>1 DEF MaybeOrder
      <3> HIDE DEF o
      <3>3. o.amount \in Nat /\ o.commission \in Nat
        BY <3>2, MaybeOrderIs
      <3> QED
        BY <3>1, <3>3
    <2> HIDE DEF o, sent
    <2>3. CommissionFor(o, sent) \in Nat /\ CommissionFor(o, sent) <= o.commission
      BY <2>2, CommissionForBounds
    <2>4. o.amount - sent \in Nat /\ o.amount - sent # 0 /\ o.commission - CommissionFor(o, sent) \in Nat
      BY <2>2, <2>3
    <2> DEFINE r == subtractAmount(o, sent)
    <2>5. /\ r \in OrderType /\ r.id = o.id /\ r.orderType = o.orderType /\ r.price = o.price
          /\ r.expiresInTick = o.expiresInTick /\ r.amount = o.amount - sent
      BY <2>1, <2>4 DEF subtractAmount, OrderType
    <2> HIDE DEF r
    <2>6. Rest(mp, x, side) = r
      BY DEF Rest, r, o, sent
    <2> QED
      BY <2>4, <2>5, <2>6 DEF Same, o, sent
  <1> QED
    BY <1>3, <1>7, <1>8, <1>10

\* The match of the two tops.
LEMMA AfterIs ==
    ASSUME NEW mp \in Nat, NEW x, IsMoment(x), Meet(mp, x), Bid(mp, x) # 0
    PROVE  /\ IsMoment(After(mp, x))
           /\ After(mp, x).filled > 0
           /\ \A side \in Sides : IdsIn(After(mp, x).left[side]) \subseteq IdsIn(x.left[side])
           /\ \E side \in Sides : TopAt(mp, x, side).id \notin IdsIn(After(mp, x).left[side])
           /\ \A side \in Sides \ Fills(mp, x) : TopAt(mp, After(mp, x), side) = Rest(mp, x, side)
           /\ \A side \in Sides : TopAt(mp, After(mp, x), side).id # 0 =>
                  AtLeast(side, getOrderPrice(mp, TopAt(mp, x, side)), getOrderPrice(mp, TopAt(mp, After(mp, x), side)))
  <1> DEFINE y == After(mp, x)
             F == Fills(mp, x)
  <1>1. /\ \A side \in Sides : TopAt(mp, x, side) \in OrderType
        /\ Intents(mp, x).matchType \in {"DOUBLE_FILL", "BUYER_FILL", "SELLER_FILL"}
        /\ \A side \in Sides \ F : Rest(mp, x, side) \in OrderType /\ Same(Rest(mp, x, side), TopAt(mp, x, side))
    BY RestIs
  <1>2. F \subseteq Sides /\ F # {} /\ Cardinality(F) \in {1, 2}
    BY <1>1, FilledByIs DEF Fills
  <1>3. y.filled = x.filled + Cardinality(F) /\ \A side \in Sides : y.left[side] = LeftAfter(mp, x, side)
    BY DEF After
  <1> HIDE DEF y, F
  <1>4. y.filled \in Nat /\ y.filled > 0
    BY <1>2, <1>3 DEF IsMoment
  <1>5. ASSUME NEW side \in Sides
        PROVE  /\ Pool(y.left[side])
               /\ IdsIn(y.left[side]) \subseteq IdsIn(x.left[side])
               /\ side \in F => TopAt(mp, x, side).id \notin IdsIn(y.left[side])
               /\ \A t \in OrderTypes : \A o \in y.left[side][t] : \E r \in x.left[side][t] : Same(o, r)
               /\ side \notin F => TopAt(mp, y, side) = Rest(mp, x, side)
    <2> DEFINE L == x.left[side]
               top == Top(mp, side, L)
               isFilled == side \in F
               rest == Rest(mp, x, side)
    <2>1. TopAt(mp, x, side) = top
      BY DEF TopAt
    <2>2. Pool(L)
      BY DEF IsMoment
    <2>3. top \in OrderType
      BY <1>1, <2>1
    <2>4. top.id # 0
      BY <2>3 DEF OrderType, Ids
    <2>5. isFilled \in BOOLEAN /\ (~isFilled => rest \in OrderType /\ Same(rest, top))
      BY <1>1, <2>1
    <2>6. y.left[side] = SideAfter(L, top, isFilled, rest)
      BY <1>3, <2>1 DEF LeftAfter, F
    <2>7. TopAt(mp, y, side) = Top(mp, side, y.left[side]) /\ top = Top(mp, side, L)
      BY DEF TopAt
    <2> HIDE DEF L, top, isFilled, rest
    <2>8. top \in L[top.orderType]
      BY <2>2, <2>4, TopOfPool DEF top
    <2>9. /\ Pool(SideAfter(L, top, isFilled, rest))
          /\ IdsIn(SideAfter(L, top, isFilled, rest)) \subseteq IdsIn(L)
          /\ isFilled => top.id \notin IdsIn(SideAfter(L, top, isFilled, rest))
          /\ \A t \in OrderTypes : \A o \in SideAfter(L, top, isFilled, rest)[t] : \E r \in L[t] : Same(o, r)
      BY <2>2, <2>3, <2>5, <2>8, SideAfterIs
    <2>10. ASSUME ~isFilled PROVE TopAt(mp, y, side) = rest
      <3>1. isFilled = FALSE
        BY <2>5, <2>10
      <3>2. Top(mp, side, SideAfter(L, top, FALSE, rest)) = rest
        BY <2>2, <2>4, <2>5, <2>7, <2>10, RestIsTop
      <3> QED
        BY <2>6, <2>7, <3>1, <3>2
    <2>11. /\ Pool(y.left[side])
           /\ IdsIn(y.left[side]) \subseteq IdsIn(L)
           /\ isFilled => top.id \notin IdsIn(y.left[side])
           /\ \A t \in OrderTypes : \A o \in y.left[side][t] : \E r \in L[t] : Same(o, r)
      BY <2>6, <2>9
    <2> QED
      BY <2>1, <2>10, <2>11 DEF L, isFilled, rest
  <1>6. ASSUME NEW side \in Sides, TopAt(mp, y, side).id # 0
        PROVE  AtLeast(side, getOrderPrice(mp, TopAt(mp, x, side)), getOrderPrice(mp, TopAt(mp, y, side)))
    <2> DEFINE o == TopAt(mp, y, side)
    <2>1. Pool(y.left[side]) /\ Pool(x.left[side])
      BY <1>5 DEF IsMoment
    <2>2. o \in y.left[side][o.orderType] /\ o.orderType \in OrderTypes
      BY <1>6, <2>1, TopOfPool DEF TopAt
    <2>3. PICK r \in x.left[side][o.orderType] : Same(o, r)
      BY <1>5, <2>2
    <2>4. AtLeast(side, getOrderPrice(mp, TopAt(mp, x, side)), getOrderPrice(mp, r))
      BY <2>1, <2>2, TopOfPool DEF TopAt
    <2> QED
      BY <2>3, <2>4, SamePrice
  <1>7. \E side \in Sides : TopAt(mp, x, side).id \notin IdsIn(y.left[side])
    BY <1>2, <1>5
  <1> QED
    BY <1>4, <1>5, <1>6, <1>7 DEF IsMoment, y, F

\* a is a run of N matches: each match is that of two tops that match.
Trace(mp, N, a) ==
    /\ \A i \in 0 .. N : IsMoment(a[i])
    /\ \A i \in 0 .. N - 1 : Meet(mp, a[i]) /\ Bid(mp, a[i]) # 0 /\ a[i + 1] = After(mp, a[i])

\* No two matches are of the same two orders.
NoneTwice(mp, N, a) ==
    \A i, j \in 0 .. N : i < j => \E side \in Sides : TopAt(mp, a[i], side).id \notin IdsIn(a[j].left[side])

\* The prices come closer.
Closing(mp, N, a) ==
    \A i, j \in 0 .. N : \A side \in Sides : i <= j /\ TopAt(mp, a[j], side).id # 0 =>
        AtLeast(side, getOrderPrice(mp, TopAt(mp, a[i], side)), getOrderPrice(mp, TopAt(mp, a[j], side)))

Run(mp, N, a) == N \in Nat /\ Trace(mp, N, a) /\ NoneTwice(mp, N, a) /\ Closing(mp, N, a)

\* The price of a top is a number.
LEMMA TopPriceIsNat ==
    ASSUME NEW mp \in Nat, NEW x, IsMoment(x), NEW side \in Sides
    PROVE  getOrderPrice(mp, TopAt(mp, x, side)) \in Nat
  <1>1. Pool(x.left[side])
    BY DEF IsMoment
  <1>2. TopAt(mp, x, side) \in MaybeOrder
    BY <1>1, TopOfPool DEF TopAt, MaybeOrder
  <1> QED
    BY <1>2, MaybeOrderIs, OrderPriceIsNat

\* At first there is a run of no matches.
LEMMA RunStarts ==
    ASSUME NEW mp \in Nat, NEW x, IsMoment(x)
    PROVE  Run(mp, 0, [i \in 0 .. 0 |-> x])
  <1> DEFINE a == [i \in 0 .. 0 |-> x]
  <1>1. a[0] = x /\ \A i \in 0 .. 0 : i = 0
    OBVIOUS
  <1> HIDE DEF a
  <1>2. ASSUME NEW side \in Sides
        PROVE  AtLeast(side, getOrderPrice(mp, TopAt(mp, x, side)), getOrderPrice(mp, TopAt(mp, x, side)))
    BY DEF AtLeast
  <1>3. Trace(mp, 0, a)
    BY <1>1 DEF Trace
  <1>4. NoneTwice(mp, 0, a)
    BY <1>1 DEF NoneTwice
  <1>5. Closing(mp, 0, a)
    BY <1>1, <1>2 DEF Closing
  <1> QED
    BY <1>3, <1>4, <1>5 DEF Run, a

\* A run with one more match.
Longer(mp, N, a) == [i \in 0 .. N + 1 |-> IF i <= N THEN a[i] ELSE After(mp, a[N])]

\* It is a run, when the two tops of the last moment match.
LEMMA RunGrows ==
    ASSUME NEW mp \in Nat, NEW N, NEW a, Run(mp, N, a), Meet(mp, a[N]), Bid(mp, a[N]) # 0
    PROVE  Run(mp, N + 1, Longer(mp, N, a))
  <1> DEFINE b == Longer(mp, N, a)
             y == After(mp, a[N])
  <1>1. N \in Nat /\ Trace(mp, N, a) /\ NoneTwice(mp, N, a) /\ Closing(mp, N, a)
    BY DEF Run
  <1>2. (\A i \in 0 .. N : b[i] = a[i]) /\ b[N + 1] = y /\ \A i \in 0 .. N + 1 : i \in 0 .. N \/ i = N + 1
    BY <1>1 DEF Longer
  <1>3. /\ IsMoment(y)
        /\ \A side \in Sides : IdsIn(y.left[side]) \subseteq IdsIn(a[N].left[side])
        /\ \E side \in Sides : TopAt(mp, a[N], side).id \notin IdsIn(y.left[side])
        /\ \A side \in Sides : TopAt(mp, y, side).id # 0 =>
                  AtLeast(side, getOrderPrice(mp, TopAt(mp, a[N], side)), getOrderPrice(mp, TopAt(mp, y, side)))
    BY <1>1, AfterIs DEF Trace
  <1> HIDE DEF b
  <1>4. Trace(mp, N + 1, b)
    <2>1. \A i \in 0 .. N + 1 : IsMoment(b[i])
      BY <1>1, <1>2, <1>3 DEF Trace
    <2>2. ASSUME NEW i \in 0 .. N PROVE Meet(mp, b[i]) /\ Bid(mp, b[i]) # 0 /\ b[i + 1] = After(mp, b[i])
      <3>1. CASE i = N
        BY <1>1, <1>2, <3>1
      <3>2. CASE i # N
        <4>1. i \in 0 .. N - 1 /\ i + 1 \in 0 .. N
          BY <1>1, <3>2
        <4> QED
          BY <1>1, <1>2, <4>1 DEF Trace
      <3> QED
        BY <3>1, <3>2
    <2>3. 0 .. (N + 1) - 1 = 0 .. N
      BY <1>1
    <2> QED
      BY <2>1, <2>2, <2>3 DEF Trace
  <1> HIDE DEF y
  <1>5. NoneTwice(mp, N + 1, b)
    <2> SUFFICES ASSUME NEW i \in 0 .. N + 1, NEW j \in 0 .. N + 1, i < j
                 PROVE  \E side \in Sides : TopAt(mp, b[i], side).id \notin IdsIn(b[j].left[side])
      BY DEF NoneTwice
    <2>1. i \in 0 .. N /\ i \in Nat
      BY <1>1
    <2>2. CASE j \in 0 .. N
      BY <1>1, <1>2, <2>1, <2>2 DEF NoneTwice
    <2>3. CASE j = N + 1 /\ i = N
      BY <1>1, <1>2, <1>3, <2>3
    <2>4. CASE j = N + 1 /\ i # N
      <3>1. i < N /\ N \in 0 .. N
        BY <1>1, <2>1, <2>4
      <3>2. PICK side \in Sides : TopAt(mp, a[i], side).id \notin IdsIn(a[N].left[side])
        BY <1>1, <2>1, <3>1 DEF NoneTwice
      <3> QED
        BY <1>2, <1>3, <2>1, <2>4, <3>2
    <2> QED
      BY <1>2, <2>2, <2>3, <2>4
  <1>6. Closing(mp, N + 1, b)
    <2> SUFFICES ASSUME NEW i \in 0 .. N + 1, NEW j \in 0 .. N + 1, NEW side \in Sides, i <= j, TopAt(mp, b[j], side).id # 0
                 PROVE  AtLeast(side, getOrderPrice(mp, TopAt(mp, b[i], side)), getOrderPrice(mp, TopAt(mp, b[j], side)))
      BY DEF Closing
    <2>1. CASE j \in 0 .. N
      <3>1. i \in 0 .. N
        BY <1>1, <2>1
      <3> QED
        BY <1>1, <1>2, <2>1, <3>1 DEF Closing
    <2>2. CASE i = N + 1
      <3>1. j = N + 1
        BY <1>1, <2>2
      <3> QED
        BY <2>2, <3>1 DEF AtLeast
    <2>3. CASE i \in 0 .. N /\ j = N + 1
      <3>1. TopAt(mp, a[N], side).id # 0
        BY DEF Meet, Sides
      <3>2. i <= N /\ N \in 0 .. N
        BY <1>1, <2>3
      <3>3. AtLeast(side, getOrderPrice(mp, TopAt(mp, a[i], side)), getOrderPrice(mp, TopAt(mp, a[N], side)))
        BY <1>1, <2>3, <3>1, <3>2 DEF Closing
      <3>4. AtLeast(side, getOrderPrice(mp, TopAt(mp, a[N], side)), getOrderPrice(mp, TopAt(mp, y, side)))
        BY <1>2, <1>3, <2>3
      <3>5. /\ getOrderPrice(mp, TopAt(mp, a[i], side)) \in Nat /\ getOrderPrice(mp, TopAt(mp, a[N], side)) \in Nat
            /\ getOrderPrice(mp, TopAt(mp, y, side)) \in Nat
        BY <1>1, <1>3, <2>3, <3>2, TopPriceIsNat DEF Trace
      <3>6. AtLeast(side, getOrderPrice(mp, TopAt(mp, a[i], side)), getOrderPrice(mp, TopAt(mp, y, side)))
        BY <3>3, <3>4, <3>5, AtLeastIsTransitive
      <3> QED
        BY <1>2, <2>3, <3>6
    <2> QED
      BY <1>2, <2>1, <2>2, <2>3
  <1> QED
    BY <1>1, <1>4, <1>5, <1>6 DEF Run, b

\* A run without its first match.
Shorter(N, a) == [i \in 0 .. N - 1 |-> a[i + 1]]

\* It is a run too.
LEMMA RunShrinks ==
    ASSUME NEW mp \in Nat, NEW N, NEW a, Run(mp, N, a), N # 0
    PROVE  /\ N - 1 \in Nat
           /\ Run(mp, N - 1, Shorter(N, a))
           /\ Shorter(N, a)[0] = After(mp, a[0])
           /\ Shorter(N, a)[N - 1] = a[N]
           /\ N - 1 # 0 => Shorter(N, a)[(N - 1) - 1] = a[N - 1]
  <1> DEFINE b == Shorter(N, a)
             M == N - 1
  <1>1. N \in Nat /\ Trace(mp, N, a) /\ NoneTwice(mp, N, a) /\ Closing(mp, N, a)
    BY DEF Run
  <1>2. M \in Nat /\ N = M + 1 /\ (\A i \in 0 .. M : b[i] = a[i + 1] /\ i + 1 \in 0 .. N)
    BY <1>1 DEF Shorter
  <1> HIDE DEF b, M
  <1>3. Trace(mp, M, b)
    <2>1. \A i \in 0 .. M : IsMoment(b[i])
      BY <1>1, <1>2 DEF Trace
    <2>2. ASSUME NEW i \in 0 .. M - 1 PROVE Meet(mp, b[i]) /\ Bid(mp, b[i]) # 0 /\ b[i + 1] = After(mp, b[i])
      <3>1. i \in 0 .. M /\ i + 1 \in 0 .. M /\ i + 1 \in 0 .. N - 1
        BY <1>2
      <3>2. b[i] = a[i + 1] /\ b[i + 1] = a[(i + 1) + 1]
        BY <1>2, <3>1
      <3> QED
        BY <1>1, <3>1, <3>2 DEF Trace
    <2> QED
      BY <2>1, <2>2 DEF Trace
  <1>4. NoneTwice(mp, M, b)
    <2> SUFFICES ASSUME NEW i \in 0 .. M, NEW j \in 0 .. M, i < j
                 PROVE  \E side \in Sides : TopAt(mp, b[i], side).id \notin IdsIn(b[j].left[side])
      BY DEF NoneTwice
    <2>1. i + 1 < j + 1 /\ i + 1 \in 0 .. N /\ j + 1 \in 0 .. N
      BY <1>2
    <2> QED
      BY <1>1, <1>2, <2>1 DEF NoneTwice
  <1>5. Closing(mp, M, b)
    <2> SUFFICES ASSUME NEW i \in 0 .. M, NEW j \in 0 .. M, NEW side \in Sides, i <= j, TopAt(mp, b[j], side).id # 0
                 PROVE  AtLeast(side, getOrderPrice(mp, TopAt(mp, b[i], side)), getOrderPrice(mp, TopAt(mp, b[j], side)))
      BY DEF Closing
    <2>1. i + 1 <= j + 1 /\ i + 1 \in 0 .. N /\ j + 1 \in 0 .. N
      BY <1>2
    <2> QED
      BY <1>1, <1>2, <2>1 DEF Closing
  <1>6. b[0] = After(mp, a[0])
    <2>1. 0 \in 0 .. M /\ 0 \in 0 .. N - 1 /\ 0 + 1 = 1
      BY <1>2
    <2> QED
      BY <1>1, <1>2, <2>1 DEF Trace
  <1>7. b[M] = a[N]
    BY <1>2
  <1>8. M # 0 => b[M - 1] = a[M]
    <2> SUFFICES ASSUME M # 0 PROVE b[M - 1] = a[M]
      OBVIOUS
    <2>1. M - 1 \in 0 .. M /\ (M - 1) + 1 = M
      BY <1>2
    <2> QED
      BY <1>2, <2>1
  <1> QED
    BY <1>2, <1>3, <1>4, <1>5, <1>6, <1>7, <1>8 DEF Run, b, M

-----------------------------------------------------------------------------
(* Sorted lists. *)

Sorted(side, s) == \A i, j \in DOMAIN s : i < j => Ahead(side, s[i], s[j])

SortedBook(side, b) == \A t \in OrderTypes : Sorted(side, b[t])

\* All the orders of a side that are in its book, and those that have not expired.
AllOf(b) == [t \in OrderTypes |-> In(b[t])]

ValidOf(b) == [t \in OrderTypes |-> {o \in In(b[t]) : ~isExpired(o)}]

\* They are pools.
LEMMA BookIsPool ==
    ASSUME NEW b, NEW q, Tidy(b, q)
    PROVE  /\ Pool(AllOf(b)) /\ Pool(ValidOf(b)) /\ Part(ValidOf(b), AllOf(b))
           /\ \A t \in OrderTypes : b[t] \in Seq(OrderType) /\ Distinct(b[t]) /\ OneOfEachId(In(b[t]))
  <1>1. \A t \in OrderTypes : b[t] \in Seq(OrderType) /\ Distinct(b[t])
    BY DEF Tidy, Lists
  <1>2. \A t \in OrderTypes : In(b[t]) \subseteq OrderType /\ IsFiniteSet(In(b[t]))
    BY <1>1, InIsFinite
  <1>3. \A t \in OrderTypes : \A o \in In(b[t]) : o.orderType = t
    BY DEF Tidy
  <1>4. \A t \in OrderTypes : \A o \in In(b[t]) : o \in OrdersOf(b, q)
    BY DEF OrdersOf
  <1>5. \A t, u \in OrderTypes : \A o \in In(b[t]), r \in In(b[u]) : o.id = r.id => o = r
    BY <1>4 DEF Tidy
  <1>6. Pool(AllOf(b))
    <2> DEFINE L == AllOf(b)
    <2>1. L = [t \in OrderTypes |-> L[t]] /\ \A t \in OrderTypes : L[t] = In(b[t])
      BY DEF AllOf
    <2> HIDE DEF L
    <2>2. Pool(L)
      BY <1>2, <1>3, <1>5, <2>1 DEF Pool
    <2> QED
      BY <2>2 DEF L
  <1>7. Part(ValidOf(b), AllOf(b))
    BY DEF Part, AllOf, ValidOf
  <1>8. Pool(ValidOf(b))
    <2> DEFINE M == ValidOf(b)
    <2>1. M = [t \in OrderTypes |-> M[t]] /\ \A t \in OrderTypes : M[t] \subseteq In(b[t])
      BY DEF ValidOf
    <2> HIDE DEF M
    <2>2. \A t \in OrderTypes : M[t] \subseteq OrderType /\ IsFiniteSet(M[t])
      BY <1>2, <2>1, FS_Subset
    <2>3. Pool(M)
      BY <1>3, <1>5, <2>1, <2>2 DEF Pool
    <2> QED
      BY <2>3 DEF M
  <1>9. \A t \in OrderTypes : OneOfEachId(In(b[t]))
    BY <1>5 DEF OneOfEachId
  <1> QED
    BY <1>1, <1>6, <1>7, <1>8, <1>9

\* The first order of a sorted list.
LEMMA SortedFirst ==
    ASSUME NEW side \in Sides, NEW s \in Seq(OrderType), Sorted(side, s)
    PROVE  FirstOf(s) = First(side, In(s))
  <1>1. CASE s = <<>>
    <2>1. In(s) = {}
      BY <1>1 DEF In
    <2> QED
      BY <1>1, <2>1 DEF FirstOf, First
  <1>2. CASE s # <<>>
    <2>1. Len(s) \in Nat \ {0} /\ DOMAIN s = 1 .. Len(s)
      BY <1>2, EmptySeq, LenProperties
    <2>2. FirstOf(s) = s[1] /\ s[1] \in In(s)
      BY <1>2, FirstOfIs
    <2>3. ASSUME NEW r \in In(s) \ {s[1]} PROVE Ahead(side, s[1], r)
      <3>1. PICK n \in DOMAIN s : r = s[n]
        BY DEF In
      <3>2. 1 \in DOMAIN s /\ 1 < n
        BY <2>1, <2>3, <3>1
      <3> QED
        BY <3>1, <3>2 DEF Sorted
    <2>4. IsFirst(side, s[1], In(s))
      BY <2>2, <2>3 DEF IsFirst
    <2>5. In(s) \subseteq OrderType
      BY InIsFinite
    <2> QED
      BY <2>2, <2>4, <2>5, FirstIs
  <1> QED
    BY <1>1, <1>2

\* The top of a sorted book.
LEMMA TopOfSorted ==
    ASSUME NEW side \in Sides, NEW mp, NEW b, NEW q, Tidy(b, q), SortedBook(side, b)
    PROVE  TopOf(mp, side, b) = Top(mp, side, AllOf(b))
  <1>1. \A t \in OrderTypes : FirstOf(b[t]) = First(side, In(b[t]))
    BY BookIsPool, SortedFirst DEF SortedBook
  <1>2. "LIMIT_ORDER" \in OrderTypes /\ "MARKET_ORDER" \in OrderTypes
    BY DEF OrderTypes
  <1> QED
    BY <1>1, <1>2 DEF TopOf, Top, AllOf

\* The orders of V after the one of the given id.
AfterId(side, V, id) == {r \in V : id = 0 \/ \E o \in V : o.id = id /\ Ahead(side, o, r)}

\* The walk of getNextValidLimitOrder finds the first of them.
LEMMA NextValidIsFirst ==
    ASSUME NEW side \in Sides, NEW s \in Seq(OrderType), Sorted(side, s), OneOfEachId(In(s)),
           NEW V, V = {o \in In(s) : ~isExpired(o)}, NEW id, id = 0 \/ \E o \in V : o.id = id
    PROVE  NextValid(s, id) = First(side, AfterId(side, V, id))
  <1> DEFINE after == {n \in DOMAIN s : s[n].id = id}
             from == IF id = 0 THEN 1 ELSE IF after = {} THEN Len(s) + 1 ELSE Max(after) + 1
             valid == {n \in from .. Len(s) : ~isExpired(s[n])}
  <1>1. NextValid(s, id) = IF valid = {} THEN NoOrder ELSE s[Min(valid)]
    BY DEF NextValid
  <1>2. Len(s) \in Nat /\ DOMAIN s = 1 .. Len(s) /\ \A n \in 1 .. Len(s) : s[n] \in OrderType
    BY LenProperties, ElementOfSeq
  <1>3. \A m, n \in 1 .. Len(s) : (m < n => Ahead(side, s[m], s[n])) /\ (Ahead(side, s[m], s[n]) => m < n)
    <2> SUFFICES ASSUME NEW m \in 1 .. Len(s), NEW n \in 1 .. Len(s)
                 PROVE  (m < n => Ahead(side, s[m], s[n])) /\ (Ahead(side, s[m], s[n]) => m < n)
      OBVIOUS
    <2>1. m < n => Ahead(side, s[m], s[n])
      BY <1>2 DEF Sorted
    <2>2. n < m => Ahead(side, s[n], s[m])
      BY <1>2 DEF Sorted
    <2>3. s[m] \in OrderType /\ s[n] \in OrderType
      BY <1>2
    <2>4. Ahead(side, s[m], s[n]) => ~Ahead(side, s[n], s[m]) /\ s[m] # s[n]
      BY <2>3, AheadIsAnOrder
    <2>5. m \in Nat /\ n \in Nat /\ (m < n \/ n < m \/ m = n)
      BY <1>2
    <2> QED
      BY <2>1, <2>2, <2>4, <2>5
  <1>4. from \in 1 .. Len(s) + 1 /\ \A n \in 1 .. Len(s) : n >= from <=> (id = 0 \/ \E o \in V : o.id = id /\ Ahead(side, o, s[n]))
    <2>1. CASE id = 0
      BY <1>2, <2>1
    <2>2. CASE id # 0
      <3>1. PICK k \in 1 .. Len(s) : s[k].id = id /\ s[k] \in V
        BY <1>2, <2>2 DEF In
      <3>2. \A o \in In(s) : o.id = id => o = s[k]
        BY <3>1 DEF OneOfEachId
      <3>3. \A n \in 1 .. Len(s) : s[n].id = id => n = k
        <4> SUFFICES ASSUME NEW n \in 1 .. Len(s), s[n].id = id, n # k PROVE FALSE
          OBVIOUS
        <4>1. s[n] = s[k] /\ s[n] \in OrderType
          BY <1>2, <3>2 DEF In
        <4>2. n < k \/ k < n
          BY <1>2
        <4> QED
          BY <1>3, <4>1, <4>2, AheadIsAnOrder
      <3>4. after = {k}
        BY <1>2, <3>1, <3>3
      <3>5. Max(after) = k
        <4>1. after \subseteq 0 .. Len(s) /\ after # {}
          BY <1>2, <3>4
        <4>2. Max(after) \in after
          BY <1>2, <4>1, MaxIsGreatest
        <4> QED
          BY <3>4, <4>2
      <3>6. from = k + 1
        BY <2>2, <3>4, <3>5
      <3>7. from \in 1 .. Len(s) + 1
        BY <1>2, <3>6
      <3>8. ASSUME NEW n \in 1 .. Len(s) PROVE n >= from <=> \E o \in V : o.id = id /\ Ahead(side, o, s[n])
        <4>1. n >= from <=> k < n
          BY <1>2, <3>6
        <4>2. k < n <=> Ahead(side, s[k], s[n])
          BY <1>3
        <4>3. (\E o \in V : o.id = id /\ Ahead(side, o, s[n])) <=> Ahead(side, s[k], s[n])
          BY <3>1, <3>2
        <4> QED
          BY <4>1, <4>2, <4>3
      <3> QED
        BY <2>2, <3>7, <3>8
    <2> QED
      BY <2>1, <2>2
  <1> HIDE DEF from
  <1>5. /\ valid \subseteq 1 .. Len(s)
        /\ \A n \in 1 .. Len(s) : n \in valid <=> s[n] \in AfterId(side, V, id)
    BY <1>2, <1>4 DEF AfterId, In
  <1>6. AfterId(side, V, id) \subseteq In(s)
    BY DEF AfterId
  <1>7. In(s) \subseteq OrderType
    BY InIsFinite
  <1> HIDE DEF valid
  <1>8. CASE valid = {}
    <2>1. AfterId(side, V, id) = {}
      BY <1>2, <1>5, <1>6, <1>8 DEF In
    <2> QED
      BY <1>1, <1>8, <2>1 DEF First
  <1>9. CASE valid # {}
    <2> DEFINE k == Min(valid)
    <2>0. valid \subseteq Nat
      BY <1>2, <1>5
    <2>1. k \in valid /\ \A n \in valid : k <= n
      BY <1>9, <2>0, MinIsLeast
    <2> HIDE DEF k
    <2>2. IsFirst(side, s[k], AfterId(side, V, id))
      <3>1. s[k] \in AfterId(side, V, id)
        BY <1>5, <2>1
      <3>2. ASSUME NEW r \in AfterId(side, V, id) \ {s[k]} PROVE Ahead(side, s[k], r)
        <4>1. PICK n \in 1 .. Len(s) : r = s[n]
          BY <1>2, <1>6 DEF In
        <4>2. n \in valid /\ n # k
          BY <1>5, <3>2, <4>1
        <4>3. k \in 1 .. Len(s) /\ k < n
          BY <1>2, <1>5, <2>1, <4>2
        <4> QED
          BY <1>3, <4>1, <4>3
      <3> QED
        BY <3>1, <3>2 DEF IsFirst
    <2>3. First(side, AfterId(side, V, id)) = s[k]
      BY <1>6, <1>7, <2>2, FirstIs
    <2> QED
      BY <1>1, <1>9, <2>3 DEF k
  <1> QED
    BY <1>8, <1>9

-----------------------------------------------------------------------------
(* Dropping the expired orders at the top of a sorted book. *)

\* What is left of a sorted list when its first order goes is sorted.
LEMMA SortedTail ==
    ASSUME NEW side, NEW s \in Seq(OrderType), s # <<>>, Distinct(s), Sorted(side, s)
    PROVE  Sorted(side, Tail(s))
  <1>1. /\ Tail(s) \in Seq(OrderType) /\ Len(Tail(s)) = Len(s) - 1
        /\ \A i \in 1 .. Len(s) - 1 : Tail(s)[i] = s[i + 1]
    BY TailList
  <1>2. DOMAIN Tail(s) = 1 .. Len(s) - 1 /\ DOMAIN s = 1 .. Len(s) /\ Len(s) \in Nat
    BY <1>1, LenProperties
  <1>3. SUFFICES ASSUME NEW i \in 1 .. Len(s) - 1, NEW j \in 1 .. Len(s) - 1, i < j
                 PROVE  Ahead(side, Tail(s)[i], Tail(s)[j])
    BY <1>2 DEF Sorted
  <1>4. Tail(s)[i] = s[i + 1] /\ Tail(s)[j] = s[j + 1]
    BY <1>1
  <1>5. i + 1 \in DOMAIN s /\ j + 1 \in DOMAIN s /\ i + 1 < j + 1
    BY <1>2, <1>3
  <1> QED
    BY <1>4, <1>5 DEF Sorted

Count(b) == Len(b["LIMIT_ORDER"]) + Len(b["MARKET_ORDER"])

\* The ids are enough for the orders of a book.
LEMMA CountIsBounded ==
    ASSUME NEW b, NEW q, Tidy(b, q)
    PROVE  Count(b) \in Nat /\ Count(b) <= MaxOrders
  <1> DEFINE l == b["LIMIT_ORDER"]
             m == b["MARKET_ORDER"]
             n == Len(l)
             k == Len(m)
             f == [i \in 1 .. n + k |-> IF i <= n THEN l[i].id ELSE m[i - n].id]
  <1>0. "LIMIT_ORDER" \in OrderTypes /\ "MARKET_ORDER" \in OrderTypes
    BY DEF OrderTypes
  <1>1. l \in Seq(OrderType) /\ m \in Seq(OrderType) /\ Distinct(l) /\ Distinct(m)
    BY <1>0 DEF Tidy, Lists
  <1>2. /\ n \in Nat /\ k \in Nat /\ DOMAIN l = 1 .. n /\ DOMAIN m = 1 .. k
        /\ \A i \in 1 .. n : l[i] \in OrderType
        /\ \A i \in 1 .. k : m[i] \in OrderType
    BY <1>1, LenProperties, ElementOfSeq
  <1>3. Count(b) = n + k /\ n + k \in Nat
    <2>1. Count(b) = n + k
      BY DEF Count
    <2>2. n \in Nat /\ k \in Nat
      BY <1>2
    <2> HIDE DEF n, k
    <2>3. n + k \in Nat
      BY <2>2
    <2> QED
      BY <2>1, <2>3
  <1>4. /\ \A i \in 1 .. n : l[i] \in OrdersOf(b, q) /\ l[i].orderType = "LIMIT_ORDER" /\ l[i].id \in 1 .. MaxOrders
        /\ \A i \in 1 .. k : m[i] \in OrdersOf(b, q) /\ m[i].orderType = "MARKET_ORDER" /\ m[i].id \in 1 .. MaxOrders
    <2>1. \A i \in 1 .. n : l[i] \in In(l)
      BY <1>2 DEF In
    <2>2. \A i \in 1 .. k : m[i] \in In(m)
      BY <1>2 DEF In
    <2>3. /\ \A i \in 1 .. n : l[i] \in OrdersOf(b, q) /\ l[i].orderType = "LIMIT_ORDER"
          /\ \A i \in 1 .. k : m[i] \in OrdersOf(b, q) /\ m[i].orderType = "MARKET_ORDER"
      BY <1>0, <2>1, <2>2 DEF Tidy, OrdersOf
    <2>4. /\ \A i \in 1 .. n : l[i].id \in 1 .. MaxOrders
          /\ \A i \in 1 .. k : m[i].id \in 1 .. MaxOrders
      BY <1>2 DEF OrderType, Ids
    <2> QED
      BY <2>3, <2>4
  <1>5. \A o, r \in OrdersOf(b, q) : o.id = r.id => o = r
    BY DEF Tidy
  <1> HIDE DEF l, m, n, k
  <1>6. \A i \in 1 .. n + k : (i \in 1 .. n) \/ (~(i <= n) /\ i - n \in 1 .. k)
    BY <1>2
  <1>7. f \in [1 .. n + k -> 1 .. MaxOrders]
    BY <1>2, <1>4, <1>6
  <1>8. \A i \in 1 .. n + k : f[i] = IF i <= n THEN l[i].id ELSE m[i - n].id
    OBVIOUS
  <1> HIDE DEF f
  <1>9. ASSUME NEW x \in 1 .. n + k, NEW y \in 1 .. n + k, f[x] = f[y]
        PROVE  x = y
    <2>1. CASE x <= n /\ y <= n
      <3>1. x \in 1 .. n /\ y \in 1 .. n
        BY <1>6, <2>1
      <3>2. l[x].id = l[y].id
        BY <1>8, <1>9, <2>1
      <3>3. l[x] = l[y]
        BY <1>4, <1>5, <3>1, <3>2
      <3> QED
        BY <1>1, <1>2, <3>1, <3>3 DEF Distinct
    <2>2. CASE ~(x <= n) /\ ~(y <= n)
      <3>1. x - n \in 1 .. k /\ y - n \in 1 .. k
        BY <1>6, <2>2
      <3>2. m[x - n].id = m[y - n].id
        BY <1>8, <1>9, <2>2
      <3>3. m[x - n] = m[y - n]
        BY <1>4, <1>5, <3>1, <3>2
      <3>4. x - n = y - n
        BY <1>1, <1>2, <3>1, <3>3 DEF Distinct
      <3> QED
        BY <1>2, <3>4
    <2>3. CASE x <= n /\ ~(y <= n)
      <3>1. x \in 1 .. n /\ y - n \in 1 .. k
        BY <1>6, <2>3
      <3>2. l[x].id = m[y - n].id
        BY <1>8, <1>9, <2>3
      <3>3. l[x] = m[y - n]
        BY <1>4, <1>5, <3>1, <3>2
      <3> QED
        BY <1>4, <3>1, <3>3
    <2>4. CASE ~(x <= n) /\ y <= n
      <3>1. y \in 1 .. n /\ x - n \in 1 .. k
        BY <1>6, <2>4
      <3>2. l[y].id = m[x - n].id
        BY <1>8, <1>9, <2>4
      <3>3. l[y] = m[x - n]
        BY <1>4, <1>5, <3>1, <3>2
      <3> QED
        BY <1>4, <3>1, <3>3
    <2> QED
      BY <2>1, <2>2, <2>3, <2>4
  <1>10. MaxOrders \in Nat
    BY ExchangeAssumption
  <1> DEFINE S == 1 .. n + k
             T == 1 .. MaxOrders
  <1>11. IsFiniteSet(S) /\ Cardinality(S) = n + k /\ IsFiniteSet(T) /\ Cardinality(T) = MaxOrders
    BY <1>3, <1>10, FS_Interval
  <1>12. f \in [S -> T] /\ \A x, y \in S : f[x] = f[y] => x = y
    BY <1>7, <1>9
  <1> HIDE DEF S, T
  <1>13. ~(Cardinality(T) < Cardinality(S))
    BY <1>11, <1>12, FS_PigeonHole
  <1> QED
    BY <1>3, <1>10, <1>11, <1>13

\* A book that loses its top.
LEMMA PopKeeps ==
    ASSUME NEW side \in Sides, NEW mp, NEW b, NEW q, Tidy(b, q), SortedBook(side, b),
           NEW top, top = TopOf(mp, side, b), top.id # 0, NEW c, c = Popped(mp, side, b)
    PROVE  /\ top \in OrderType /\ top.orderType \in OrderTypes /\ top \in In(b[top.orderType])
           /\ Tidy(c, q) /\ SortedBook(side, c) /\ Count(b) = Count(c) + 1
           /\ \A t \in OrderTypes : In(c[t]) = In(b[t]) \ {top}
           /\ \A t \in OrderTypes : \A o \in In(b[t]) : o.orderType = t
  <1> DEFINE t == top.orderType
             s == Tail(b[t])
             D == {top}
  <1>1. b \in SideBooks
    BY TidyIsSideBook
  <1>2. top \in OrderType /\ t \in OrderTypes /\ b[t] # <<>> /\ top = Head(b[t]) /\ top \in In(b[t])
    BY <1>1, TopIs
  <1>3. Changes(b, c, t, s)
    BY <1>1, PoppedIs
  <1> HIDE DEF t
  <1>4. b[t] \in Seq(OrderType) /\ Distinct(b[t]) /\ Sorted(side, b[t])
    BY <1>2 DEF Tidy, Lists, SortedBook
  <1>5. s \in Seq(OrderType) /\ Distinct(s) /\ In(s) = In(b[t]) \ {top} /\ {top} \subseteq In(b[t]) /\ Len(s) = Len(b[t]) - 1
    BY <1>2, <1>4, TailList
  <1>6. Sorted(side, s)
    BY <1>2, <1>4, SortedTail
  <1>7. D \subseteq In(b[t]) /\ In(s) = In(b[t]) \ D
    BY <1>5
  <1> HIDE DEF s, D
  <1>8. Tidy(c, q)
    BY <1>2, <1>3, <1>5, <1>7, RemovedOrders
  <1>9. c[t] = s /\ \A u \in OrderTypes : u # t => c[u] = b[u]
    BY <1>3 DEF Changes
  <1>10. SortedBook(side, c)
    BY <1>6, <1>9 DEF SortedBook
  <1>11. \A u \in OrderTypes : \A o \in In(b[u]) : o.orderType = u
    BY DEF Tidy
  <1>12. \A u \in OrderTypes : In(c[u]) = In(b[u]) \ {top}
    <2> SUFFICES ASSUME NEW u \in OrderTypes PROVE In(c[u]) = In(b[u]) \ {top}
      OBVIOUS
    <2>1. CASE u = t
      BY <1>5, <1>9, <2>1
    <2>2. CASE u # t
      <3>1. top \notin In(b[u])
        BY <1>2, <1>11, <2>2
      <3> QED
        BY <1>9, <2>2, <3>1
    <2> QED
      BY <2>1, <2>2
  <1>13. Count(b) = Count(c) + 1
    <2>1. \A u \in OrderTypes : Len(b[u]) \in Nat /\ Len(c[u]) \in Nat
      BY <1>8, LenProperties DEF Tidy, Lists
    <2>2. Len(c[t]) = Len(b[t]) - 1 /\ \A u \in OrderTypes : u # t => Len(c[u]) = Len(b[u])
      BY <1>5, <1>9
    <2>3. "LIMIT_ORDER" \in OrderTypes /\ "MARKET_ORDER" \in OrderTypes /\ (t = "LIMIT_ORDER" \/ t = "MARKET_ORDER")
      BY <1>2 DEF OrderTypes
    <2>4. CASE t = "LIMIT_ORDER"
      <3>1. Len(c["LIMIT_ORDER"]) = Len(b["LIMIT_ORDER"]) - 1 /\ Len(c["MARKET_ORDER"]) = Len(b["MARKET_ORDER"])
        BY <2>2, <2>3, <2>4
      <3> QED
        BY <2>1, <2>3, <3>1 DEF Count
    <2>5. CASE t = "MARKET_ORDER"
      <3>1. Len(c["MARKET_ORDER"]) = Len(b["MARKET_ORDER"]) - 1 /\ Len(c["LIMIT_ORDER"]) = Len(b["LIMIT_ORDER"])
        BY <2>2, <2>3, <2>5
      <3> QED
        BY <2>1, <2>3, <3>1 DEF Count
    <2> QED
      BY <2>3, <2>4, <2>5
  <1> QED
    BY <1>2, <1>8, <1>10, <1>11, <1>12, <1>13 DEF t

\* The loop that drops expired orders has nothing more to drop.
Stable(side, x) == LET top == TopOf(page.marketPrice, side, x.book) IN top.id = 0 \/ ~isExpired(top)

\* What a turn of the loop keeps: the lists are sorted, and what has not expired stays.
Keeps(side, q, b, c) ==
    /\ Tidy(c, q) /\ SortedBook(side, c)
    /\ ValidOf(c) = ValidOf(b)
    /\ \A t \in OrderTypes : In(c[t]) \subseteq In(b[t])

\* One turn of the loop that drops expired orders.
LEMMA DropTopKeeps ==
    ASSUME NEW side \in Sides, NEW q, NEW b, NEW x, Keeps(side, q, b, x.book)
    PROVE  /\ Stable(side, x) => DropTop(side, x) = x
           /\ ~Stable(side, x) => /\ Keeps(side, q, b, DropTop(side, x).book)
                                  /\ Count(x.book) = Count(DropTop(side, x).book) + 1
  <1> DEFINE top == TopOf(page.marketPrice, side, x.book)
             c == Popped(page.marketPrice, side, x.book)
  <1>1. Stable(side, x) => DropTop(side, x) = x
    BY DEF Stable, DropTop
  <1>2. ASSUME ~Stable(side, x)
        PROVE  Keeps(side, q, b, DropTop(side, x).book) /\ Count(x.book) = Count(DropTop(side, x).book) + 1
    <2>1. DropTop(side, x).book = c /\ top.id # 0 /\ isExpired(top)
      BY <1>2 DEF Stable, DropTop
    <2>2. /\ Tidy(c, q) /\ SortedBook(side, c) /\ Count(x.book) = Count(c) + 1
          /\ \A t \in OrderTypes : In(c[t]) = In(x.book[t]) \ {top}
      <3> DEFINE d == x.book
                 mp == page.marketPrice
      <3>1. Tidy(d, q) /\ SortedBook(side, d) /\ top = TopOf(mp, side, d) /\ c = Popped(mp, side, d)
        BY DEF Keeps
      <3> HIDE DEF d, mp, c, top
      <3>2. /\ Tidy(c, q) /\ SortedBook(side, c) /\ Count(d) = Count(c) + 1
            /\ \A t \in OrderTypes : In(c[t]) = In(d[t]) \ {top}
        BY <2>1, <3>1, PopKeeps
      <3> QED
        BY <3>2 DEF d
    <2> HIDE DEF c, top
    <2>3. \A t \in OrderTypes : {o \in In(c[t]) : ~isExpired(o)} = {o \in In(x.book[t]) : ~isExpired(o)}
      BY <2>1, <2>2
    <2>4. ValidOf(c) = ValidOf(x.book)
      BY <2>3, Zenon DEF ValidOf
    <2> QED
      BY <2>1, <2>2, <2>4 DEF Keeps
  <1> QED
    BY <1>1, <1>2

\* When the loop ends, the book is sorted, what has not expired is still there, and
\* the top has not expired.
LEMMA DropExpiredKeeps ==
    ASSUME NEW side \in Sides, NEW q, NEW b, NEW l \in Ledgers, Tidy(b, q), SortedBook(side, b)
    PROVE  /\ Keeps(side, q, b, DropExpired(side, b, l).book)
           /\ Stable(side, DropExpired(side, b, l))
  <1>1. b \in SideBooks /\ MaxOrders \in Nat
    BY TidyIsSideBook, ExchangeAssumption
  <1> DEFINE x == [book |-> b, ledger |-> l]
  <1>2. PICK f \in [0 .. MaxOrders -> Droppables] : Drops(f, side, x) /\ DropExpired(side, b, l) = f[MaxOrders]
    BY <1>1, DropExpiredIs
  <1>3. x.book = b
    OBVIOUS
  <1> HIDE DEF x
  <1>4. Count(b) \in Nat /\ Count(b) <= MaxOrders
    BY CountIsBounded
  <1> DEFINE Good == {k \in Nat : k <= MaxOrders =>
                        /\ Keeps(side, q, b, f[k].book)
                        /\ Stable(side, f[k]) \/ Count(f[k].book) + k = Count(b)}
  <1>5. 0 \in Good
    <2>1. 0 \in 0 .. MaxOrders
      BY <1>1
    <2>2. f[0] = x
      BY <1>2, <2>1 DEF Drops
    <2>3. Keeps(side, q, b, b) /\ Count(b) + 0 = Count(b)
      BY <1>4 DEF Keeps
    <2> QED
      BY <1>3, <2>2, <2>3
  <1>6. ASSUME NEW k \in Nat, k \in Good
        PROVE  k + 1 \in Good
    <2> SUFFICES ASSUME k + 1 <= MaxOrders
                 PROVE  /\ Keeps(side, q, b, f[k + 1].book)
                        /\ Stable(side, f[k + 1]) \/ Count(f[k + 1].book) + (k + 1) = Count(b)
      OBVIOUS
    <2>1. k + 1 \in 0 .. MaxOrders /\ k + 1 # 0 /\ k + 1 - 1 = k /\ k \in 0 .. MaxOrders
      BY <1>1
    <2> DEFINE n == k + 1
               y == f[k]
               z == f[n]
    <2>2. z = IF n = 0 THEN x ELSE DropTop(side, f[n - 1])
      BY <1>2, <2>1 DEF Drops
    <2>3. z = DropTop(side, y)
      BY <2>1, <2>2
    <2>4. Keeps(side, q, b, y.book) /\ (Stable(side, y) \/ Count(y.book) + k = Count(b))
      BY <1>1, <1>6, <2>1
    <2> HIDE DEF y, z
    <2>5. /\ Stable(side, y) => z = y
          /\ ~Stable(side, y) => Keeps(side, q, b, z.book) /\ Count(y.book) = Count(z.book) + 1
      BY <2>3, <2>4, DropTopKeeps
    <2>6. CASE Stable(side, y)
      BY <2>4, <2>5, <2>6 DEF z, n
    <2>7. CASE ~Stable(side, y)
      <3>1. Keeps(side, q, b, z.book) /\ Count(y.book) = Count(z.book) + 1 /\ Count(y.book) + k = Count(b)
        BY <2>4, <2>5, <2>7
      <3>2. Tidy(z.book, q) /\ Tidy(y.book, q)
        BY <2>4, <3>1 DEF Keeps
      <3>3. Count(z.book) \in Nat /\ Count(y.book) \in Nat
        BY <3>2, CountIsBounded
      <3>4. Count(z.book) + n = Count(b)
        BY <1>4, <3>1, <3>3
      <3> QED
        BY <3>1, <3>4 DEF z, n
    <2> QED
      BY <2>6, <2>7
  <1>7. Nat \subseteq Good
    <2> HIDE DEF Good
    <2> QED
      BY <1>5, <1>6, NaturalInduction
  <1> DEFINE y == f[MaxOrders]
  <1>8. Keeps(side, q, b, y.book) /\ (Stable(side, y) \/ Count(y.book) + MaxOrders = Count(b))
    BY <1>1, <1>7
  <1> HIDE DEF y
  <1>9. Stable(side, y)
    <2>1. SUFFICES ASSUME ~Stable(side, y) PROVE FALSE
      OBVIOUS
    <2>2. Tidy(y.book, q) /\ SortedBook(side, y.book) /\ TopOf(page.marketPrice, side, y.book).id # 0
      BY <1>8, <2>1 DEF Keeps, Stable
    <2> DEFINE c == Popped(page.marketPrice, side, y.book)
    <2>3. Tidy(c, q) /\ Count(y.book) = Count(c) + 1
      <3> DEFINE d == y.book
                 mp == page.marketPrice
                 top == TopOf(mp, side, d)
      <3>1. Tidy(d, q) /\ SortedBook(side, d) /\ top = TopOf(mp, side, d) /\ top.id # 0 /\ c = Popped(mp, side, d)
        BY <2>2
      <3> HIDE DEF d, mp, c, top
      <3>2. Tidy(c, q) /\ Count(d) = Count(c) + 1
        BY <3>1, PopKeeps
      <3> QED
        BY <3>2 DEF d
    <2> HIDE DEF c
    <2>4. Count(c) \in Nat /\ Count(y.book) \in Nat
      BY <2>2, <2>3, CountIsBounded
    <2> QED
      BY <1>1, <1>4, <1>8, <2>1, <2>3, <2>4
  <1> QED
    BY <1>2, <1>8, <1>9 DEF y

\* The top is then the best of what has not expired.
LEMMA StableTop ==
    ASSUME NEW side \in Sides, page.marketPrice \in Nat, NEW q, NEW b, NEW x, Keeps(side, q, b, x.book), Stable(side, x)
    PROVE  TopOf(page.marketPrice, side, x.book) = Top(page.marketPrice, side, ValidOf(b))
  <1> DEFINE c == x.book
             mp == page.marketPrice
             top == TopOf(mp, side, c)
             L == AllOf(c)
             M == ValidOf(c)
  <1>1. Tidy(c, q) /\ SortedBook(side, c) /\ ValidOf(b) = M
    BY DEF Keeps
  <1>2. Pool(L) /\ Pool(M) /\ Part(M, L)
    BY <1>1, BookIsPool
  <1>3. top = Top(mp, side, L)
    BY <1>1, TopOfSorted
  <1>4. top.id = 0 \/ ~isExpired(top)
    BY DEF Stable
  <1>5. CASE top.id = 0
    <2>1. top = NoOrder /\ \A t \in OrderTypes : L[t] = {}
      BY <1>2, <1>3, <1>5, TopOfPool
    <2>2. \A t \in OrderTypes : M[t] = {}
      BY <1>2, <2>1 DEF Part
    <2> DEFINE r == Top(mp, side, M)
    <2>3. r.id = 0
      <3>1. SUFFICES ASSUME r.id # 0 PROVE FALSE
        OBVIOUS
      <3>2. r.orderType \in OrderTypes /\ r \in M[r.orderType]
        BY <1>2, <3>1, TopOfPool
      <3> QED
        BY <2>2, <3>2
    <2>4. r = NoOrder
      BY <1>2, <2>3, TopOfPool
    <2> QED
      BY <1>1, <2>1, <2>4
  <1>6. CASE top.id # 0
    <2>1. top.orderType \in OrderTypes /\ top \in L[top.orderType]
      BY <1>2, <1>3, <1>6, TopOfPool
    <2>2. top \in M[top.orderType]
      BY <1>4, <1>6, <2>1 DEF AllOf, ValidOf
    <2> HIDE DEF L, M
    <2>3. Top(mp, side, M) = Top(mp, side, L)
      BY <1>2, <1>3, <2>1, <2>2, TopOfPart
    <2> QED
      BY <1>1, <1>3, <2>3
  <1> QED
    BY <1>5, <1>6

-----------------------------------------------------------------------------
(* The books are sorted, and what waits in a queue is younger than its book. *)

Rising(w) == \A i, j \in DOMAIN w : i < j => w[i].id < w[j].id

\* s is a book and w the queue of its side and type.
InOrder(side, s, w) ==
    /\ Sorted(side, s)
    /\ Rising(w)
    /\ \A o \in In(s), r \in In(w) : o.id < r.id

OrderedIn(bs, qs) == \A side \in Sides, t \in OrderTypes : InOrder(side, bs[side][t], qs[side][t])

Ordered == OrderedIn(books, queues)

\* Placing an order that is younger than the others keeps a list sorted.
LEMMA PlaceKeepsSorted ==
    ASSUME NEW side \in Sides, NEW s \in Seq(OrderType), Sorted(side, s), NEW o \in OrderType,
           \A r \in In(s) : r.id < o.id
    PROVE  Sorted(side, Place(Descending(side), s, o))
  <1> DEFINE w == Place(Descending(side), s, o)
             N == Len(s)
             D == Descending(side)
  <1>1. N \in Nat /\ DOMAIN s = 1 .. N /\ \A n \in 1 .. N : s[n] \in OrderType /\ s[n] \in In(s)
    BY LenProperties, ElementOfSeq DEF In
  <1>2. PICK at \in 1 .. N + 1 :
            /\ w = [k \in 1 .. N + 1 |-> IF k < at THEN s[k] ELSE IF k = at THEN o ELSE s[k - 1]]
            /\ \A n \in 1 .. at - 1 : ~Before(D, o.price, s[n].price)
            /\ at <= N => Before(D, o.price, s[at].price)
    BY PlaceIs
  <1> HIDE DEF w, N
  <1>3. at \in Nat /\ DOMAIN w = 1 .. N + 1
        /\ \A k \in 1 .. N + 1 : w[k] = IF k < at THEN s[k] ELSE IF k = at THEN o ELSE s[k - 1]
    BY <1>1, <1>2
  <1>4. ASSUME NEW n \in 1 .. N, n < at PROVE Ahead(side, s[n], o)
    <2>1. ~Before(D, o.price, s[n].price) /\ s[n].id < o.id /\ s[n] \in OrderType
      BY <1>1, <1>2, <1>3, <1>4
    <2>2. o.price \in Nat /\ s[n].price \in Nat
      BY <2>1 DEF OrderType
    <2>3. AtLeast(side, s[n].price, o.price)
      BY <2>1, <2>2, AtLeastIsTransitive
    <2> QED
      BY <2>1, <2>3 DEF Ahead, AtLeast
  <1>5. ASSUME NEW n \in 1 .. N, ~(n < at) PROVE Ahead(side, o, s[n])
    <2>1. at \in 1 .. N /\ at <= N
      BY <1>1, <1>3, <1>5
    <2>2. Ahead(side, o, s[at])
      BY <1>2, <2>1 DEF Ahead
    <2>3. CASE n = at
      BY <2>2, <2>3
    <2>4. CASE n # at
      <3>1. at < n
        BY <1>1, <1>3, <1>5, <2>4
      <3>2. Ahead(side, s[at], s[n]) /\ s[at] \in OrderType /\ s[n] \in OrderType
        BY <1>1, <2>1, <3>1 DEF Sorted
      <3> QED
        BY <2>2, <3>2, AheadIsTransitive
    <2> QED
      BY <2>3, <2>4
  <1>6. SUFFICES ASSUME NEW i \in 1 .. N + 1, NEW j \in 1 .. N + 1, i < j
                 PROVE  Ahead(side, w[i], w[j])
    BY <1>3 DEF Sorted, w
  <1>7. CASE j < at
    <2>1. w[i] = s[i] /\ w[j] = s[j] /\ i \in 1 .. N /\ j \in 1 .. N
      BY <1>1, <1>3, <1>6, <1>7
    <2> QED
      BY <1>1, <1>6, <2>1 DEF Sorted
  <1>8. CASE j = at
    <2>1. w[i] = s[i] /\ w[j] = o /\ i \in 1 .. N /\ i < at
      BY <1>1, <1>3, <1>6, <1>8
    <2> QED
      BY <1>4, <2>1
  <1>9. CASE j > at
    <2>1. w[j] = s[j - 1] /\ j - 1 \in 1 .. N /\ ~(j - 1 < at)
      BY <1>1, <1>3, <1>6, <1>9
    <2>2. CASE i < at
      <3>1. w[i] = s[i] /\ i \in 1 .. N /\ i < j - 1
        BY <1>1, <1>3, <1>6, <1>9, <2>2
      <3> QED
        BY <1>1, <2>1, <3>1 DEF Sorted
    <2>3. CASE i = at
      <3>1. w[i] = o
        BY <1>3, <2>3
      <3> QED
        BY <1>5, <2>1, <3>1
    <2>4. CASE i > at
      <3>1. w[i] = s[i - 1] /\ i - 1 \in 1 .. N /\ i - 1 < j - 1
        BY <1>1, <1>3, <1>6, <2>4
      <3> QED
        BY <1>1, <2>1, <3>1 DEF Sorted
    <2> QED
      BY <1>1, <1>3, <2>2, <2>3, <2>4
  <1> QED
    BY <1>1, <1>3, <1>7, <1>8, <1>9

\* So does taking orders out of it.
LEMMA WithoutKeepsSorted ==
    ASSUME NEW side, NEW s \in Seq(OrderType), Sorted(side, s), NEW D
    PROVE  Sorted(side, Without(s, D))
  <1> DEFINE w == Without(s, D)
  <1>1. w \in Seq(OrderType) /\ \E h : Remains(w, s, D, h)
    BY WithoutIs
  <1>2. PICK h : Remains(w, s, D, h)
    BY <1>1
  <1>3. DOMAIN w = 1 .. Len(w) /\ DOMAIN s = 1 .. Len(s)
    BY <1>1, LenProperties
  <1> HIDE DEF w
  <1>4. \A i, j \in DOMAIN w : i < j => h[i] \in DOMAIN s /\ h[j] \in DOMAIN s /\ h[i] < h[j] /\ w[i] = s[h[i]] /\ w[j] = s[h[j]]
    BY <1>2, <1>3 DEF Remains
  <1> QED
    BY <1>4 DEF Sorted, w

\* A queue that receives a younger order.
LEMMA AppendKeepsRising ==
    ASSUME NEW w \in Seq(OrderType), Rising(w), NEW o \in OrderType, \A r \in In(w) : r.id < o.id
    PROVE  Rising(Append(w, o))
  <1>1. Len(w) \in Nat /\ DOMAIN w = 1 .. Len(w) /\ Append(w, o) \in Seq(OrderType)
    BY LenProperties
  <1>2. /\ DOMAIN Append(w, o) = 1 .. Len(w) + 1
        /\ \A i \in 1 .. Len(w) : Append(w, o)[i] = w[i] /\ w[i] \in In(w)
        /\ Append(w, o)[Len(w) + 1] = o
    BY <1>1, AppendProperties, LenProperties DEF In
  <1>3. SUFFICES ASSUME NEW i \in 1 .. Len(w) + 1, NEW j \in 1 .. Len(w) + 1, i < j
                 PROVE  Append(w, o)[i].id < Append(w, o)[j].id
    BY <1>2 DEF Rising
  <1>4. i \in 1 .. Len(w) /\ (j \in 1 .. Len(w) \/ j = Len(w) + 1)
    BY <1>1, <1>3
  <1>5. CASE j \in 1 .. Len(w)
    BY <1>1, <1>2, <1>3, <1>4, <1>5 DEF Rising
  <1>6. CASE j = Len(w) + 1
    BY <1>2, <1>4, <1>6
  <1> QED
    BY <1>4, <1>5, <1>6

\* A queue that loses its first order, the oldest.
LEMMA TailKeepsRising ==
    ASSUME NEW w \in Seq(OrderType), w # <<>>, Distinct(w), Rising(w)
    PROVE  Rising(Tail(w)) /\ \A r \in In(Tail(w)) : Head(w).id < r.id
  <1>1. /\ Head(w) = w[1] /\ 1 \in DOMAIN w /\ Tail(w) \in Seq(OrderType)
        /\ Len(Tail(w)) = Len(w) - 1 /\ \A i \in 1 .. Len(w) - 1 : Tail(w)[i] = w[i + 1]
    BY TailList
  <1>2. Len(w) \in Nat /\ DOMAIN w = 1 .. Len(w) /\ DOMAIN Tail(w) = 1 .. Len(w) - 1
    BY <1>1, LenProperties
  <1>3. \A i, j \in DOMAIN Tail(w) : i < j => i + 1 \in DOMAIN w /\ j + 1 \in DOMAIN w /\ i + 1 < j + 1
    BY <1>2
  <1>4. Rising(Tail(w))
    BY <1>1, <1>2, <1>3 DEF Rising
  <1>5. ASSUME NEW r \in In(Tail(w)) PROVE Head(w).id < r.id
    <2>1. PICK i \in DOMAIN Tail(w) : r = Tail(w)[i]
      BY DEF In
    <2>2. r = w[i + 1] /\ i + 1 \in DOMAIN w /\ 1 < i + 1
      BY <1>1, <1>2, <2>1
    <2> QED
      BY <1>1, <2>2 DEF Rising
  <1> QED
    BY <1>4, <1>5

\* A book and its queue, when one list of each changes.
LEMMA OneListInOrder ==
    ASSUME NEW bs \in [Sides -> Lists], NEW qs \in [Sides -> Lists], OrderedIn(bs, qs),
           NEW side \in Sides, NEW t \in OrderTypes, NEW s \in Seq(OrderType), NEW w \in Seq(OrderType),
           InOrder(side, s, w),
           NEW cs, Replaces(bs, cs, side, t, s), NEW ds, Replaces(qs, ds, side, t, w)
    PROVE  OrderedIn(cs, ds)
  <1>1. Changes(bs[side], cs[side], t, s) /\ cs[Other(side)] = bs[Other(side)]
    BY ListChanges
  <1>2. Changes(qs[side], ds[side], t, w) /\ ds[Other(side)] = qs[Other(side)]
    BY ListChanges
  <1>3. \A z \in Sides : z = side \/ z = Other(side)
    BY OtherSide
  <1>4. ASSUME NEW z \in Sides, NEW u \in OrderTypes PROVE InOrder(z, cs[z][u], ds[z][u])
    <2>1. CASE z = side /\ u = t
      BY <1>1, <1>2, <2>1 DEF Changes
    <2>2. CASE z = side /\ u # t
      BY <1>1, <1>2, <2>2 DEF Changes, OrderedIn
    <2>3. CASE z = Other(side)
      BY <1>1, <1>2, <2>3 DEF OrderedIn
    <2> QED
      BY <1>3, <2>1, <2>2, <2>3
  <1> QED
    BY <1>4 DEF OrderedIn

\* A list may be said to be replaced by itself.
LEMMA SameReplaces ==
    ASSUME NEW bs \in [Sides -> Lists], NEW side \in Sides, NEW t \in OrderTypes
    PROVE  Replaces(bs, bs, side, t, bs[side][t])
  BY DEF Replaces, Lists

-----------------------------------------------------------------------------
(* The lists stay in order. *)

\* Between two ticks nothing waits in the queues and the page memory is empty.
Quiet == ~Running => queues = Empty /\ page = EmptyPage /\ filled = 0

\* At the start the lists are empty.
LEMMA OrderedInit ==
    ASSUME Init
    PROVE  Ordered /\ Quiet
  <1>1. books = Empty /\ queues = Empty /\ page = EmptyPage /\ filled = 0
    BY DEF Init
  <1>2. \A side \in Sides, t \in OrderTypes : Empty[side][t] = <<>>
    BY DEF Empty
  <1>3. ASSUME NEW side \in Sides PROVE InOrder(side, <<>>, <<>>)
    BY DEF InOrder, Sorted, Rising, In
  <1>4. Ordered
    BY <1>1, <1>2, <1>3 DEF Ordered, OrderedIn
  <1> QED
    BY <1>1, <1>4 DEF Quiet

\* The lists of the books and of the queues.
LEMMA AccountsLists ==
    ASSUME Accounts, NEW side \in Sides, NEW t \in OrderTypes
    PROVE  /\ books \in [Sides -> Lists] /\ queues \in [Sides -> Lists]
           /\ Tidy(books[side], queues[side])
           /\ books[side][t] \in Seq(OrderType) /\ Distinct(books[side][t])
           /\ queues[side][t] \in Seq(OrderType) /\ Distinct(queues[side][t])
           /\ \A o \in In(books[side][t]) \union In(queues[side][t]) : o.id <= lastOrderId /\ o \in OrderType
           /\ lastOrderId \in Nat
  <1>1. /\ books \in [Sides -> Lists] /\ queues \in [Sides -> Lists] /\ lastOrderId \in 0 .. MaxOrders
        /\ Tidy(books[side], queues[side])
        /\ \A o \in OrdersOf(books[side], queues[side]) : o.id <= lastOrderId
    BY DEF Accounts, Accounted, Solvent
  <1>2. /\ books[side][t] \in Seq(OrderType) /\ Distinct(books[side][t])
        /\ queues[side][t] \in Seq(OrderType) /\ Distinct(queues[side][t])
    BY <1>1 DEF Tidy, Lists
  <1>3. In(books[side][t]) \union In(queues[side][t]) \subseteq OrdersOf(books[side], queues[side])
    BY DEF OrdersOf
  <1>4. In(books[side][t]) \subseteq OrderType /\ In(queues[side][t]) \subseteq OrderType
    BY <1>2, InIsFinite
  <1>5. lastOrderId \in Nat
    BY <1>1, ExchangeAssumption
  <1> QED
    BY <1>1, <1>2, <1>3, <1>4, <1>5

\* An insertion outside of ticks, when no order waits.
LEMMA OrderedInsertOrder ==
    ASSUME NEW side \in Sides, NEW t \in OrderTypes, NEW amount \in Amounts, NEW lifespan \in Lifespans,
           NEW price \in PricesOf(t), InsertOrder(side, t, amount, price, lifespan), Accounts, tick \in Nat,
           Ordered, Quiet
    PROVE  Ordered'
  <1> DEFINE o == NewOrder(t, amount, price, lifespan)
             b == books[side][t]
             s == Place(Descending(side), b, o)
             w == queues[side][t]
  <1>1. /\ MayInsert(t, amount) /\ ~Running
        /\ books' = [books EXCEPT ![side][t] = s]
        /\ queues' = queues
    BY DEF InsertOrder
  <1>2. o \in OrderType /\ o.id = lastOrderId + 1
    BY <1>1, NewOrderIs
  <1> HIDE DEF o
  <1>3. /\ books \in [Sides -> Lists] /\ queues \in [Sides -> Lists]
        /\ b \in Seq(OrderType) /\ Distinct(b) /\ w \in Seq(OrderType)
        /\ \A r \in In(b) : r.id <= lastOrderId /\ r \in OrderType
        /\ lastOrderId \in Nat
    BY AccountsLists
  <1>4. w = <<>> /\ In(w) = {}
    BY <1>1 DEF Quiet, Empty, In
  <1>5. InOrder(side, b, w)
    BY DEF Ordered, OrderedIn
  <1>6. Replaces(books, books', side, t, s) /\ Replaces(queues, queues', side, t, w)
    BY <1>1, <1>3, SameReplaces DEF Replaces
  <1> HIDE DEF b, w
  <1>7. \A r \in In(b) : r.id < o.id
    <2> SUFFICES ASSUME NEW r \in In(b) PROVE r.id < o.id
      OBVIOUS
    <2>1. r.id \in Nat /\ r.id <= lastOrderId
      BY <1>3 DEF OrderType, Ids
    <2> QED
      BY <1>2, <1>3, <2>1
  <1>8. o \notin In(b)
    <2> SUFFICES ASSUME o \in In(b) PROVE FALSE
      OBVIOUS
    <2>1. o.id < o.id /\ o.id \in Nat
      BY <1>2, <1>3, <1>7
    <2> QED
      BY <2>1
  <1>9. s \in Seq(OrderType) /\ Sorted(side, s)
    BY <1>2, <1>3, <1>5, <1>7, <1>8, PlaceKeepsSorted, PlaceList DEF InOrder
  <1> HIDE DEF s
  <1>10. InOrder(side, s, w)
    BY <1>4, <1>5, <1>9 DEF InOrder
  <1>11. OrderedIn(books', queues')
    BY <1>3, <1>6, <1>9, <1>10, OneListInOrder DEF Ordered
  <1> QED
    BY <1>11 DEF Ordered

\* An insertion during a tick.
LEMMA OrderedInsertOrderAsPending ==
    ASSUME NEW side \in Sides, NEW t \in OrderTypes, NEW amount \in Amounts, NEW lifespan \in Lifespans,
           NEW price \in PricesOf(t), InsertOrderAsPending(side, t, amount, price, lifespan), Accounts, tick \in Nat,
           Ordered
    PROVE  Ordered'
  <1> DEFINE o == NewOrder(t, amount, price, lifespan)
             b == books[side][t]
             w == queues[side][t]
             s == Append(w, o)
  <1>1. /\ MayInsert(t, amount)
        /\ queues' = [queues EXCEPT ![side][t] = s]
        /\ books' = books
    BY DEF InsertOrderAsPending
  <1>2. o \in OrderType /\ o.id = lastOrderId + 1
    BY <1>1, NewOrderIs
  <1> HIDE DEF o
  <1>3. /\ books \in [Sides -> Lists] /\ queues \in [Sides -> Lists]
        /\ b \in Seq(OrderType) /\ w \in Seq(OrderType) /\ Distinct(w)
        /\ \A r \in In(b) \union In(w) : r.id <= lastOrderId /\ r \in OrderType
        /\ lastOrderId \in Nat
    BY AccountsLists
  <1>5. InOrder(side, b, w)
    BY DEF Ordered, OrderedIn
  <1>6. Replaces(queues, queues', side, t, s) /\ Replaces(books, books', side, t, b)
    BY <1>1, <1>3, SameReplaces DEF Replaces
  <1> HIDE DEF b, w
  <1>7. \A r \in In(b) \union In(w) : r.id < o.id
    <2> SUFFICES ASSUME NEW r \in In(b) \union In(w) PROVE r.id < o.id
      OBVIOUS
    <2>1. r.id \in Nat /\ r.id <= lastOrderId
      BY <1>3 DEF OrderType, Ids
    <2> QED
      BY <1>2, <1>3, <2>1
  <1>8. o \notin In(w)
    <2> SUFFICES ASSUME o \in In(w) PROVE FALSE
      OBVIOUS
    <2>1. o.id < o.id /\ o.id \in Nat
      BY <1>2, <1>3, <1>7
    <2> QED
      BY <2>1
  <1>9. s \in Seq(OrderType) /\ Rising(s) /\ In(s) = In(w) \union {o}
    BY <1>2, <1>3, <1>5, <1>7, <1>8, AppendKeepsRising, AppendList DEF InOrder
  <1> HIDE DEF s
  <1>10. InOrder(side, b, s)
    BY <1>5, <1>7, <1>9 DEF InOrder
  <1>11. OrderedIn(books', queues')
    BY <1>3, <1>6, <1>9, <1>10, OneListInOrder DEF Ordered
  <1> QED
    BY <1>11 DEF Ordered

\* Orders leave a book.
LEMMA OrderedWithout ==
    ASSUME NEW side \in Sides, NEW t \in OrderTypes, NEW D, Accounts, Ordered, queues' = queues,
           books' = [books EXCEPT ![side][t] = Without(@, D)]
    PROVE  Ordered'
  <1> DEFINE b == books[side][t]
             w == queues[side][t]
             s == Without(b, D)
  <1>1. books' = [books EXCEPT ![side][t] = s]
    OBVIOUS
  <1>2. /\ books \in [Sides -> Lists] /\ queues \in [Sides -> Lists]
        /\ b \in Seq(OrderType) /\ Distinct(b) /\ w \in Seq(OrderType)
    BY AccountsLists
  <1>3. InOrder(side, b, w)
    BY DEF Ordered, OrderedIn
  <1>4. Replaces(books, books', side, t, s) /\ Replaces(queues, queues', side, t, w)
    BY <1>1, <1>2, SameReplaces DEF Replaces
  <1> HIDE DEF b, w
  <1>5. s \in Seq(OrderType) /\ Sorted(side, s) /\ In(s) = In(b) \ D
    BY <1>2, <1>3, WithoutKeepsSorted, WithoutList DEF InOrder
  <1> HIDE DEF s
  <1>6. InOrder(side, s, w)
    BY <1>3, <1>5 DEF InOrder
  <1>7. OrderedIn(books', queues')
    BY <1>2, <1>4, <1>5, <1>6, OneListInOrder DEF Ordered
  <1> QED
    BY <1>7 DEF Ordered

\* The lists that a state s of the moving holds.
MoveInOrder(s) == \E l, last : Accounted(s.books, s.queues, l, last) /\ OrderedIn(s.books, s.queues)

\* The oldest order of a queue moves to its book.
LEMMA MoveOneInOrder ==
    ASSUME NEW s, MoveInOrder(s), NEW t \in OrderTypes
    PROVE  MoveInOrder(MoveOne(s, t))
  <1>0. PICK l, last : Accounted(s.books, s.queues, l, last) /\ OrderedIn(s.books, s.queues)
    BY DEF MoveInOrder
  <1>1. CASE Pendings(s.queues, t) = {}
    BY <1>1 DEF MoveOne
  <1>2. CASE Pendings(s.queues, t) # {}
    <2> DEFINE side == IF "buy" \in Pendings(s.queues, t) THEN "buy" ELSE "sell"
               bs == s.books
               qs == s.queues
               b == bs[side][t]
               w == qs[side][t]
               o == Head(w)
               rest == Tail(w)
               placed == Place(Descending(side), b, o)
               cs == [bs EXCEPT ![side][t] = placed]
               ds == [qs EXCEPT ![side][t] = rest]
               m == MoveOne(s, t)
    <2>1. m = [books |-> cs, queues |-> ds]
      BY <1>2 DEF MoveOne
    <2>2. side \in Sides /\ w # <<>>
      BY <1>2 DEF Pendings, Sides
    <2>3. Accounted(m.books, m.queues, l, last)
      BY <1>0, MoveOneAccounted
    <2> HIDE DEF side, m
    <2>4. Replaces(bs, cs, side, t, placed) /\ Replaces(qs, ds, side, t, rest)
      BY DEF Replaces
    <2>5. InOrder(side, b, w)
      BY <1>0, <2>2 DEF OrderedIn
    <2>6. bs \in [Sides -> Lists] /\ qs \in [Sides -> Lists] /\ Tidy(bs[side], qs[side]) /\ OrderedIn(bs, qs)
      BY <1>0, <2>2 DEF Accounted, Solvent
    <2>7. b \in Seq(OrderType) /\ Distinct(b) /\ w \in Seq(OrderType) /\ Distinct(w) /\ In(b) \cap In(w) = {}
      BY <2>6 DEF Tidy, Lists
    <2> HIDE DEF cs, ds, bs, qs, b, w
    <2>8. o \in In(w) /\ rest \in Seq(OrderType) /\ In(rest) = In(w) \ {o}
      BY <2>2, <2>7, TailList
    <2>9. Rising(rest) /\ \A r \in In(rest) : o.id < r.id
      BY <2>2, <2>5, <2>7, TailKeepsRising DEF InOrder
    <2> HIDE DEF o, rest
    <2>10. o \in OrderType /\ o \notin In(b) /\ \A r \in In(b) : r.id < o.id
      BY <2>5, <2>7, <2>8, InIsFinite DEF InOrder
    <2>11. placed \in Seq(OrderType) /\ Sorted(side, placed) /\ In(placed) = In(b) \union {o}
      BY <2>2, <2>5, <2>7, <2>10, PlaceKeepsSorted, PlaceList DEF InOrder
    <2> HIDE DEF placed
    <2>12. InOrder(side, placed, rest)
      BY <2>5, <2>8, <2>9, <2>11 DEF InOrder
    <2>13. OrderedIn(cs, ds)
      BY <2>2, <2>4, <2>6, <2>8, <2>11, <2>12, OneListInOrder
    <2> QED
      BY <2>1, <2>3, <2>13 DEF MoveInOrder, m
  <1> QED
    BY <1>1, <1>2

\* A step of the moving.
LEMMA OrderedMoveStep ==
    ASSUME Accounts, Ordered, MoveStep
    PROVE  Ordered'
  <1> DEFINE s == [books |-> books, queues |-> queues]
             limit == MoveOne(s, "LIMIT_ORDER")
             other == MoveOne(limit, "MARKET_ORDER")
             market == IF Pendings(limit.queues, "LIMIT_ORDER") # {} THEN limit ELSE other
  <1>1. books' = market.books /\ queues' = market.queues
    BY DEF MoveStep
  <1>2. s.books = books /\ s.queues = queues
    OBVIOUS
  <1> HIDE DEF s
  <1>3. MoveInOrder(s)
    BY <1>2 DEF Accounts, Ordered, MoveInOrder
  <1>4. MoveInOrder(limit)
    BY <1>3, MoveOneInOrder DEF OrderTypes
  <1> HIDE DEF limit
  <1>5. MoveInOrder(other)
    BY <1>4, MoveOneInOrder DEF OrderTypes
  <1> HIDE DEF other
  <1>6. MoveInOrder(market)
    BY <1>4, <1>5
  <1> HIDE DEF market
  <1> QED
    BY <1>1, <1>6 DEF Ordered, MoveInOrder

-----------------------------------------------------------------------------
(* A match of the matching. *)

\* The book of a side after a match of its top.
LEMMA AfterMatchIs ==
    ASSUME NEW side \in Sides, NEW b, NEW q, Tidy(b, q), SortedBook(side, b),
           NEW order, order = TopOf(page.marketPrice, side, b), order.id # 0, ~isExpired(order),
           NEW sent, NEW isFilled \in BOOLEAN, NEW rest, rest = subtractAmount(order, sent),
           ~isFilled => rest \in OrderType /\ Same(rest, order) /\ rest.expiresInTick = order.expiresInTick,
           NEW c, c = AfterMatch(side, b, order, sent, isFilled)
    PROVE  /\ SortedBook(side, c)
           /\ ValidOf(c) = SideAfter(ValidOf(b), order, isFilled, rest)
           /\ \A t \in OrderTypes : \A o \in In(c[t]) : \E r \in In(b[t]) : o.id = r.id
  <1> DEFINE mp == page.marketPrice
             u == order.orderType
             s == Tail(b[u])
             D == {rest}
  <1>1. b \in SideBooks /\ order = TopOf(mp, side, b)
    BY TidyIsSideBook
  <1> HIDE DEF mp
  <1>2. order \in OrderType /\ u \in OrderTypes /\ b[u] # <<>> /\ order = Head(b[u]) /\ order \in In(b[u])
    BY <1>1, TopIs
  <1> HIDE DEF u
  <1>3. b[u] \in Seq(OrderType) /\ Distinct(b[u]) /\ Sorted(side, b[u])
    BY <1>2 DEF Tidy, Lists, SortedBook
  <1>4. /\ order = b[u][1] /\ s \in Seq(OrderType) /\ Distinct(s) /\ In(s) = In(b[u]) \ {order}
        /\ Len(s) = Len(b[u]) - 1 /\ \A i \in 1 .. Len(b[u]) - 1 : s[i] = b[u][i + 1]
    BY <1>2, <1>3, TailList
  <1>5. DOMAIN b[u] = 1 .. Len(b[u]) /\ Len(b[u]) \in Nat
    BY <1>3, LenProperties
  <1>6. Sorted(side, s)
    BY <1>2, <1>3, SortedTail
  <1>7. \A t \in OrderTypes : \A o \in In(b[t]) : o.orderType = t
    BY DEF Tidy
  <1>8. \A o \in In(b[u]) : o.id = order.id => o = order
    <2>1. \A o \in In(b[u]) : o \in OrdersOf(b, q)
      BY <1>2 DEF OrdersOf
    <2> QED
      BY <1>2, <2>1 DEF Tidy
  <1>9. \A x : x \in D <=> x = rest
    OBVIOUS
  <1> HIDE DEF s, D
  <1>10. CASE isFilled
    <2>1. c = Popped(mp, side, b)
      BY <1>10 DEF AfterMatch, mp
    <2>2. Changes(b, c, u, s)
      BY <1>1, <2>1, PoppedIs DEF u, s
    <2>3. c[u] = s /\ \A t \in OrderTypes : t # u => c[t] = b[t]
      BY <2>2 DEF Changes
    <2>4. SortedBook(side, c)
      BY <1>6, <2>3 DEF SortedBook
    <2>5. ASSUME NEW t \in OrderTypes
          PROVE  {o \in In(c[t]) : ~isExpired(o)} = SideAfter(ValidOf(b), order, isFilled, rest)[t]
      <3>1. CASE t = u
        BY <1>4, <1>10, <2>3, <3>1 DEF SideAfter, ValidOf, u
      <3>2. CASE t # u
        BY <2>3, <3>2 DEF SideAfter, ValidOf, u
      <3> QED
        BY <3>1, <3>2
    <2>6. ValidOf(c) = SideAfter(ValidOf(b), order, isFilled, rest)
      <3>1. SideAfter(ValidOf(b), order, isFilled, rest) =
                [t \in OrderTypes |-> SideAfter(ValidOf(b), order, isFilled, rest)[t]]
        BY DEF SideAfter
      <3> QED
        BY <2>5, <3>1, Zenon DEF ValidOf
    <2>7. \A t \in OrderTypes : In(c[t]) \subseteq In(b[t])
      BY <1>4, <2>3
    <2> QED
      BY <2>4, <2>6, <2>7
  <1>11. CASE ~isFilled
    <2> DEFINE r == <<rest>> \o s
    <2>1. c = [b EXCEPT ![u] = r]
      BY <1>11 DEF AfterMatch, u, s
    <2>2. rest \in OrderType /\ rest.id = order.id /\ rest.price = order.price /\ rest.expiresInTick = order.expiresInTick
      BY <1>11 DEF Same
    <2>3. rest \notin In(s)
      BY <1>4, <1>8, <2>2
    <2>4. /\ r \in Seq(OrderType) /\ In(r) = In(s) \union {rest} /\ Len(r) = Len(s) + 1
          /\ r[1] = rest /\ \A k \in 2 .. Len(s) + 1 : r[k] = s[k - 1]
      BY <1>4, <2>2, <2>3, FrontList
    <2>5. DOMAIN r = 1 .. Len(b[u]) /\ In(r) = In(s) \union D
      BY <1>4, <1>5, <2>4, LenProperties DEF D
    <2> HIDE DEF r
    <2>6. \A k \in 2 .. Len(b[u]) : r[k] = b[u][k]
      <3> SUFFICES ASSUME NEW k \in 2 .. Len(b[u]) PROVE r[k] = b[u][k]
        OBVIOUS
      <3>1. k \in 2 .. Len(s) + 1 /\ k - 1 \in 1 .. Len(b[u]) - 1 /\ (k - 1) + 1 = k
        BY <1>4, <1>5
      <3> QED
        BY <1>4, <2>4, <3>1
    <2>7. Sorted(side, r)
      <3> SUFFICES ASSUME NEW i \in 1 .. Len(b[u]), NEW j \in 1 .. Len(b[u]), i < j
                   PROVE  Ahead(side, r[i], r[j])
        BY <2>5 DEF Sorted
      <3>1. j \in 2 .. Len(b[u]) /\ (i = 1 \/ i \in 2 .. Len(b[u]))
        BY <1>5
      <3>2. Ahead(side, b[u][i], b[u][j]) /\ r[j] = b[u][j]
        BY <1>3, <1>5, <2>6, <3>1 DEF Sorted
      <3>3. CASE i = 1
        BY <1>4, <2>2, <2>4, <3>2, <3>3 DEF Ahead
      <3>4. CASE i \in 2 .. Len(b[u])
        BY <2>6, <3>2, <3>4
      <3> QED
        BY <3>1, <3>3, <3>4
    <2>8. c[u] = r /\ \A t \in OrderTypes : t # u => c[t] = b[t]
      <3>1. b \in Lists
        BY DEF Tidy
      <3> QED
        BY <1>2, <2>1, <3>1 DEF Lists
    <2>9. SortedBook(side, c)
      BY <2>7, <2>8 DEF SortedBook
    <2>10. ~isExpired(rest)
      BY <2>2 DEF isExpired
    <2>11. ASSUME NEW t \in OrderTypes
          PROVE  {o \in In(c[t]) : ~isExpired(o)} = SideAfter(ValidOf(b), order, isFilled, rest)[t]
      <3>1. CASE t = u
        <4>1. SideAfter(ValidOf(b), order, isFilled, rest)[t] = ({o \in In(b[u]) : ~isExpired(o)} \ {order}) \union D
          BY <1>11, <3>1 DEF SideAfter, ValidOf, u, D
        <4>2. In(c[t]) = (In(b[u]) \ {order}) \union D
          BY <1>4, <2>5, <2>8, <3>1
        <4> QED
          BY <1>9, <2>10, <4>1, <4>2
      <3>2. CASE t # u
        BY <2>8, <3>2 DEF SideAfter, ValidOf, u
      <3> QED
        BY <3>1, <3>2
    <2>12. ValidOf(c) = SideAfter(ValidOf(b), order, isFilled, rest)
      <3>1. SideAfter(ValidOf(b), order, isFilled, rest) =
                [t \in OrderTypes |-> SideAfter(ValidOf(b), order, isFilled, rest)[t]]
        BY DEF SideAfter
      <3> QED
        BY <2>11, <3>1, Zenon DEF ValidOf
    <2>13. ASSUME NEW t \in OrderTypes, NEW o \in In(c[t]) PROVE \E z \in In(b[t]) : o.id = z.id
      <3>1. CASE t = u
        BY <1>2, <1>4, <1>9, <2>2, <2>5, <2>8, <3>1
      <3>2. CASE t # u
        BY <2>8, <3>2
      <3> QED
        BY <3>1, <3>2
    <2> QED
      BY <2>9, <2>12, <2>13
  <1> QED
    BY <1>10, <1>11

\* The moment the matching is at.
Now == [left |-> [side \in Sides |-> ValidOf(books[side])], filled |-> filled]

\* It is a moment.
LEMMA NowIs ==
    ASSUME Accounts, filled \in Nat
    PROVE  /\ IsMoment(Now) /\ Now.filled = filled
           /\ \A side \in Sides : Now.left[side] = ValidOf(books[side])
  <1>1. /\ Now.filled = filled
        /\ \A side \in Sides : Now.left[side] = ValidOf(books[side])
    BY DEF Now
  <1>2. \A side \in Sides : Tidy(books[side], queues[side])
    BY DEF Accounts, Accounted, Solvent
  <1> QED
    BY <1>1, <1>2, BookIsPool DEF IsMoment

\* What the matching finds at the tops of the two books.
LEMMA FrontsAreNow ==
    ASSUME Accounts, Ordered, page.marketPrice \in Nat
    PROVE  /\ Keeps("buy", queues["buy"], books["buy"], BuyFront.book) /\ Stable("buy", BuyFront)
           /\ Keeps("sell", queues["sell"], books["sell"], SellFront.book) /\ Stable("sell", SellFront)
           /\ BestBuy = TopAt(page.marketPrice, Now, "buy")
           /\ BestSell = TopAt(page.marketPrice, Now, "sell")
  <1>1. /\ Ledger \in Ledgers
        /\ \A side \in Sides : Solvent(books[side], queues[side], Net(Ledger, side)) /\ Tidy(books[side], queues[side])
    BY DEF Accounts, Accounted, Solvent
  <1>2. \A side \in Sides : SortedBook(side, books[side])
    BY DEF Ordered, OrderedIn, InOrder, SortedBook
  <1>3. "buy" \in Sides /\ "sell" \in Sides
    BY DEF Sides
  <1> DEFINE x == BuyFront
             y == SellFront
             bb == books["buy"]
             sb == books["sell"]
             bq == queues["buy"]
             sq == queues["sell"]
  <1>4. x = DropExpired("buy", bb, Ledger) /\ y = DropExpired("sell", sb, x.ledger)
    BY DEF BuyFront, SellFront
  <1>5. x.ledger \in Ledgers
    <2>1. Leaves("buy", bq, bb, Ledger, DropExpired("buy", bb, Ledger).book, DropExpired("buy", bb, Ledger).ledger)
      BY <1>1, <1>3, DropExpiredLeaves
    <2> QED
      BY <1>4, <2>1 DEF Leaves
  <1>6. Tidy(bb, bq) /\ SortedBook("buy", bb) /\ Tidy(sb, sq) /\ SortedBook("sell", sb)
    BY <1>1, <1>2, <1>3
  <1> HIDE DEF x, y
  <1>7. TopOf(page.marketPrice, "buy", x.book) = BestBuy /\ TopOf(page.marketPrice, "sell", y.book) = BestSell
    BY DEF BestBuy, BestSell, x, y
  <1>8. TopAt(page.marketPrice, Now, "buy") = Top(page.marketPrice, "buy", ValidOf(bb))
        /\ TopAt(page.marketPrice, Now, "sell") = Top(page.marketPrice, "sell", ValidOf(sb))
    BY <1>3 DEF TopAt, Now
  <1> HIDE DEF bb, sb, bq, sq
  <1>9. Keeps("buy", bq, bb, x.book) /\ Stable("buy", x)
    BY <1>1, <1>3, <1>4, <1>6, DropExpiredKeeps
  <1>10. Keeps("sell", sq, sb, y.book) /\ Stable("sell", y)
    BY <1>3, <1>4, <1>5, <1>6, DropExpiredKeeps
  <1>11. TopOf(page.marketPrice, "buy", x.book) = Top(page.marketPrice, "buy", ValidOf(bb))
    BY <1>3, <1>9, StableTop
  <1>12. TopOf(page.marketPrice, "sell", y.book) = Top(page.marketPrice, "sell", ValidOf(sb))
    BY <1>3, <1>10, StableTop
  <1> QED
    BY <1>7, <1>8, <1>9, <1>10, <1>11, <1>12 DEF x, y, bb, sb, bq, sq

\* The book b of a side and its queues q.
SideInOrder(side, b, q) == \A t \in OrderTypes : InOrder(side, b[t], q[t])

\* What is left of an order that a match does not fill.
Remainder(order, sent, isFilled, rest) ==
    ~isFilled => /\ rest = subtractAmount(order, sent) /\ rest \in OrderType /\ Same(rest, order)
                 /\ rest.expiresInTick = order.expiresInTick

\* A side after a match of its top.
LEMMA MatchedSide ==
    ASSUME NEW side \in Sides, NEW b, NEW q, NEW x, Keeps(side, q, b, x.book), Stable(side, x),
           SideInOrder(side, b, q),
           NEW order, order = TopOf(page.marketPrice, side, x.book), order.id # 0,
           NEW sent, NEW isFilled \in BOOLEAN, NEW rest, Remainder(order, sent, isFilled, rest),
           NEW c, c = AfterMatch(side, x.book, order, sent, isFilled)
    PROVE  /\ SideInOrder(side, c, q)
           /\ ValidOf(c) = SideAfter(ValidOf(b), order, isFilled, rest)
  <1> DEFINE d == x.book
             r == subtractAmount(order, sent)
  <1>1. /\ Tidy(d, q) /\ SortedBook(side, d) /\ ValidOf(d) = ValidOf(b)
        /\ \A t \in OrderTypes : In(d[t]) \subseteq In(b[t])
    BY DEF Keeps
  <1>2. ~isExpired(order)
    BY DEF Stable
  <1>3. order = TopOf(page.marketPrice, side, d) /\ c = AfterMatch(side, d, order, sent, isFilled)
    OBVIOUS
  <1> HIDE DEF d, r
  <1>4. r = subtractAmount(order, sent)
    BY DEF r
  <1>5. ~isFilled => r = rest /\ r \in OrderType /\ Same(r, order) /\ r.expiresInTick = order.expiresInTick
    BY <1>4 DEF Remainder
  <1>6. /\ SortedBook(side, c)
        /\ ValidOf(c) = SideAfter(ValidOf(d), order, isFilled, r)
        /\ \A t \in OrderTypes : \A o \in In(c[t]) : \E z \in In(d[t]) : o.id = z.id
    BY <1>1, <1>2, <1>3, <1>4, <1>5, AfterMatchIs
  <1>7. SideAfter(ValidOf(d), order, isFilled, r) = SideAfter(ValidOf(b), order, isFilled, rest)
    <2>1. CASE isFilled
      BY <1>1, <2>1 DEF SideAfter
    <2>2. CASE ~isFilled
      BY <1>1, <1>5, <2>2
    <2> QED
      BY <2>1, <2>2
  <1>8. ASSUME NEW t \in OrderTypes PROVE InOrder(side, c[t], q[t])
    <2>1. Sorted(side, c[t])
      BY <1>6 DEF SortedBook
    <2>2. Rising(q[t]) /\ \A o \in In(b[t]), z \in In(q[t]) : o.id < z.id
      BY DEF SideInOrder, InOrder
    <2>3. \A o \in In(c[t]) : \E z \in In(b[t]) : o.id = z.id
      BY <1>1, <1>6
    <2>4. \A o \in In(c[t]), z \in In(q[t]) : o.id < z.id
      BY <2>2, <2>3
    <2> QED
      BY <2>1, <2>2, <2>4 DEF InOrder
  <1> QED
    BY <1>6, <1>7, <1>8 DEF SideInOrder

\* The match that the matching does is the next of the run.
LEMMA MatchIsAfter ==
    ASSUME Accounts, Ordered, page \in Pages, filled \in Nat, MatchBest, tick' = tick, queues' = queues,
           Meet(page.marketPrice, Now)
    PROVE  /\ Now' = After(page.marketPrice, Now)
           /\ Ordered'
           /\ Bid(page.marketPrice, Now) # 0
  <1> DEFINE mp == page.marketPrice
             b == BestBuy
             s == BestSell
             bp == PriceOf(page, BestBuy)
             sp == PriceOf(page, BestSell)
             m == Match(b, bp, s, sp, page.emergentPrice)
             fills == FilledBy(m.matchType)
             bf == "buy" \in fills
             sf == "sell" \in fills
             bb == AfterMatch("buy", BuyFront.book, b, m.expectedSend, bf)
             sb == AfterMatch("sell", SellFront.book, s, m.limiting, sf)
             i == compareIntents(b.amount, bp, s.amount)
  <1>1. /\ CanMatch
        /\ books' = [buy |-> bb, sell |-> sb]
        /\ filled' = filled + Cardinality(fills)
    BY DEF MatchBest, FilledBy
  <1>2. bp # 0 /\ b.id # 0 /\ s.id # 0
    BY <1>1 DEF CanMatch, NoRevert
  <1>3. mp \in Nat
    BY DEF Pages
  <1>4. /\ Keeps("buy", queues["buy"], books["buy"], BuyFront.book) /\ Stable("buy", BuyFront)
        /\ Keeps("sell", queues["sell"], books["sell"], SellFront.book) /\ Stable("sell", SellFront)
        /\ b = TopAt(mp, Now, "buy") /\ s = TopAt(mp, Now, "sell")
    BY <1>3, FrontsAreNow
  <1>5. /\ b = TopOf(mp, "buy", BuyFront.book) /\ s = TopOf(mp, "sell", SellFront.book)
        /\ bp = getOrderPrice(mp, b)
    BY DEF BestBuy, BestSell, PriceOf
  <1>6. /\ m.matchType = i.matchType /\ m.limiting = i.limitingAmount
        /\ m.matchType = "SELLER_FILL" => m.expectedSend = convertToBase(i.limitingAmount, bp)
    BY DEF Match
  <1> HIDE DEF m, b, s, bp
  <1>7. Bid(mp, Now) = bp /\ Intents(mp, Now) = i
    BY <1>4, <1>5 DEF Bid, Intents
  <1> HIDE DEF i
  <1>8. Fills(mp, Now) = fills
    BY <1>6, <1>7 DEF Fills
  <1>9. IsMoment(Now) /\ Now.filled = filled /\ \A side \in Sides : Now.left[side] = ValidOf(books[side])
    BY NowIs
  <1>10. Meet(mp, Now)
    OBVIOUS
  <1> HIDE DEF mp
  <1>11. /\ Intents(mp, Now).matchType \in {"DOUBLE_FILL", "BUYER_FILL", "SELLER_FILL"}
         /\ \A side \in Sides \ Fills(mp, Now) :
                /\ Rest(mp, Now, side) \in OrderType /\ Same(Rest(mp, Now, side), TopAt(mp, Now, side))
                /\ Rest(mp, Now, side).expiresInTick = TopAt(mp, Now, side).expiresInTick
    BY <1>2, <1>3, <1>7, <1>9, <1>10, RestIs
  <1>12. /\ ~bf => m.matchType = "SELLER_FILL"
         /\ ~sf => m.matchType = "BUYER_FILL"
    BY <1>6, <1>7, <1>11 DEF FilledBy, Sides
  <1> HIDE DEF fills
  <1> DEFINE br == Rest(mp, Now, "buy")
             sr == Rest(mp, Now, "sell")
  <1>13. /\ ~bf => br = subtractAmount(b, m.expectedSend)
         /\ ~sf => sr = subtractAmount(s, m.limiting)
    BY <1>4, <1>6, <1>7, <1>12 DEF Rest, Spent
  <1>14. "buy" \in Sides /\ "sell" \in Sides /\ \A side \in Sides : side = "buy" \/ side = "sell"
    BY DEF Sides
  <1>15. /\ ~bf => br \in OrderType /\ Same(br, b) /\ br.expiresInTick = b.expiresInTick
         /\ ~sf => sr \in OrderType /\ Same(sr, s) /\ sr.expiresInTick = s.expiresInTick
    BY <1>4, <1>8, <1>11, <1>14
  <1>16. /\ \A t \in OrderTypes : InOrder("buy", books["buy"][t], queues["buy"][t])
         /\ \A t \in OrderTypes : InOrder("sell", books["sell"][t], queues["sell"][t])
    BY <1>14 DEF Ordered, OrderedIn
  <1>17. bf \in BOOLEAN /\ sf \in BOOLEAN
    OBVIOUS
  <1>18. LeftAfter(mp, Now, "buy") = SideAfter(ValidOf(books["buy"]), b, bf, br)
         /\ LeftAfter(mp, Now, "sell") = SideAfter(ValidOf(books["sell"]), s, sf, sr)
    BY <1>4, <1>8, <1>9, <1>14 DEF LeftAfter
  <1> DEFINE x == BuyFront
             y == SellFront
             qb == queues["buy"]
             qs == queues["sell"]
             ob == books["buy"]
             os == books["sell"]
             es == m.expectedSend
             li == m.limiting
  <1>19. Keeps("buy", qb, ob, x.book) /\ Stable("buy", x) /\ b = TopOf(page.marketPrice, "buy", x.book)
         /\ Keeps("sell", qs, os, y.book) /\ Stable("sell", y) /\ s = TopOf(page.marketPrice, "sell", y.book)
         /\ (~bf => br = subtractAmount(b, es)) /\ (~sf => sr = subtractAmount(s, li))
    BY <1>4, <1>5, <1>13 DEF mp
  <1>20. bb = AfterMatch("buy", x.book, b, es, bf) /\ sb = AfterMatch("sell", y.book, s, li, sf)
    OBVIOUS
  <1>21. (\A t \in OrderTypes : InOrder("buy", ob[t], qb[t])) /\ (\A t \in OrderTypes : InOrder("sell", os[t], qs[t]))
    BY <1>16
  <1> HIDE DEF x, y, qb, qs, ob, os, es, li, bf, sf, br, sr, bb, sb
  <1>22. SideInOrder("buy", bb, qb) /\ ValidOf(bb) = SideAfter(ValidOf(ob), b, bf, br)
    <2>1. Keeps("buy", qb, ob, x.book) /\ Stable("buy", x) /\ "buy" \in Sides
      BY <1>14, <1>19
    <2>2. b = TopOf(page.marketPrice, "buy", x.book) /\ b.id # 0
      BY <1>2, <1>19
    <2>3. Remainder(b, es, bf, br)
      BY <1>15, <1>19 DEF Remainder
    <2>4. bb = AfterMatch("buy", x.book, b, es, bf) /\ bf \in BOOLEAN
      BY <1>17, <1>20
    <2>5. SideInOrder("buy", ob, qb)
      BY <1>21 DEF SideInOrder
    <2> QED
      BY <2>1, <2>2, <2>3, <2>4, <2>5, MatchedSide
  <1>23. SideInOrder("sell", sb, qs) /\ ValidOf(sb) = SideAfter(ValidOf(os), s, sf, sr)
    <2>1. Keeps("sell", qs, os, y.book) /\ Stable("sell", y) /\ "sell" \in Sides
      BY <1>14, <1>19
    <2>2. s = TopOf(page.marketPrice, "sell", y.book) /\ s.id # 0
      BY <1>2, <1>19
    <2>3. Remainder(s, li, sf, sr)
      BY <1>15, <1>19 DEF Remainder
    <2>4. sb = AfterMatch("sell", y.book, s, li, sf) /\ sf \in BOOLEAN
      BY <1>17, <1>20
    <2>5. SideInOrder("sell", os, qs)
      BY <1>21 DEF SideInOrder
    <2> QED
      BY <2>1, <2>2, <2>3, <2>4, <2>5, MatchedSide
  <1>24. books'["buy"] = bb /\ books'["sell"] = sb
    BY <1>1
  <1>25. Ordered'
    <2>1. ASSUME NEW side \in Sides, NEW t \in OrderTypes PROVE InOrder(side, books'[side][t], queues'[side][t])
      BY <1>14, <1>22, <1>23, <1>24 DEF SideInOrder, qb, qs
    <2> QED
      BY <2>1 DEF Ordered, OrderedIn
  <1>26. Now' = After(mp, Now)
    <2>1. ASSUME NEW side \in Sides PROVE (ValidOf(books[side]))' = LeftAfter(mp, Now, side)
      <3>1. (ValidOf(books[side]))' = ValidOf(books'[side])
        BY DEF ValidOf, isExpired
      <3> QED
        BY <1>14, <1>18, <1>22, <1>23, <1>24, <3>1 DEF ob, os
    <2>2. Now' = [left |-> [side \in Sides |-> (ValidOf(books[side]))'], filled |-> filled']
      BY DEF Now
    <2>3. filled' = Now.filled + Cardinality(Fills(mp, Now))
      BY <1>1, <1>8, <1>9
    <2> QED
      BY <2>1, <2>2, <2>3, Zenon DEF After
  <1> QED
    BY <1>2, <1>7, <1>25, <1>26 DEF mp

-----------------------------------------------------------------------------
(* The simulation walks the books as the matching will empty them. *)

\* The same order, up to the commission left in it.
Like(o, r) == Same(o, r) /\ o.amount = r.amount

\* What the simulation has not reached of the orders V of a side.
Onward(side, V, ids) == [t \in OrderTypes |-> AfterId(side, V[t], ids[t])]

\* The ids to go on from after an order.
Passed(ids, o) == [ids EXCEPT ![o.orderType] = o.id]

\* Each id is that of an order of V, or 0.
Known(V, ids) == \A t \in OrderTypes : ids[t] = 0 \/ \E o \in V[t] : o.id = ids[t]

\* The orders L but for their top.
Below(L, top) == [t \in OrderTypes |-> L[t] \ {top}]

\* An order is not like itself ahead of itself: what comes after the top of what comes
\* after the ids is what comes after it.
LEMMA AfterTheTop ==
    ASSUME NEW side \in Sides, NEW mp \in Nat, NEW V, Pool(V), NEW ids \in [OrderTypes -> Nat], Known(V, ids),
           NEW L, L = Onward(side, V, ids), NEW top, top = Top(mp, side, L), top.id # 0,
           NEW new, new = Passed(ids, top)
    PROVE  Known(V, new) /\ Below(L, top) = Onward(side, V, new)
  <1>1. Part(L, V)
    BY DEF Part, Onward, AfterId
  <1>2. Pool(L)
    BY <1>1, TopOfPart, SpotPriceIsNat
  <1>3. Known(V, new) /\ Below(L, top) = Onward(side, V, new)
    <2> DEFINE u == top.orderType
    <2>1. top \in OrderType /\ u \in OrderTypes /\ top \in L[u] /\ IsFirst(side, top, L[u])
      BY <1>2, TopOfPool
    <2> HIDE DEF u
    <2>2. new[u] = top.id /\ \A t \in OrderTypes : t # u => new[t] = ids[t]
      BY <2>1 DEF u, Passed
    <2>3. /\ \A t \in OrderTypes : L[t] = AfterId(side, V[t], ids[t]) /\ L[t] \subseteq V[t]
          /\ \A t \in OrderTypes : V[t] \subseteq OrderType
          /\ \A t \in OrderTypes : \A o \in V[t] : o.orderType = t
          /\ \A t \in OrderTypes : \A o, r \in V[t] : o.id = r.id => o = r
      BY <1>1 DEF Onward, Part, Pool
    <2>4. Known(V, new)
      BY <2>1, <2>2, <2>3 DEF Known
    <2>5. ASSUME NEW t \in OrderTypes PROVE L[t] \ {top} = AfterId(side, V[t], new[t])
      <3>1. CASE t # u
        <4>1. top \notin L[t]
          BY <2>3, <3>1 DEF u
        <4> QED
          BY <2>2, <2>3, <3>1, <4>1
      <3>2. CASE t = u
        <4>1. \A r : r \in AfterId(side, V[t], new[t]) <=> r \in V[t] /\ Ahead(side, top, r)
          BY <2>1, <2>2, <2>3, <3>2 DEF AfterId
        <4>2. ASSUME NEW r \in L[t] \ {top} PROVE r \in V[t] /\ Ahead(side, top, r)
          BY <2>1, <2>3, <3>2 DEF IsFirst
        <4>3. ASSUME NEW r \in V[t], Ahead(side, top, r) PROVE r \in L[t] \ {top}
          <5>1. r \in OrderType /\ r # top
            BY <2>1, <2>3, <4>3, AheadIsAnOrder
          <5>2. CASE ids[t] = 0
            BY <2>3, <5>1, <5>2 DEF AfterId
          <5>3. CASE ids[t] # 0
            <6>1. PICK o \in V[t] : o.id = ids[t] /\ Ahead(side, o, top)
              BY <2>1, <2>3, <3>2, <5>3 DEF AfterId
            <6>2. Ahead(side, o, r)
              BY <2>1, <2>3, <4>3, <5>1, <6>1, AheadIsTransitive
            <6> QED
              BY <2>3, <5>1, <6>1, <6>2 DEF AfterId
          <5> QED
            BY <5>2, <5>3
        <4> QED
          BY <4>1, <4>2, <4>3
      <3> QED
        BY <3>1, <3>2
    <2>6. Below(L, top) = Onward(side, V, new)
      BY <2>5, Zenon DEF Below, Onward
    <2> QED
      BY <2>4, <2>6
  <1> QED
    BY <1>3

\* getNextValidOrder finds the top of what the simulation has not reached.
LEMMA NextIs ==
    ASSUME Accounts, Ordered, NEW p \in Pages, NEW side \in Sides, NEW V, V = ValidOf(books[side]),
           NEW ids, ids = p.lastIds[side], Known(V, ids),
           NEW next, next = Top(p.marketPrice, side, Onward(side, V, ids))
    PROVE  /\ getNextValidOrder(p, side).order = next
           /\ getNextValidOrder(p, side).ids = Passed(ids, next)
  <1> DEFINE b == books[side]
             L == Onward(side, V, ids)
             l == NextValid(b["LIMIT_ORDER"], ids["LIMIT_ORDER"])
             m == NextValid(b["MARKET_ORDER"], ids["MARKET_ORDER"])
  <1>1. Tidy(b, queues[side]) /\ SortedBook(side, b)
    BY DEF Accounts, Accounted, Solvent, Ordered, OrderedIn, InOrder, SortedBook
  <1>2. \A t \in OrderTypes : V[t] = {o \in In(b[t]) : ~isExpired(o)} /\ L[t] = AfterId(side, V[t], ids[t])
    BY DEF ValidOf, Onward
  <1>3. \A t \in OrderTypes : b[t] \in Seq(OrderType) /\ OneOfEachId(In(b[t])) /\ Sorted(side, b[t])
    BY <1>1, BookIsPool DEF SortedBook
  <1>4. \A t \in OrderTypes : ids[t] = 0 \/ \E o \in V[t] : o.id = ids[t]
    BY DEF Known
  <1> DEFINE next0 == mostCompetitiveOrder(p.marketPrice, side, l, m)
  <1>5. getNextValidOrder(p, side) = [order |-> next0, ids |-> [ids EXCEPT ![next0.orderType] = next0.id]]
    BY DEF getNextValidOrder
  <1> HIDE DEF b, L
  <1>6. \A t \in OrderTypes : NextValid(b[t], ids[t]) = First(side, L[t])
    <2> SUFFICES ASSUME NEW t \in OrderTypes PROVE NextValid(b[t], ids[t]) = First(side, L[t])
      OBVIOUS
    <2> DEFINE s == b[t]
               W == V[t]
               id == ids[t]
    <2>1. s \in Seq(OrderType) /\ OneOfEachId(In(s)) /\ Sorted(side, s) /\ W = {o \in In(s) : ~isExpired(o)}
          /\ (id = 0 \/ \E o \in W : o.id = id) /\ L[t] = AfterId(side, W, id)
      BY <1>2, <1>3, <1>4
    <2> HIDE DEF s, W, id
    <2>2. NextValid(s, id) = First(side, AfterId(side, W, id))
      BY <2>1, NextValidIsFirst
    <2> QED
      BY <2>1, <2>2 DEF s, id
  <1>7. next0 = Top(p.marketPrice, side, L)
    BY <1>6 DEF OrderTypes, Top
  <1> HIDE DEF next0
  <1>8. next0 = next
    BY <1>7 DEF L
  <1> QED
    BY <1>5, <1>8 DEF Passed

\* What a match leaves below the top of a side.
LEMMA LeavesBelow ==
    ASSUME NEW L, Pool(L), NEW top \in OrderType, top \in L[top.orderType], NEW isFilled \in BOOLEAN,
           NEW rest, ~isFilled => Same(rest, top)
    PROVE  /\ isFilled => SideAfter(L, top, isFilled, rest) = Below(L, top)
           /\ ~isFilled => Below(SideAfter(L, top, isFilled, rest), rest) = Below(L, top)
  <1> DEFINE M == SideAfter(L, top, isFilled, rest)
             u == top.orderType
             D == {rest}
  <1>1. /\ \A t \in OrderTypes : t # u => M[t] = L[t]
        /\ u \in OrderTypes => /\ isFilled => M[u] = L[u] \ {top}
                               /\ ~isFilled => M[u] = (L[u] \ {top}) \union D
        /\ M = [t \in OrderTypes |-> M[t]]
    BY DEF SideAfter
  <1>2. \A t \in OrderTypes : \A o \in L[t] : o.orderType = t
    BY DEF Pool
  <1>3. \A t \in OrderTypes : t # u => top \notin L[t]
    BY <1>2
  <1>4. \A x : x \in D <=> x = rest
    OBVIOUS
  <1> HIDE DEF M, D
  <1>5. CASE isFilled
    <2>1. ASSUME NEW t \in OrderTypes PROVE M[t] = L[t] \ {top}
      <3>1. CASE t = u
        BY <1>1, <1>5, <3>1
      <3>2. CASE t # u
        BY <1>1, <1>3, <3>2
      <3> QED
        BY <3>1, <3>2
    <2>2. M = Below(L, top)
      BY <1>1, <2>1, Zenon DEF Below
    <2> QED
      BY <1>5, <2>2 DEF M
  <1>6. CASE ~isFilled
    <2>1. ASSUME NEW t \in OrderTypes PROVE M[t] \ {rest} = L[t] \ {top}
      <3>1. CASE t = u
        <4>1. rest \notin L[u] \ {top}
          <5> SUFFICES ASSUME rest \in L[u], rest # top PROVE FALSE
            OBVIOUS
          <5>1. rest.id = top.id
            BY <1>6 DEF Same
          <5> QED
            BY <3>1, <5>1 DEF Pool
        <4> QED
          BY <1>1, <1>4, <1>6, <3>1, <4>1
      <3>2. CASE t # u
        <4>1. rest \notin L[t]
          BY <1>2, <1>6, <3>2 DEF Same
        <4> QED
          BY <1>1, <1>3, <3>2, <4>1
      <3> QED
        BY <3>1, <3>2
    <2>2. Below(M, rest) = Below(L, top)
      BY <2>1, Zenon DEF Below
    <2> QED
      BY <1>6, <2>2 DEF M
  <1> QED
    BY <1>5, <1>6

\* The simulation is at the top of L: "order" is like it, and the orders below it are
\* those of V that the walk, at ids, has not reached.
Follows(side, mp, V, order, ids, L) ==
    /\ Like(order, Top(mp, side, L))
    /\ Known(V, ids)
    /\ Below(L, Top(mp, side, L)) = Onward(side, V, ids)

\* The page memory p of the simulation is at the moment x; V are the orders it started with.
Linked(V, p, x) ==
    /\ p.matchesAmount = x.filled
    /\ \A side \in Sides : Follows(side, p.marketPrice, V[side], p.last[side], p.lastIds[side], x.left[side])

\* The walk goes on to the top of what it has not reached.
LEMMA NextFollows ==
    ASSUME Accounts, Ordered, NEW p \in Pages, NEW side \in Sides, NEW V, V = ValidOf(books[side]),
           Known(V, p.lastIds[side]), NEW L, L = Onward(side, V, p.lastIds[side]),
           NEW g, g = getNextValidOrder(p, side)
    PROVE  /\ g.order = Top(p.marketPrice, side, L)
           /\ g.order.id # 0 => Follows(side, p.marketPrice, V, g.order, g.ids, L)
  <1> DEFINE ids == p.lastIds[side]
             mp == p.marketPrice
             next == Top(mp, side, L)
             new == Passed(ids, next)
  <1>1. ids \in [OrderTypes -> Nat] /\ mp \in Nat
    BY PageFields
  <1>2. Tidy(books[side], queues[side])
    BY DEF Accounts, Accounted, Solvent
  <1>3. Pool(V)
    BY <1>2, BookIsPool
  <1>4. getNextValidOrder(p, side).order = next /\ getNextValidOrder(p, side).ids = new
    BY NextIs
  <1>5. ids = p.lastIds[side]
    OBVIOUS
  <1>6. Known(V, ids) /\ L = Onward(side, V, ids)
    OBVIOUS
  <1> HIDE DEF ids, mp
  <1>7. new = Passed(ids, next) /\ next = Top(mp, side, L)
    OBVIOUS
  <1> HIDE DEF next, new
  <1>8. next.id # 0 => Known(V, new) /\ Below(L, next) = Onward(side, V, new)
    <2> SUFFICES ASSUME next.id # 0 PROVE Known(V, new) /\ Below(L, next) = Onward(side, V, new)
      OBVIOUS
    <2>1. ids \in [OrderTypes -> Nat]
      BY <1>1
    <2>2. mp \in Nat
      BY <1>1
    <2>3. next = Top(mp, side, L)
      BY <1>7
    <2>4. new = Passed(ids, next)
      BY <1>7
    <2>5. Known(V, ids)
      BY <1>6
    <2>6. L = Onward(side, V, ids)
      BY <1>6
    <2> QED
      BY <1>3, <2>1, <2>2, <2>3, <2>4, <2>5, <2>6, AfterTheTop
  <1>9. g.order = next /\ g.ids = new
    BY <1>4
  <1>10. Like(next, next)
    BY DEF Like, Same
  <1>11. g.order.id # 0 => Follows(side, mp, V, g.order, g.ids, L)
    BY <1>7, <1>8, <1>9, <1>10 DEF Follows
  <1> QED
    BY <1>7, <1>9, <1>11 DEF mp

\* What is like an order has its price.
LEMMA LikePrice ==
    ASSUME NEW mp, NEW o, NEW r, Like(o, r)
    PROVE  getOrderPrice(mp, o) = getOrderPrice(mp, r) /\ o.id = r.id /\ o.amount = r.amount
  BY SamePrice DEF Like, Same

\* The simulation compares what the matching will match.
LEMMA SimulationIsAt ==
    ASSUME NEW p, NEW V, NEW x, Linked(V, p, x), NEW mp, mp = p.marketPrice
    PROVE  /\ ShouldMatch(p, p.last["buy"], p.last["sell"]) <=> Meet(mp, x)
           /\ SimPrice(p) = Bid(mp, x) /\ PriceOf(p, p.last["sell"]) = Ask(mp, x)
           /\ SimIntents(p) = Intents(mp, x)
           /\ \A side \in Sides : SimUsed(p)[side] = Spent(mp, x, side)
           /\ FilledBy(SimIntents(p).matchType) = Fills(mp, x)
  <1> DEFINE b == p.last["buy"]
             s == p.last["sell"]
  <1>0. "buy" \in Sides /\ "sell" \in Sides /\ \A side \in Sides : side = "buy" \/ side = "sell"
    BY DEF Sides
  <1>1. Like(b, TopAt(mp, x, "buy")) /\ Like(s, TopAt(mp, x, "sell"))
    BY <1>0 DEF Linked, Follows, TopAt
  <1>2. /\ getOrderPrice(mp, b) = Bid(mp, x) /\ b.id = TopAt(mp, x, "buy").id /\ b.amount = TopAt(mp, x, "buy").amount
        /\ getOrderPrice(mp, s) = Ask(mp, x) /\ s.id = TopAt(mp, x, "sell").id /\ s.amount = TopAt(mp, x, "sell").amount
    BY <1>1, LikePrice DEF Bid, Ask
  <1>3. PriceOf(p, b) = Bid(mp, x) /\ PriceOf(p, s) = Ask(mp, x)
    BY <1>2 DEF PriceOf
  <1>4. SimPrice(p) = Bid(mp, x)
    BY <1>3 DEF SimPrice
  <1>5. SimIntents(p) = Intents(mp, x)
    BY <1>2, <1>4 DEF SimIntents, Intents
  <1>6. ShouldMatch(p, b, s) <=> Meet(mp, x)
    BY <1>2, <1>3 DEF ShouldMatch, Meet
  <1>7. SimUsed(p)["buy"] = Spent(mp, x, "buy") /\ SimUsed(p)["sell"] = Spent(mp, x, "sell")
    BY <1>4, <1>5 DEF SimUsed, Spent
  <1>8. \A side \in Sides : SimUsed(p)[side] = Spent(mp, x, side)
    BY <1>0, <1>7
  <1> QED
    BY <1>3, <1>4, <1>5, <1>6, <1>8 DEF Fills

\* What a step of the simulation finds next on a side is where the match will leave it.
LEMMA NextAfter ==
    ASSUME Accounts, Ordered, filled \in Nat, NEW p \in Pages, NEW V, V = Now.left, NEW x, IsMoment(x), Linked(V, p, x),
           NEW mp, mp = p.marketPrice, Meet(mp, x), Bid(mp, x) # 0, NEW side \in Sides
    PROVE  /\ Like(SimNext(p)[side].order, TopAt(mp, After(mp, x), side))
           /\ SimNext(p)[side].order.id # 0 =>
                  Follows(side, mp, V[side], SimNext(p)[side].order, SimNext(p)[side].ids, After(mp, x).left[side])
           /\ Same(SimReduced(p)[side], TopAt(mp, x, side))
  <1> DEFINE y == After(mp, x)
             L == x.left[side]
             top == TopAt(mp, x, side)
             rest == Rest(mp, x, side)
             F == Fills(mp, x)
             ids == p.lastIds[side]
             o == p.last[side]
             W == V[side]
             isFilled == side \in F
             M == y.left[side]
             g == getNextValidOrder(p, side)
  <1>1. mp \in Nat
    BY PageFields
  <1>2. /\ top \in OrderType
        /\ side \notin F => /\ rest \in OrderType /\ Same(rest, top)
                            /\ rest.amount = top.amount - Spent(mp, x, side)
    BY <1>1, RestIs
  <1>3. Pool(L) /\ top = Top(mp, side, L)
    BY DEF IsMoment, TopAt
  <1>4. top \in L[top.orderType]
    <2>1. top.id # 0
      BY <1>2 DEF OrderType, Ids
    <2> HIDE DEF L, top
    <2> QED
      BY <1>1, <1>3, <2>1, TopOfPool
  <1>5. M = SideAfter(L, top, isFilled, rest)
    BY DEF After, LeftAfter
  <1>6. Like(o, top) /\ Known(W, ids) /\ Below(L, top) = Onward(side, W, ids)
    BY DEF Linked, Follows, TopAt
  <1>7. TopAt(mp, y, side) = Top(mp, side, M)
    BY DEF TopAt
  <1>8. W = ValidOf(books[side])
    BY DEF Now
  <1>9. FilledBy(SimIntents(p).matchType) = F /\ SimUsed(p)[side] = Spent(mp, x, side)
    BY SimulationIsAt
  <1>10. side \notin F => TopAt(mp, y, side) = rest
    BY <1>1, AfterIs
  <1>11. /\ isFilled => SimReduced(p)[side] = o /\ SimNext(p)[side] = g
         /\ ~isFilled => /\ SimReduced(p)[side] = Less(o, o.amount - Spent(mp, x, side))
                         /\ SimNext(p)[side] = [order |-> Less(o, o.amount - Spent(mp, x, side)), ids |-> ids]
    BY <1>9 DEF SimReduced, SimNext
  <1> HIDE DEF y, L, top, rest, W, M, g, o
  <1>12. /\ isFilled => SideAfter(L, top, isFilled, rest) = Below(L, top)
         /\ ~isFilled => Below(SideAfter(L, top, isFilled, rest), rest) = Below(L, top)
    <2>1. isFilled \in BOOLEAN /\ (~isFilled => Same(rest, top))
      BY <1>2
    <2> HIDE DEF isFilled
    <2> QED
      BY <1>2, <1>3, <1>4, <2>1, LeavesBelow
  <1>13. CASE isFilled
    <2>1. M = Onward(side, W, ids)
      BY <1>5, <1>6, <1>12, <1>13
    <2>2. g = getNextValidOrder(p, side) /\ Known(W, p.lastIds[side]) /\ M = Onward(side, W, p.lastIds[side])
      BY <1>6, <2>1 DEF g
    <2>3. g.order = Top(p.marketPrice, side, M) /\ (g.order.id # 0 => Follows(side, p.marketPrice, W, g.order, g.ids, M))
      BY <1>8, <2>2, NextFollows
    <2>4. Like(g.order, TopAt(mp, y, side))
      BY <1>7, <2>3 DEF Like, Same
    <2>5. Same(o, top)
      BY <1>6 DEF Like
    <2> QED
      BY <1>11, <1>13, <2>3, <2>4, <2>5 DEF y, M, W, top
  <1>14. CASE ~isFilled
    <2> DEFINE less == Less(o, o.amount - Spent(mp, x, side))
    <2>1. o.id = top.id /\ o.orderType = top.orderType /\ o.price = top.price /\ o.amount = top.amount
      BY <1>6 DEF Like, Same
    <2>2. o \in MaybeOrder
      BY PageFields DEF o
    <2>3. o \in OrderType
      <3>1. o.id # 0
        BY <1>2, <2>1 DEF OrderType, Ids
      <3> QED
        BY <2>2, <3>1, MaybeOrderIs
    <2>4. less.id = o.id /\ less.orderType = o.orderType /\ less.price = o.price /\ less.amount = o.amount - Spent(mp, x, side)
      BY <2>3 DEF Less, OrderType
    <2> HIDE DEF less
    <2>5. Like(less, rest) /\ Same(less, top)
      BY <1>2, <1>14, <2>1, <2>4 DEF Like, Same
    <2>6. Top(mp, side, M) = rest
      BY <1>7, <1>10, <1>14
    <2>7. Below(M, rest) = Onward(side, W, ids)
      BY <1>5, <1>6, <1>12, <1>14
    <2>8. Follows(side, mp, W, less, ids, M)
      BY <1>6, <2>5, <2>6, <2>7 DEF Follows
    <2>9. SimReduced(p)[side] = less /\ SimNext(p)[side].order = less /\ SimNext(p)[side].ids = ids
      BY <1>11, <1>14 DEF less
    <2> QED
      BY <1>7, <2>5, <2>6, <2>8, <2>9 DEF y, M, W, top
  <1> QED
    BY <1>13, <1>14

\* What each change of a page memory changes.
LEMMA PageTurns ==
    ASSUME NEW p \in Pages, NEW n, NEW last, NEW ids
    PROVE  /\ LET q == Priced(p, n)
              IN  /\ q.marketPrice = n /\ q.matchesAmount = p.matchesAmount
                  /\ q.last = p.last /\ q.lastIds = p.lastIds
           /\ LET q == Finished(p, n)
              IN  /\ q.marketPrice = p.marketPrice /\ q.matchesAmount = p.matchesAmount
                  /\ q.last = p.last /\ q.emergentPrice = n
           /\ LET q == Counted(p, n, last)
              IN  q.marketPrice = p.marketPrice /\ q.matchesAmount = n /\ q.last = last
           /\ LET q == Turned(p, last, ids)
              IN  /\ q.marketPrice = p.marketPrice /\ q.matchesAmount = p.matchesAmount
                  /\ q.last = last /\ q.lastIds = ids
  <1>1. p = [marketPrice |-> p.marketPrice, emergentPrice |-> p.emergentPrice, matchesAmount |-> p.matchesAmount,
             last |-> p.last, lastIds |-> p.lastIds]
    BY DEF Pages
  <1>2. /\ Priced(p, n) = [marketPrice |-> n, emergentPrice |-> p.emergentPrice, matchesAmount |-> p.matchesAmount,
                           last |-> p.last, lastIds |-> p.lastIds]
        /\ Finished(p, n) = [marketPrice |-> p.marketPrice, emergentPrice |-> n, matchesAmount |-> p.matchesAmount,
                             last |-> p.last, lastIds |-> p.lastIds]
    BY <1>1 DEF Priced, Finished
  <1>3. Counted(p, n, last) = [marketPrice |-> p.marketPrice, emergentPrice |-> p.emergentPrice, matchesAmount |-> n,
                               last |-> last, lastIds |-> p.lastIds]
    <2> DEFINE q == [p EXCEPT !.matchesAmount = n]
    <2>1. Counted(p, n, last) = [q EXCEPT !.last = last]
      BY <1>1 DEF Counted
    <2>2. q = [marketPrice |-> p.marketPrice, emergentPrice |-> p.emergentPrice, matchesAmount |-> n,
               last |-> p.last, lastIds |-> p.lastIds]
      BY <1>1
    <2> HIDE DEF q
    <2> QED
      BY <2>1, <2>2
  <1>4. Turned(p, last, ids) = [marketPrice |-> p.marketPrice, emergentPrice |-> p.emergentPrice,
                                matchesAmount |-> p.matchesAmount, last |-> last, lastIds |-> ids]
    <2> DEFINE q == [p EXCEPT !.last = last]
    <2>1. Turned(p, last, ids) = [q EXCEPT !.lastIds = ids]
      BY <1>1 DEF Turned
    <2>2. q = [marketPrice |-> p.marketPrice, emergentPrice |-> p.emergentPrice, matchesAmount |-> p.matchesAmount,
               last |-> last, lastIds |-> p.lastIds]
      BY <1>1
    <2> HIDE DEF q
    <2> QED
      BY <2>1, <2>2
  <1> QED
    BY <1>2, <1>3, <1>4

\* The simulation at p has simulated the N matches of a run that starts now, and the
\* next two orders match.
Simulates(now, p, N, a) ==
    /\ Run(p.marketPrice, N, a) /\ a[0] = now
    /\ Linked(now.left, p, a[N]) /\ Meet(p.marketPrice, a[N])

\* p names the two orders of the match of x, and the emergent price is the average of
\* their prices.
Ends(p, x) ==
    /\ \A side \in Sides : p.last[side].id = TopAt(p.marketPrice, x, side).id
    /\ p.emergentPrice = average(Bid(p.marketPrice, x), Ask(p.marketPrice, x))

\* p announces the N matches of a run that starts now: then no two orders match.
Announces(now, p, N, a) ==
    /\ Run(p.marketPrice, N, a) /\ a[0] = now
    /\ ~Meet(p.marketPrice, a[N])
    /\ a[N].filled = p.matchesAmount
    /\ N # 0 => Ends(p, a[N - 1])

\* A step of the simulation simulates the match of the two tops.
LEMMA SimulationStepKeeps ==
    ASSUME Accounts, Ordered, filled \in Nat, NEW p \in Pages, SimulationStep(p),
           NEW N, NEW a, Simulates(Now, p, N, a)
    PROVE  /\ taskDone' => Announces(Now, page', N + 1, Longer(p.marketPrice, N, a))
           /\ ~taskDone' => Simulates(Now, page', N + 1, Longer(p.marketPrice, N, a))
  <1> DEFINE mp == p.marketPrice
             x == a[N]
             y == After(mp, x)
             V == Now.left
             b == Longer(mp, N, a)
             q == SimCounted(p)
             nx == SimNext(p)
  <1>1. mp \in Nat /\ books \in [Sides -> Lists]
    BY PageFields DEF Accounts, Accounted
  <1>2. N \in Nat /\ Run(mp, N, a) /\ a[0] = Now /\ Linked(V, p, x) /\ Meet(mp, x) /\ IsMoment(x)
    BY DEF Simulates, Run, Trace
  <1>3. /\ ShouldMatch(p, p.last["buy"], p.last["sell"])
        /\ SimPrice(p) = Bid(mp, x)
        /\ FilledBy(SimIntents(p).matchType) = Fills(mp, x)
    BY <1>2, SimulationIsAt
  <1>4. Bid(mp, x) # 0 /\ p.last["buy"].id # 0 /\ p.last["sell"].id # 0
    BY <1>3, SimulationStepIs DEF ShouldMatch
  <1>5. Run(mp, N + 1, b) /\ b[0] = Now /\ b[N + 1] = y /\ b[N] = x
    <2>1. Run(mp, N + 1, b)
      BY <1>1, <1>2, <1>4, RunGrows
    <2>2. b[0] = a[0] /\ b[N + 1] = y /\ b[N] = x
      BY <1>2 DEF Longer
    <2> QED
      BY <1>2, <2>1, <2>2
  <1>6. q \in Pages /\ SimTurned(p) \in Pages
    BY <1>1, <1>3, <1>4, SimulateIsTyped
  <1>7. q.marketPrice = mp /\ q.matchesAmount = p.matchesAmount + Cardinality(Fills(mp, x)) /\ q.last = SimReduced(p)
    BY <1>3, PageTurns DEF SimCounted
  <1>8. q.matchesAmount = y.filled
    BY <1>2, <1>7 DEF Linked, After
  <1>9. y.filled > 0
    BY <1>1, <1>2, <1>4, AfterIs
  <1> HIDE DEF b, y, x, mp, q, V
  <1>10. ASSUME NEW side \in Sides
         PROVE  /\ Like(nx[side].order, TopAt(mp, y, side))
                /\ nx[side].order.id # 0 => Follows(side, mp, V[side], nx[side].order, nx[side].ids, y.left[side])
                /\ Same(SimReduced(p)[side], TopAt(mp, x, side))
    <2>1. V = Now.left /\ mp = p.marketPrice /\ y = After(mp, x)
      BY DEF V, mp, y
    <2> QED
      BY <1>2, <1>4, <2>1, NextAfter
  <1> HIDE DEF nx
  <1>11. "buy" \in Sides /\ "sell" \in Sides /\ \A side \in Sides : side = "buy" \/ side = "sell"
    BY DEF Sides
  <1>12. SimGoesOn(p) <=> Meet(mp, y)
    <2>1. /\ getOrderPrice(mp, nx["buy"].order) = Bid(mp, y) /\ nx["buy"].order.id = TopAt(mp, y, "buy").id
          /\ getOrderPrice(mp, nx["sell"].order) = Ask(mp, y) /\ nx["sell"].order.id = TopAt(mp, y, "sell").id
      BY <1>10, <1>11, LikePrice DEF Bid, Ask
    <2> QED
      BY <2>1 DEF SimGoesOn, ShouldMatch, PriceOf, Meet, mp, nx
  <1>13. CASE SimGoesOn(p)
    <2> DEFINE r == SimTurned(p)
    <2>1. ~taskDone' /\ page' = r
      BY <1>3, <1>13, SimulationStepIs
    <2>2. /\ r.marketPrice = mp /\ r.matchesAmount = y.filled
          /\ r.last = [side \in Sides |-> nx[side].order] /\ r.lastIds = [side \in Sides |-> nx[side].ids]
      BY <1>6, <1>7, <1>8, PageTurns DEF SimTurned, q, nx
    <2> HIDE DEF r
    <2>3. ASSUME NEW side \in Sides
          PROVE  Follows(side, r.marketPrice, V[side], r.last[side], r.lastIds[side], y.left[side])
      <3>1. nx[side].order.id # 0
        BY <1>11, <1>13 DEF SimGoesOn, ShouldMatch, nx
      <3> QED
        BY <1>10, <2>2, <3>1
    <2>4. Linked(V, r, y)
      BY <2>2, <2>3 DEF Linked
    <2>5. Simulates(Now, r, N + 1, b)
      BY <1>5, <1>12, <1>13, <2>2, <2>4 DEF Simulates, V
    <2> QED
      BY <2>1, <2>5 DEF b, mp
  <1>14. CASE ~SimGoesOn(p)
    <2> DEFINE e == average(PriceOf(q, q.last["buy"]), PriceOf(q, q.last["sell"]))
               r == Finished(q, e)
    <2>1. taskDone' /\ page' = FinishSimulation(q)
      BY <1>3, <1>14, SimulationStepIs DEF q
    <2>2. FinishSimulation(q) = r
      BY <1>8, <1>9 DEF FinishSimulation, Finished
    <2>3. /\ r.marketPrice = mp /\ r.matchesAmount = y.filled /\ r.last = SimReduced(p) /\ r.emergentPrice = e
      BY <1>6, <1>7, <1>8, PageTurns
    <2>4. \A side \in Sides : SimReduced(p)[side].id = TopAt(mp, x, side).id
      BY <1>10 DEF Same
    <2>5. /\ getOrderPrice(mp, SimReduced(p)["buy"]) = Bid(mp, x)
          /\ getOrderPrice(mp, SimReduced(p)["sell"]) = Ask(mp, x)
      BY <1>10, <1>11, SamePrice DEF Bid, Ask
    <2>6. e = average(Bid(mp, x), Ask(mp, x))
      BY <1>7, <2>5 DEF PriceOf
    <2> HIDE DEF e, r
    <2>7. Ends(r, x)
      BY <2>3, <2>4, <2>6 DEF Ends
    <2>8. (N + 1) - 1 = N
      BY <1>2
    <2>9. Announces(Now, r, N + 1, b)
      BY <1>5, <1>12, <1>14, <2>3, <2>7, <2>8 DEF Announces
    <2> QED
      BY <2>1, <2>2, <2>9 DEF b, mp
  <1> QED
    BY <1>13, <1>14

\* The simulation at the page memory p either goes on or has ended.
Reaches(now, p, isDone) ==
    \E N, a : /\ isDone => Announces(now, p, N, a)
              /\ ~isDone => Simulates(now, p, N, a)

\* A page of the simulation.
LEMMA SimulationReaches ==
    ASSUME Accounts, Ordered, filled \in Nat, NEW p \in Pages, SimulationStep(p), Reaches(Now, p, FALSE)
    PROVE  Reaches(Now, page', taskDone')
  <1>1. PICK N, a : Simulates(Now, p, N, a)
    BY DEF Reaches
  <1>2. /\ taskDone' => Announces(Now, page', N + 1, Longer(p.marketPrice, N, a))
        /\ ~taskDone' => Simulates(Now, page', N + 1, Longer(p.marketPrice, N, a))
    BY <1>1, SimulationStepKeeps
  <1> QED
    BY <1>2 DEF Reaches

\* Nothing comes before the first orders.
LEMMA OnwardFromTheStart ==
    ASSUME NEW side \in Sides, NEW V, V = [t \in OrderTypes |-> V[t]],
           NEW ids, ids = [t \in OrderTypes |-> 0]
    PROVE  Known(V, ids) /\ Onward(side, V, ids) = V
  <1>1. \A t \in OrderTypes : ids[t] = 0
    OBVIOUS
  <1>2. \A t \in OrderTypes : AfterId(side, V[t], ids[t]) = V[t]
    BY <1>1 DEF AfterId
  <1>3. Onward(side, V, ids) = V
    BY <1>2, Zenon DEF Onward
  <1> QED
    BY <1>1, <1>3 DEF Known

\* The first page of the simulation.
LEMMA StartReaches ==
    ASSUME Accounts, Ordered, page = EmptyPage, filled = 0, NEW mp \in Nat, SimulationStep(StartPage(mp))
    PROVE  Reaches(Now, page', taskDone')
  <1> DEFINE q == Priced(page, mp)
             last == [side \in Sides |-> getNextValidOrder(q, side).order]
             ids == [side \in Sides |-> getNextValidOrder(q, side).ids]
             p == StartPage(mp)
             V == Now.left
             Z == [t \in OrderTypes |-> 0]
  <1>1. page \in Pages /\ page.matchesAmount = 0 /\ \A side \in Sides : page.lastIds[side] = Z
    BY EmptyPageIs DEF EmptyPage
  <1>2. books \in [Sides -> Lists]
    BY DEF Accounts, Accounted
  <1>3. p \in Pages
    BY <1>1, <1>2, StartPageIs
  <1>4. /\ q \in Pages /\ q.marketPrice = mp /\ q.matchesAmount = 0
        /\ \A side \in Sides : q.lastIds[side] = Z
    BY <1>1, PageTurns, PageChanges, PageFields
  <1>5. p = Turned(q, last, ids)
    BY DEF StartPage, Turned, Priced
  <1>6. p.marketPrice = mp /\ p.matchesAmount = 0 /\ p.last = last /\ p.lastIds = ids
    BY <1>4, <1>5, PageTurns
  <1>7. IsMoment(Now) /\ Now.filled = 0 /\ \A side \in Sides : V[side] = ValidOf(books[side])
    BY NowIs
  <1>8. \A side \in Sides : V[side] = [t \in OrderTypes |-> V[side][t]]
    BY <1>7 DEF ValidOf
  <1> HIDE DEF q, p
  <1>9. ASSUME NEW side \in Sides
        PROVE  /\ p.last[side] = TopAt(mp, Now, side)
               /\ p.last[side].id # 0 => Follows(side, mp, V[side], p.last[side], p.lastIds[side], V[side])
    <2> DEFINE W == V[side]
               g == getNextValidOrder(q, side)
    <2>1. W = ValidOf(books[side]) /\ W = [t \in OrderTypes |-> W[t]]
      BY <1>7, <1>8
    <2>2. q.lastIds[side] = Z /\ Z = [t \in OrderTypes |-> 0]
      BY <1>4
    <2>3. p.last[side] = g.order /\ p.lastIds[side] = g.ids
      BY <1>6
    <2>4. TopAt(mp, Now, side) = Top(mp, side, W)
      BY DEF TopAt
    <2>5. g = getNextValidOrder(q, side)
      OBVIOUS
    <2> HIDE DEF W, Z, g
    <2>6. Known(W, Z) /\ W = Onward(side, W, Z)
      BY <2>1, <2>2, OnwardFromTheStart
    <2>7. Known(W, q.lastIds[side]) /\ W = Onward(side, W, q.lastIds[side])
      BY <2>2, <2>6
    <2>8. g.order = Top(q.marketPrice, side, W) /\ (g.order.id # 0 => Follows(side, q.marketPrice, W, g.order, g.ids, W))
      <3>1. q \in Pages
        BY <1>4
      <3>2. W = ValidOf(books[side])
        BY <2>1
      <3>3. Known(W, q.lastIds[side])
        BY <2>7
      <3>4. W = Onward(side, W, q.lastIds[side])
        BY <2>7
      <3> QED
        BY <2>5, <3>1, <3>2, <3>3, <3>4, NextFollows
    <2> QED
      BY <1>4, <2>3, <2>4, <2>8 DEF W
  <1>10. "buy" \in Sides /\ "sell" \in Sides /\ \A side \in Sides : side = "buy" \/ side = "sell"
    BY DEF Sides
  <1>11. ShouldMatch(p, p.last["buy"], p.last["sell"]) <=> Meet(mp, Now)
    BY <1>6, <1>9, <1>10 DEF ShouldMatch, PriceOf, Meet, Bid, Ask
  <1> DEFINE a == [i \in 0 .. 0 |-> Now]
  <1>12. Run(mp, 0, a) /\ a[0] = Now
    <2>1. Run(mp, 0, a)
      BY <1>7, RunStarts
    <2> QED
      BY <2>1
  <1> HIDE DEF a
  <1>13. SimulationStep(p)
    BY DEF p
  <1>14. CASE ~Meet(mp, Now)
    <2>1. taskDone' /\ page' = FinishSimulation(p)
      BY <1>11, <1>13, <1>14, SimulationStepIs
    <2>2. FinishSimulation(p) = p
      BY <1>6 DEF FinishSimulation
    <2>3. Announces(Now, p, 0, a)
      BY <1>6, <1>7, <1>12, <1>14 DEF Announces
    <2> QED
      BY <2>1, <2>2, <2>3 DEF Reaches
  <1>15. CASE Meet(mp, Now)
    <2>1. \A side \in Sides : TopAt(mp, Now, side).id # 0
      BY <1>10, <1>15 DEF Meet
    <2>2. ASSUME NEW side \in Sides
          PROVE  Follows(side, p.marketPrice, V[side], p.last[side], p.lastIds[side], Now.left[side])
      BY <1>6, <1>9, <2>1
    <2>3. p.matchesAmount = Now.filled
      BY <1>6, <1>7
    <2>4. Linked(V, p, Now)
      BY <2>2, <2>3 DEF Linked
    <2>5. Simulates(Now, p, 0, a)
      BY <1>6, <1>12, <1>15, <2>4 DEF Simulates
    <2>6. Reaches(Now, p, FALSE)
      BY <2>5 DEF Reaches
    <2> QED
      BY <1>3, <1>13, <2>6, SimulationReaches
  <1> QED
    BY <1>14, <1>15

-----------------------------------------------------------------------------
(* The matching does the run of matches that the simulation announced. *)

\* The simulation that goes on has simulated the start of a run.
Simulating ==
    tickStage = "RUNNING_SIMULATION" /\ ~taskDone => filled = 0 /\ Reaches(Now, page, FALSE)

\* What is left of the run, once the simulation has ended.
Simulated ==
    /\ tickStage = "RUNNING_SIMULATION" /\ taskDone => filled = 0 /\ Reaches(Now, page, TRUE)
    /\ tickStage = "RUNNING_MATCHING" =>
           \E N, a : Announces(Now, page, N, a) /\ (taskDone <=> N = 0)

\* A run of some matches fills some orders.
LEMMA RunFills ==
    ASSUME NEW mp \in Nat, NEW N, NEW a, Run(mp, N, a), N # 0
    PROVE  /\ a[N].filled > 0 /\ N - 1 \in Nat /\ a[N] = After(mp, a[N - 1])
           /\ Meet(mp, a[0]) /\ Bid(mp, a[0]) # 0 /\ IsMoment(a[0])
           /\ Meet(mp, a[N - 1]) /\ IsMoment(a[N - 1])
  <1>1. N - 1 \in 0 .. N - 1 /\ N - 1 \in 0 .. N /\ N = (N - 1) + 1 /\ 0 \in 0 .. N /\ 0 \in 0 .. N - 1 /\ N - 1 \in Nat
    BY DEF Run
  <1> DEFINE M == N - 1
  <1>2. Trace(mp, N, a)
    BY DEF Run
  <1>3. IsMoment(a[M]) /\ Meet(mp, a[M]) /\ Bid(mp, a[M]) # 0 /\ a[N] = After(mp, a[M])
    BY <1>1, <1>2 DEF Trace
  <1>4. IsMoment(a[0]) /\ Meet(mp, a[0]) /\ Bid(mp, a[0]) # 0
    BY <1>1, <1>2 DEF Trace
  <1>5. After(mp, a[M]).filled > 0
    BY <1>3, AfterIs
  <1> QED
    BY <1>1, <1>3, <1>4, <1>5

\* A match of the matching is the first of the run; the others are left.
LEMMA MatchBestKeeps ==
    ASSUME Accounts, Ordered, page \in Pages, filled \in Nat, MatchBest, tick' = tick, queues' = queues, page' = page,
           NEW N, NEW a, Announces(Now, page, N, a), N # 0
    PROVE  Ordered' /\ Announces(Now', page', N - 1, Shorter(N, a)) /\ (taskDone' <=> N - 1 = 0)
  <1> DEFINE mp == page.marketPrice
             b == Shorter(N, a)
             x == a[0]
             y == a[N - 1]
  <1>1. mp \in Nat
    BY PageFields
  <1>2. Run(mp, N, a) /\ x = Now /\ ~Meet(mp, a[N]) /\ a[N].filled = page.matchesAmount /\ Ends(page, y)
    BY DEF Announces
  <1>3. /\ N - 1 \in Nat /\ Meet(mp, x)
        /\ Meet(mp, y) /\ IsMoment(y)
    BY <1>1, <1>2, RunFills
  <1>4. /\ Run(mp, N - 1, b) /\ b[0] = After(mp, x) /\ b[N - 1] = a[N]
        /\ N - 1 # 0 => b[(N - 1) - 1] = y
    BY <1>1, <1>2, RunShrinks
  <1> HIDE DEF b, y
  <1>5. Now' = After(mp, x) /\ Ordered'
    BY <1>2, <1>3, MatchIsAfter
  <1>6. Announces(Now', page', N - 1, b)
    BY <1>2, <1>4, <1>5 DEF Announces
  <1>7. BestBuy = TopAt(mp, x, "buy") /\ BestSell = TopAt(mp, x, "sell")
    BY <1>1, <1>2, FrontsAreNow
  <1>8. taskDone' <=> BestBuy.id = page.last["buy"].id /\ BestSell.id = page.last["sell"].id
    BY DEF MatchBest, IsLastMatch
  <1>9. \A side \in Sides : page.last[side].id = TopAt(mp, y, side).id
    BY <1>2 DEF Ends
  <1>10. "buy" \in Sides /\ "sell" \in Sides /\ \A side \in Sides : side = "buy" \/ side = "sell"
    BY DEF Sides
  <1>11. taskDone' <=> \A side \in Sides : TopAt(mp, x, side).id = TopAt(mp, y, side).id
    BY <1>7, <1>8, <1>9, <1>10
  <1>12. CASE N - 1 = 0
    BY <1>6, <1>5, <1>11, <1>12 DEF y, b
  <1>13. CASE N - 1 # 0
    <2>1. 0 \in 0 .. N /\ N - 1 \in 0 .. N /\ 0 < N - 1
      <3>1. N \in Nat
        BY DEF Announces, Run
      <3> QED
        BY <1>3, <1>13, <3>1
    <2>2. PICK side \in Sides : TopAt(mp, x, side).id \notin IdsIn(y.left[side])
      BY <1>2, <2>1 DEF Run, NoneTwice, y
    <2> DEFINE o == TopAt(mp, y, side)
               L == y.left[side]
    <2>3. o.id # 0
      BY <1>3, <1>10 DEF Meet
    <2>4. Pool(L) /\ o = Top(mp, side, L)
      BY <1>3 DEF IsMoment, TopAt
    <2> HIDE DEF o, L
    <2>5. o \in L[o.orderType] /\ o.orderType \in OrderTypes
      BY <1>1, <2>3, <2>4, TopOfPool
    <2>6. o.id \in IdsIn(L)
      BY <2>5 DEF IdsIn
    <2>7. TopAt(mp, x, side).id # TopAt(mp, y, side).id
      BY <2>2, <2>6 DEF o, L
    <2> QED
      BY <1>5, <1>6, <1>11, <1>13, <2>7 DEF b
  <1> QED
    BY <1>12, <1>13

\* A step of the matching.
LEMMA MatchStepKeeps ==
    ASSUME Accounts, Ordered, page \in Pages, filled \in Nat, MatchStep, tick' = tick, queues' = queues, page' = page,
           NEW N, NEW a, Announces(Now, page, N, a), N = 0 => filled = 0
    PROVE  Ordered' /\ \E M, b : Announces(Now', page', M, b) /\ (taskDone' <=> M = 0)
  <1> DEFINE mp == page.marketPrice
  <1>1. mp \in Nat
    BY PageFields
  <1>2. Run(mp, N, a) /\ a[0] = Now /\ a[N].filled = page.matchesAmount /\ N \in Nat
    BY DEF Announces, Run
  <1>3. CASE N = 0
    <2>1. Now.filled = 0
      BY <1>3, NowIs
    <2>2. page.matchesAmount = 0
      BY <1>2, <1>3, <2>1
    <2>3. taskDone' /\ books' = books /\ filled' = filled
      BY <2>2 DEF MatchStep
    <2>4. Now' = Now /\ Ordered'
      BY <2>3 DEF Now, ValidOf, isExpired, Ordered
    <2>5. Announces(Now', page', N, a)
      BY <2>4
    <2> QED
      BY <1>3, <2>3, <2>4, <2>5
  <1>4. CASE N # 0
    <2>1. page.matchesAmount > 0
      BY <1>1, <1>2, <1>4, RunFills
    <2>2. MatchBest
      BY <2>1 DEF MatchStep
    <2>3. Ordered' /\ Announces(Now', page', N - 1, Shorter(N, a)) /\ (taskDone' <=> N - 1 = 0)
      BY <1>4, <2>2, MatchBestKeeps
    <2> QED
      BY <2>3
  <1> QED
    BY <1>3, <1>4

\* What leaves the matching where it is.
LEMMA StillSimulated ==
    ASSUME Simulating, Simulated, Now' = Now, UNCHANGED <<tickStage, taskDone, page, filled>>
    PROVE  Simulating' /\ Simulated'
  BY DEF Simulating, Simulated

\* What changes nothing of the books.
LEMMA SameBooks ==
    ASSUME UNCHANGED <<books, queues, tick, filled>>
    PROVE  Now' = Now /\ (Ordered => Ordered')
  BY DEF Now, ValidOf, isExpired, Ordered

\* An order that has expired is no longer of the run.
LEMMA ExpiredLeave ==
    ASSUME Accounts, NEW side \in Sides, NEW t \in OrderTypes, NEW D, \A o \in D : isExpired(o),
           books' = [books EXCEPT ![side][t] = Without(@, D)], tick' = tick, filled' = filled
    PROVE  Now' = Now
  <1> DEFINE b == books[side][t]
             s == Without(b, D)
  <1>1. books' = [books EXCEPT ![side][t] = s]
    OBVIOUS
  <1>2. /\ books \in [Sides -> Lists] /\ b \in Seq(OrderType) /\ Distinct(b)
    BY AccountsLists
  <1>3. In(s) = In(b) \ D
    BY <1>2, WithoutList
  <1>4. /\ books'[side][t] = s
        /\ \A u \in Sides, v \in OrderTypes : u # side \/ v # t => books'[u][v] = books[u][v]
    BY <1>1, <1>2 DEF Lists
  <1> HIDE DEF s
  <1>5. ASSUME NEW u \in Sides, NEW v \in OrderTypes
        PROVE  {o \in In(books'[u][v]) : ~isExpired(o)} = {o \in In(books[u][v]) : ~isExpired(o)}
    <2>1. CASE u = side /\ v = t
      BY <1>3, <1>4, <2>1
    <2>2. CASE u # side \/ v # t
      BY <1>4, <2>2
    <2> QED
      BY <2>1, <2>2
  <1>6. \A o : isExpired(o)' <=> isExpired(o)
    BY DEF isExpired
  <1>7. ASSUME NEW u \in Sides PROVE ValidOf(books[u])' = ValidOf(books[u])
    <2>1. ASSUME NEW v \in OrderTypes
          PROVE  {o \in In(books'[u][v]) : ~(o.expiresInTick <= tick')} = {o \in In(books[u][v]) : ~(o.expiresInTick <= tick)}
      BY <1>5 DEF isExpired
    <2> QED
      BY <2>1, Zenon DEF ValidOf, isExpired
  <1> QED
    BY <1>7, Zenon DEF Now

\* The inductive invariant.
MatchingIInv == SolvencyIInv /\ Ordered /\ Quiet /\ Simulating /\ Simulated

\* It holds at the start.
LEMMA InitMatching == Init => MatchingIInv
  <1> SUFFICES ASSUME Init PROVE MatchingIInv
    OBVIOUS
  <1>1. SolvencyIInv /\ Ordered /\ Quiet
    BY InitSolvency, OrderedInit
  <1>2. Simulating /\ Simulated
    BY DEF Init, Simulating, Simulated
  <1> QED
    BY <1>1, <1>2 DEF MatchingIInv

\* The users and governance.
LEMMA UsersKeep ==
    ASSUME MatchingIInv, Insert \/ Leave \/ (\E token \in Sides : WithdrawCommissions(token)) \/ SetPaused \/ SetDisabled
    PROVE  Ordered' /\ Quiet' /\ Simulating' /\ Simulated'
  <1>0. /\ Accounts /\ Ordered /\ Quiet /\ Simulating /\ Simulated /\ tick \in Nat
    BY DEF MatchingIInv, SolvencyIInv, TickTyped
  <1>1. CASE Insert
    <2> SUFFICES ASSUME NEW side \in Sides, NEW t \in OrderTypes, NEW amount \in Amounts, NEW lifespan \in Lifespans,
                        NEW price \in PricesOf(t),
                        InsertOrder(side, t, amount, price, lifespan)
                            \/ InsertOrderAsPending(side, t, amount, price, lifespan)
                 PROVE  Ordered' /\ Quiet' /\ Simulating' /\ Simulated'
      BY <1>1 DEF Insert
    <2>1. CASE InsertOrder(side, t, amount, price, lifespan)
      <3>1. Ordered'
        BY <1>0, <2>1, OrderedInsertOrder
      <3>2. ~Running /\ queues' = queues /\ UNCHANGED tickVars
        BY <2>1 DEF InsertOrder
      <3>3. Quiet'
        BY <1>0, <3>2 DEF Quiet, Running, tickVars
      <3>4. Simulating' /\ Simulated'
        BY <3>2 DEF Simulating, Simulated, Running, tickVars
      <3> QED
        BY <3>1, <3>3, <3>4
    <2>2. CASE InsertOrderAsPending(side, t, amount, price, lifespan)
      <3>1. Ordered'
        BY <1>0, <2>2, OrderedInsertOrderAsPending
      <3>2. Running /\ books' = books /\ UNCHANGED tickVars
        BY <2>2 DEF InsertOrderAsPending
      <3>3. Quiet'
        BY <3>2 DEF Quiet, Running, tickVars
      <3>4. Now' = Now
        BY <3>2 DEF Now, ValidOf, isExpired, tickVars
      <3>5. Simulating' /\ Simulated'
        BY <1>0, <3>2, <3>4, StillSimulated DEF tickVars
      <3> QED
        BY <3>1, <3>3, <3>5
    <2> QED
      BY <2>1, <2>2
  <1>2. CASE Leave
    <2> SUFFICES ASSUME NEW side \in Sides, NEW t \in OrderTypes,
                        \/ \E order \in In(books[side][t]) : CancelOrder(side, t, order)
                        \/ \E from, to \in DOMAIN books[side][t] : ProcessExpired(side, t, from, to)
                 PROVE  Ordered' /\ Quiet' /\ Simulating' /\ Simulated'
      BY <1>2 DEF Leave
    <2>1. ASSUME NEW order \in In(books[side][t]), CancelOrder(side, t, order)
          PROVE  Ordered' /\ Quiet' /\ Simulating' /\ Simulated'
      <3> DEFINE D == {order}
      <3>1. /\ ~Running /\ queues' = queues /\ UNCHANGED tickVars
            /\ books' = [books EXCEPT ![side][t] = Without(@, D)]
        BY <2>1 DEF CancelOrder
      <3> HIDE DEF D
      <3>2. Ordered'
        BY <1>0, <3>1, OrderedWithout
      <3>3. Quiet'
        BY <1>0, <3>1 DEF Quiet, Running, tickVars
      <3>4. Simulating' /\ Simulated'
        BY <3>1 DEF Simulating, Simulated, Running, tickVars
      <3> QED
        BY <3>2, <3>3, <3>4
    <2>2. ASSUME NEW from \in DOMAIN books[side][t], NEW to \in DOMAIN books[side][t], ProcessExpired(side, t, from, to)
          PROVE  Ordered' /\ Quiet' /\ Simulating' /\ Simulated'
      <3> DEFINE D == {order \in In(SubSeq(books[side][t], from, to)) : isExpired(order)}
      <3>1. /\ queues' = queues /\ UNCHANGED tickVars
            /\ books' = [books EXCEPT ![side][t] = Without(@, D)]
        BY <2>2 DEF ProcessExpired
      <3>2. \A o \in D : isExpired(o)
        OBVIOUS
      <3> HIDE DEF D
      <3>3. Ordered'
        BY <1>0, <3>1, OrderedWithout
      <3>4. Quiet'
        BY <1>0, <3>1 DEF Quiet, Running, tickVars
      <3>5. tick' = tick /\ filled' = filled
        BY <3>1 DEF tickVars
      <3>6. Now' = Now
        BY <1>0, <3>1, <3>2, <3>5, ExpiredLeave
      <3>7. Simulating' /\ Simulated'
        BY <1>0, <3>1, <3>6, StillSimulated DEF tickVars
      <3> QED
        BY <3>3, <3>4, <3>7
    <2> QED
      BY <2>1, <2>2
  <1>3. CASE (\E token \in Sides : WithdrawCommissions(token)) \/ SetPaused \/ SetDisabled
    <2>1. UNCHANGED <<books, queues, tickVars>>
      BY <1>3 DEF WithdrawCommissions, SetPaused, SetDisabled
    <2>2. UNCHANGED <<books, queues, tick, filled>> /\ UNCHANGED <<tickStage, taskDone, page, filled>>
      BY <2>1 DEF tickVars
    <2>3. Now' = Now /\ Ordered'
      BY <1>0, <2>2, SameBooks
    <2>4. Quiet'
      BY <1>0, <2>1, <2>2 DEF Quiet, Running
    <2>5. Simulating' /\ Simulated'
      BY <1>0, <2>2, <2>3, StillSimulated
    <2> QED
      BY <2>3, <2>4, <2>5
  <1> QED
    BY <1>1, <1>2, <1>3

\* The pages of the keepers.
LEMMA KeepersKeep ==
    ASSUME MatchingIInv, (\E marketPrice \in MarketPrices : StartTick(marketPrice)) \/ ContinueTick
    PROVE  Ordered' /\ Quiet' /\ Simulating' /\ Simulated'
  <1>0. /\ Accounts /\ Ordered /\ Quiet /\ Simulating /\ Simulated
        /\ filled \in Nat /\ page \in Pages /\ taskDone \in BOOLEAN
    BY DEF MatchingIInv, SolvencyIInv, TickTyped
  <1>1. ASSUME NEW marketPrice \in MarketPrices, StartTick(marketPrice)
        PROVE  Ordered' /\ Quiet' /\ Simulating' /\ Simulated'
    <2>1. /\ tickStage = "RECEIVING_ORDERS" /\ tickStage' = "RUNNING_SIMULATION"
          /\ SimulationStep(StartPage(marketPrice)) /\ UNCHANGED <<books, queues, tick, filled>>
      BY <1>1 DEF StartTick
    <2>2. page = EmptyPage /\ filled = 0
      BY <1>0, <2>1 DEF Quiet, Running
    <2>3. marketPrice \in Nat
      BY ExchangeAssumption
    <2>4. Reaches(Now, page', taskDone')
      BY <1>0, <2>1, <2>2, <2>3, StartReaches
    <2>5. Now' = Now /\ Ordered' /\ filled' = 0
      BY <1>0, <2>1, <2>2, SameBooks
    <2>6. taskDone' \in BOOLEAN
      BY <2>1, SimulationStepIs
    <2>7. Quiet'
      BY <2>1 DEF Quiet, Running
    <2>8. Reaches(Now', page', taskDone')
      BY <2>4, <2>5
    <2>9. Simulating' /\ Simulated'
      <3>1. CASE taskDone' = TRUE
        BY <2>1, <2>5, <2>8, <3>1 DEF Simulating, Simulated
      <3>2. CASE taskDone' = FALSE
        BY <2>1, <2>5, <2>8, <3>2 DEF Simulating, Simulated
      <3> QED
        BY <2>6, <3>1, <3>2
    <2> QED
      BY <2>5, <2>7, <2>9
  <1>2. CASE ContinueSimulation
    <2>1. /\ tickStage = "RUNNING_SIMULATION" /\ tickStage' = tickStage /\ ~taskDone
          /\ SimulationStep(page) /\ UNCHANGED <<books, queues, tick, filled>>
      BY <1>2 DEF ContinueSimulation
    <2>2. filled = 0 /\ Reaches(Now, page, FALSE)
      BY <1>0, <2>1 DEF Simulating
    <2>3. Reaches(Now, page', taskDone')
      BY <1>0, <2>1, <2>2, SimulationReaches
    <2>4. Now' = Now /\ Ordered' /\ filled' = 0
      BY <1>0, <2>1, <2>2, SameBooks
    <2>5. taskDone' \in BOOLEAN
      BY <2>1, SimulationStepIs
    <2>6. Quiet'
      BY <2>1 DEF Quiet, Running
    <2>7. Reaches(Now', page', taskDone')
      BY <2>3, <2>4
    <2>8. Simulating' /\ Simulated'
      <3>1. CASE taskDone' = TRUE
        BY <2>1, <2>4, <2>7, <3>1 DEF Simulating, Simulated
      <3>2. CASE taskDone' = FALSE
        BY <2>1, <2>4, <2>7, <3>2 DEF Simulating, Simulated
      <3> QED
        BY <2>5, <3>1, <3>2
    <2> QED
      BY <2>4, <2>6, <2>8
  <1>3. ASSUME MatchStep, tick' = tick, queues' = queues, page' = page, tickStage' = "RUNNING_MATCHING",
               NEW N, NEW a, Announces(Now, page, N, a), N = 0 => filled = 0
        PROVE  Ordered' /\ Quiet' /\ Simulating' /\ Simulated'
    <2>1. Ordered' /\ \E M, b : Announces(Now', page', M, b) /\ (taskDone' <=> M = 0)
      BY <1>0, <1>3, MatchStepKeeps
    <2>2. Quiet' /\ Simulating'
      BY <1>3 DEF Quiet, Running, Simulating
    <2>3. Simulated'
      BY <1>3, <2>1 DEF Simulated
    <2> QED
      BY <2>1, <2>2, <2>3
  <1>4. CASE StartMatching
    <2>1. /\ tickStage = "RUNNING_SIMULATION" /\ tickStage' = "RUNNING_MATCHING" /\ taskDone
          /\ MatchStep /\ UNCHANGED <<queues, tick, page>>
      BY <1>4 DEF StartMatching
    <2>2. filled = 0 /\ Reaches(Now, page, TRUE)
      BY <1>0, <2>1 DEF Simulated
    <2>3. PICK N, a : Announces(Now, page, N, a)
      BY <2>2 DEF Reaches
    <2> QED
      BY <1>3, <2>1, <2>2, <2>3
  <1>5. CASE ContinueMatching
    <2>1. /\ tickStage = "RUNNING_MATCHING" /\ tickStage' = tickStage /\ ~taskDone
          /\ MatchStep /\ UNCHANGED <<queues, tick, page>>
      BY <1>5 DEF ContinueMatching
    <2>2. PICK N, a : Announces(Now, page, N, a) /\ (taskDone <=> N = 0)
      BY <1>0, <2>1 DEF Simulated
    <2> QED
      BY <1>3, <2>1, <2>2
  <1>6. CASE StartMoving \/ ContinueMoving
    <2>1. MoveStep
      BY <1>6 DEF StartMoving, ContinueMoving
    <2>2. Ordered'
      BY <1>0, <2>1, OrderedMoveStep
    <2>3. /\ tickStage' = "MOVING_PENDING_ORDERS" \/ tickStage' = "RECEIVING_ORDERS"
          /\ tickStage' = "RECEIVING_ORDERS" => queues' = Empty /\ page' = EmptyPage /\ filled' = 0
      BY <2>1 DEF MoveStep
    <2>4. Quiet'
      BY <2>3 DEF Quiet, Running, Empty, EmptyPage
    <2>5. Simulating' /\ Simulated'
      BY <2>3 DEF Simulating, Simulated
    <2> QED
      BY <2>2, <2>4, <2>5
  <1> QED
    BY <1>1, <1>2, <1>4, <1>5, <1>6 DEF ContinueTick

\* Every step keeps the invariant.
LEMMA NextMatching == MatchingIInv /\ [Next]_vars => MatchingIInv'
  <1> SUFFICES ASSUME MatchingIInv, [Next]_vars PROVE MatchingIInv'
    OBVIOUS
  <1>1. SolvencyIInv'
    BY NextSolvency DEF MatchingIInv
  <1>2. CASE Insert \/ Leave \/ (\E token \in Sides : WithdrawCommissions(token)) \/ SetPaused \/ SetDisabled
    BY <1>1, <1>2, UsersKeep DEF MatchingIInv
  <1>3. CASE (\E marketPrice \in MarketPrices : StartTick(marketPrice)) \/ ContinueTick
    BY <1>1, <1>3, KeepersKeep DEF MatchingIInv
  <1>4. CASE UNCHANGED vars
    <2>1. UNCHANGED <<books, queues, tick, filled>> /\ UNCHANGED <<tickStage, taskDone, page, filled>>
      BY <1>4 DEF vars, tickVars
    <2>2. Now' = Now /\ Ordered'
      BY <2>1, SameBooks DEF MatchingIInv
    <2>3. Quiet' /\ Simulating' /\ Simulated'
      <3>1. Simulating' /\ Simulated'
        BY <2>1, <2>2, StillSimulated DEF MatchingIInv
      <3>2. Quiet'
        BY <2>1 DEF MatchingIInv, Quiet, Running
      <3> QED
        BY <3>1, <3>2
    <2> QED
      BY <1>1, <2>2, <2>3 DEF MatchingIInv
  <1> QED
    BY <1>2, <1>3, <1>4 DEF Next

\* It always holds.
LEMMA MatchingInduction == Spec => []MatchingIInv
  <1>1. Init => MatchingIInv
    BY InitMatching
  <1>2. MatchingIInv /\ [Next]_vars => MatchingIInv'
    BY NextMatching
  <1> QED
    BY <1>1, <1>2, PTL DEF Spec

-----------------------------------------------------------------------------
(* What follows of the run. *)

\* When a match is due, the run has one.
LEMMA DueIsOfTheRun ==
    ASSUME MatchingIInv, MatchIsDue
    PROVE  \E N, a : Announces(Now, page, N, a) /\ N # 0
  <1>1. /\ Accounts /\ Ordered /\ Simulated /\ filled \in Nat /\ page \in Pages /\ page.matchesAmount > 0
    BY DEF MatchingIInv, SolvencyIInv, TickTyped, MatchIsDue
  <1>2. CASE tickStage = "RUNNING_SIMULATION" /\ taskDone
    <2>1. filled = 0 /\ Reaches(Now, page, TRUE)
      BY <1>1, <1>2 DEF Simulated
    <2>2. PICK N, a : Announces(Now, page, N, a)
      BY <2>1 DEF Reaches
    <2>3. a[0] = Now /\ a[N].filled = page.matchesAmount
      BY <2>2 DEF Announces
    <2>4. Now.filled = 0
      BY <1>1, <2>1, NowIs
    <2>5. N # 0
      BY <1>1, <2>3, <2>4
    <2> QED
      BY <2>2, <2>5
  <1>3. CASE tickStage = "RUNNING_MATCHING" /\ ~taskDone
    BY <1>1, <1>3 DEF Simulated
  <1> QED
    BY <1>2, <1>3 DEF MatchIsDue

\* A match of two orders at a price between theirs is fair.
LEMMA FairMatch ==
    ASSUME NEW b, NEW s, NEW bp \in Nat \ {0}, NEW sp \in Nat, NEW p \in Nat, sp <= p, p <= bp,
           b.amount \in Nat, s.amount \in Nat, NEW m, m = Match(b, bp, s, sp, p)
    PROVE  /\ m.buyerSent * PricePrecision <= m.limiting * bp
           /\ m.buyerSent >= convertToBase(m.limiting, sp)
  <1>1. Takes(m, b, s)
    BY MatchTakes
  <1>2. m.limiting \in Nat /\ m.buyerSent \in Nat
    BY <1>1 DEF Takes
  <1>3. m.buyerSent = (m.limiting * p) \div PricePrecision
    BY DEF Match, convertToBase
  <1>4. PricePrecision \in Nat \ {0}
    BY SettlementAssumption
  <1> DEFINE n == m.limiting
             sent == m.buyerSent
  <1>5. n \in Nat /\ sent = (n * p) \div PricePrecision
    BY <1>2, <1>3
  <1> HIDE DEF n, sent
  <1>6. n * p \in Nat /\ n * bp \in Nat /\ n * sp \in Nat /\ n * p <= n * bp /\ n * sp <= n * p
    BY <1>5, ProductIsNat, ProductIsMonotonic
  <1>7. sent \in Nat /\ sent * PricePrecision <= n * p
    BY <1>4, <1>5, <1>6, DivBounds
  <1>8. (n * sp) \div PricePrecision <= sent
    BY <1>4, <1>5, <1>6, DivIsMonotonic
  <1>9. (n * sp) \div PricePrecision \in Nat /\ sent * PricePrecision \in Nat
    BY <1>4, <1>6, <1>7, DivBounds, ProductIsNat
  <1>10. sent * PricePrecision <= n * bp
    BY <1>6, <1>7, <1>9
  <1> QED
    BY <1>7, <1>8, <1>9, <1>10 DEF n, sent, convertToBase

\* The emergent price is between the prices of the two orders of every match.
LEMMA PricesMeet ==
    ASSUME MatchingIInv, MatchIsDue, NEW bp, bp = PriceOf(page, BestBuy), NEW sp, sp = PriceOf(page, BestSell)
    PROVE  /\ BestBuy \in OrderType /\ BestSell \in OrderType
           /\ bp \in Nat \ {0} /\ sp \in Nat /\ page.emergentPrice \in Nat
           /\ sp <= page.emergentPrice /\ page.emergentPrice <= bp
           /\ BestBuy = TopAt(page.marketPrice, Now, "buy") /\ BestSell = TopAt(page.marketPrice, Now, "sell")
  <1> DEFINE mp == page.marketPrice
             e == page.emergentPrice
  <1>1. Accounts /\ Ordered /\ page \in Pages /\ mp \in Nat /\ e \in Nat
    BY PageFields DEF MatchingIInv, SolvencyIInv, TickTyped
  <1>2. PICK N, a : Announces(Now, page, N, a) /\ N # 0
    BY DueIsOfTheRun
  <1> DEFINE x == a[0]
             M == N - 1
             y == a[M]
  <1>3. Run(mp, N, a) /\ x = Now /\ Ends(page, y)
    BY <1>2 DEF Announces
  <1>4. /\ Meet(mp, x) /\ Bid(mp, x) # 0 /\ IsMoment(x) /\ M \in Nat
        /\ Meet(mp, y) /\ IsMoment(y)
    BY <1>1, <1>2, <1>3, RunFills
  <1>5. BestBuy = TopAt(mp, x, "buy") /\ BestSell = TopAt(mp, x, "sell")
    BY <1>1, <1>3, FrontsAreNow
  <1>6. bp = Bid(mp, x) /\ sp = Ask(mp, x)
    BY <1>5 DEF PriceOf, Bid, Ask
  <1>7. "buy" \in Sides /\ "sell" \in Sides
    BY DEF Sides
  <1> HIDE DEF mp
  <1>8. BestBuy \in OrderType /\ BestSell \in OrderType
    BY <1>1, <1>4, <1>5, <1>7, RestIs
  <1>9. /\ Bid(mp, x) \in Nat /\ Ask(mp, x) \in Nat
        /\ Bid(mp, y) \in Nat /\ Ask(mp, y) \in Nat
    BY <1>1, <1>4, <1>7, TopPriceIsNat DEF Bid, Ask
  <1>10. M \in 0 .. N /\ 0 \in 0 .. N /\ 0 <= M
    BY <1>3, <1>4 DEF Run
  <1> HIDE DEF x, y, M
  <1>11. TopAt(mp, y, "buy").id # 0 /\ TopAt(mp, y, "sell").id # 0 /\ Bid(mp, y) >= Ask(mp, y)
    BY <1>4 DEF Meet
  <1>12. AtLeast("buy", Bid(mp, x), Bid(mp, y)) /\ AtLeast("sell", Ask(mp, x), Ask(mp, y))
    BY <1>3, <1>7, <1>10, <1>11 DEF Run, Closing, Bid, Ask, x, y
  <1>13. Bid(mp, x) >= Bid(mp, y) /\ Ask(mp, x) <= Ask(mp, y)
    BY <1>7, <1>9, <1>12, AtLeastIsTransitive
  <1>14. e = average(Bid(mp, y), Ask(mp, y))
    BY <1>3 DEF Ends, mp
  <1> HIDE DEF e
  <1>15. Ask(mp, y) <= e /\ e <= Bid(mp, y)
    BY <1>9, <1>11, <1>14 DEF average
  <1>16. Ask(mp, x) <= e /\ e <= Bid(mp, x)
    BY <1>1, <1>9, <1>13, <1>15
  <1> QED
    BY <1>1, <1>3, <1>4, <1>5, <1>6, <1>8, <1>9, <1>16 DEF mp, e

\* The emergent price, fixed by the simulation before the first match, suits both orders
\* of every match of executeMatch, whatever expires or arrives during the tick: the buyer
\* pays at most what they bid and the seller gets what they asked, rounded down.
THEOREM MatchesAreFair == Spec => []EveryMatchIsFair
  <1>1. ASSUME MatchingIInv PROVE EveryMatchIsFair
    <2> DEFINE bp == PriceOf(page, BestBuy)
               sp == PriceOf(page, BestSell)
               p == page.emergentPrice
               m == Match(BestBuy, bp, BestSell, sp, p)
    <2> SUFFICES ASSUME MatchIsDue
                 PROVE  /\ sp <= p /\ p <= bp
                        /\ m.buyerSent * PricePrecision <= m.limiting * bp
                        /\ m.buyerSent >= convertToBase(m.limiting, sp)
      BY DEF EveryMatchIsFair
    <2>1. /\ BestBuy \in OrderType /\ BestSell \in OrderType
          /\ bp \in Nat \ {0} /\ sp \in Nat /\ p \in Nat /\ sp <= p /\ p <= bp
      BY <1>1, PricesMeet
    <2>2. BestBuy.amount \in Nat /\ BestSell.amount \in Nat
      BY <2>1 DEF OrderType
    <2>3. m = Match(BestBuy, bp, BestSell, sp, p)
      OBVIOUS
    <2> HIDE DEF bp, sp, p, m
    <2> QED
      BY <2>1, <2>2, <2>3, FairMatch
  <1> QED
    BY <1>1, MatchingInduction, PTL

\* The matching that matchOrders says is done has filled as many orders as the simulation
\* counted, and leaves no two orders that should match.
THEOREM MatchingFinishesTheRun == Spec => []MatchingIsComplete
  <1>1. ASSUME MatchingIInv PROVE MatchingIsComplete
    <2> DEFINE mp == page.marketPrice
               Best(side) == mostCompetitiveOrder(mp, side, NextValid(books[side]["LIMIT_ORDER"], 0),
                                                  NextValid(books[side]["MARKET_ORDER"], 0))
    <2> SUFFICES ASSUME tickStage = "RUNNING_MATCHING", taskDone
                 PROVE  filled = page.matchesAmount /\ ~ShouldMatch(page, Best("buy"), Best("sell"))
      BY DEF MatchingIsComplete
    <2>1. /\ Accounts /\ Ordered /\ Simulated /\ filled \in Nat
      BY <1>1 DEF MatchingIInv, SolvencyIInv, TickTyped
    <2>2. PICK N, a : Announces(Now, page, N, a) /\ N = 0
      BY <2>1 DEF Simulated
    <2>3. filled = page.matchesAmount /\ ~Meet(mp, Now)
      BY <2>1, <2>2, NowIs DEF Announces
    <2>4. ASSUME NEW side \in Sides PROVE Best(side) = TopAt(mp, Now, side)
      <3> DEFINE V == ValidOf(books[side])
      <3>1. ASSUME NEW t \in OrderTypes PROVE NextValid(books[side][t], 0) = First(side, V[t])
        <4> DEFINE s == books[side][t]
                   W == V[t]
        <4>1. Tidy(books[side], queues[side]) /\ SortedBook(side, books[side])
          BY <2>1 DEF Accounts, Accounted, Solvent, Ordered, OrderedIn, InOrder, SortedBook
        <4>2. s \in Seq(OrderType) /\ Sorted(side, s) /\ OneOfEachId(In(s))
          BY <4>1, BookIsPool DEF SortedBook
        <4>3. W = {o \in In(s) : ~isExpired(o)} /\ AfterId(side, W, 0) = W
          BY DEF ValidOf, AfterId
        <4> HIDE DEF s, W
        <4>4. NextValid(s, 0) = First(side, AfterId(side, W, 0))
          BY <4>2, <4>3, NextValidIsFirst
        <4> QED
          BY <4>3, <4>4 DEF s, W
      <3>2. TopAt(mp, Now, side) = Top(mp, side, V)
        BY DEF TopAt, Now
      <3> HIDE DEF V
      <3> QED
        BY <3>1, <3>2 DEF Top, OrderTypes
    <2>5. Best("buy") = TopAt(mp, Now, "buy") /\ Best("sell") = TopAt(mp, Now, "sell")
      BY <2>4 DEF Sides
    <2> HIDE DEF Best
    <2>6. ShouldMatch(page, Best("buy"), Best("sell")) <=> Meet(mp, Now)
      BY <2>5 DEF ShouldMatch, PriceOf, Meet, Bid, Ask
    <2> QED
      BY <2>3, <2>6
  <1> QED
    BY <1>1, MatchingInduction, PTL

-----------------------------------------------------------------------------
(* The match that is due can be done. *)

\* No fee takes the whole amount of an order.  doInsertMarketOrder requires it;
\* insertLimitOrder does not, and a tick that matches such an order never ends.
FeeIsAPart == \A amount \in Amounts : calculateInitialFee(amount, CommissionRate, MinimumFixed) # amount

\* The orders of two lists have something to exchange, unless they have expired.
WholeLists(b, q) ==
    /\ \A o \in In(b) : o.amount # 0 \/ isExpired(o)
    /\ \A o \in In(q) : o.amount # 0

\* So do those of the books bs and of the queues qs.
WholeIn(bs, qs) == \A side \in Sides, t \in OrderTypes : WholeLists(bs[side][t], qs[side][t])

Whole == WholeIn(books, queues)

\* Two lists of one side change.
LEMMA OneListStaysWhole ==
    ASSUME NEW bs \in [Sides -> Lists], NEW qs \in [Sides -> Lists], WholeIn(bs, qs),
           NEW side \in Sides, NEW t \in OrderTypes, NEW s \in Seq(OrderType), NEW w \in Seq(OrderType),
           NEW cs, Replaces(bs, cs, side, t, s), NEW ds, Replaces(qs, ds, side, t, w), WholeLists(s, w)
    PROVE  WholeIn(cs, ds)
  <1>1. /\ cs[side][t] = s /\ ds[side][t] = w
        /\ \A u \in Sides, v \in OrderTypes :
               u # side \/ v # t => cs[u][v] = bs[u][v] /\ ds[u][v] = qs[u][v]
    BY DEF Replaces, Lists
  <1> QED
    BY <1>1 DEF WholeIn

\* A new order keeps back less than its amount as commission.
LEMMA NewOrderIsWhole ==
    ASSUME FeeIsAPart, tick \in Nat, NEW t \in OrderTypes, NEW amount \in Amounts, NEW price, NEW lifespan,
           MayInsert(t, amount)
    PROVE  NewOrder(t, amount, price, lifespan).amount # 0
  <1> DEFINE fee == calculateInitialFee(amount, CommissionRate, MinimumFixed)
  <1>1. fee <= amount /\ fee # amount
    BY DEF FeeIsAPart, MayInsert
  <1>2. NewOrder(t, amount, price, lifespan).amount = amount - fee
    BY DEF NewOrder
  <1>3. amount \in Nat /\ fee \in Nat
    <2>1. amount \in Nat /\ MinimumFixed \in Nat /\ CommissionRate \in Nat /\ RatePrecision \in Nat \ {0}
      BY ExchangeAssumption, SettlementAssumption
    <2>2. amount * CommissionRate \in Nat
      BY <2>1, ProductIsNat
    <2>3. (amount * CommissionRate) \div RatePrecision \in Nat
      BY <2>1, <2>2, DivBounds
    <2> QED
      BY <2>1, <2>3 DEF calculateInitialFee
  <1> HIDE DEF fee
  <1> QED
    BY <1>1, <1>2, <1>3

\* An insertion in the book of a pair without a running tick.
LEMMA WholeInsertOrder ==
    ASSUME NEW side \in Sides, NEW t \in OrderTypes, NEW amount \in Amounts, NEW lifespan \in Lifespans,
           NEW price \in PricesOf(t), InsertOrder(side, t, amount, price, lifespan), Accounts, tick \in Nat,
           FeeIsAPart, Whole
    PROVE  Whole'
  <1> DEFINE o == NewOrder(t, amount, price, lifespan)
             b == books[side][t]
             w == queues[side][t]
             s == Place(Descending(side), b, o)
  <1>1. /\ MayInsert(t, amount)
        /\ books' = [books EXCEPT ![side][t] = s]
        /\ queues' = queues /\ tick' = tick
    BY DEF InsertOrder, tickVars
  <1>2. o \in OrderType /\ o.id = lastOrderId + 1 /\ o.amount # 0
    BY <1>1, NewOrderIs, NewOrderIsWhole
  <1> HIDE DEF o
  <1>3. /\ books \in [Sides -> Lists] /\ queues \in [Sides -> Lists]
        /\ b \in Seq(OrderType) /\ Distinct(b) /\ w \in Seq(OrderType)
        /\ \A r \in In(b) : r.id <= lastOrderId
        /\ lastOrderId \in Nat
    BY AccountsLists
  <1>4. WholeLists(b, w)
    BY DEF Whole, WholeIn
  <1>5. Replaces(books, books', side, t, s) /\ Replaces(queues, queues', side, t, w)
    BY <1>1, <1>3, SameReplaces DEF Replaces
  <1> HIDE DEF b, w
  <1>6. o \notin In(b)
    <2> SUFFICES ASSUME o \in In(b) PROVE FALSE
      OBVIOUS
    <2>1. o.id <= lastOrderId
      BY <1>3
    <2> QED
      BY <1>2, <1>3, <2>1
  <1>7. s \in Seq(OrderType) /\ In(s) = In(b) \union {o}
    BY <1>2, <1>3, <1>6, PlaceList
  <1> HIDE DEF s
  <1>8. WholeLists(s, w)
    BY <1>2, <1>4, <1>7 DEF WholeLists
  <1>9. WholeIn(books', queues')
    BY <1>3, <1>5, <1>7, <1>8, OneListStaysWhole DEF Whole
  <1> QED
    BY <1>1, <1>9 DEF Whole, WholeIn, WholeLists, isExpired

\* An insertion during a tick.
LEMMA WholeInsertOrderAsPending ==
    ASSUME NEW side \in Sides, NEW t \in OrderTypes, NEW amount \in Amounts, NEW lifespan \in Lifespans,
           NEW price \in PricesOf(t), InsertOrderAsPending(side, t, amount, price, lifespan), Accounts, tick \in Nat,
           FeeIsAPart, Whole
    PROVE  Whole'
  <1> DEFINE o == NewOrder(t, amount, price, lifespan)
             b == books[side][t]
             w == queues[side][t]
             s == Append(w, o)
  <1>1. /\ MayInsert(t, amount)
        /\ queues' = [queues EXCEPT ![side][t] = s]
        /\ books' = books /\ tick' = tick
    BY DEF InsertOrderAsPending, tickVars
  <1>2. o \in OrderType /\ o.id = lastOrderId + 1 /\ o.amount # 0
    BY <1>1, NewOrderIs, NewOrderIsWhole
  <1> HIDE DEF o
  <1>3. /\ books \in [Sides -> Lists] /\ queues \in [Sides -> Lists]
        /\ b \in Seq(OrderType) /\ w \in Seq(OrderType) /\ Distinct(w)
        /\ \A r \in In(w) : r.id <= lastOrderId
        /\ lastOrderId \in Nat
    BY AccountsLists
  <1>4. WholeLists(b, w)
    BY DEF Whole, WholeIn
  <1>5. Replaces(queues, queues', side, t, s) /\ Replaces(books, books', side, t, b)
    BY <1>1, <1>3, SameReplaces DEF Replaces
  <1> HIDE DEF b, w
  <1>6. o \notin In(w)
    <2> SUFFICES ASSUME o \in In(w) PROVE FALSE
      OBVIOUS
    <2>1. o.id <= lastOrderId
      BY <1>3
    <2> QED
      BY <1>2, <1>3, <2>1
  <1>7. s \in Seq(OrderType) /\ In(s) = In(w) \union {o}
    BY <1>2, <1>3, <1>6, AppendList
  <1> HIDE DEF s
  <1>8. WholeLists(b, s)
    BY <1>2, <1>4, <1>7 DEF WholeLists
  <1>9. WholeIn(books', queues')
    BY <1>3, <1>5, <1>7, <1>8, OneListStaysWhole DEF Whole
  <1> QED
    BY <1>1, <1>9 DEF Whole, WholeIn, WholeLists, isExpired

\* Orders leave a book.
LEMMA WholeWithout ==
    ASSUME NEW side \in Sides, NEW t \in OrderTypes, NEW D, Accounts, Whole, queues' = queues, tick' = tick,
           books' = [books EXCEPT ![side][t] = Without(@, D)]
    PROVE  Whole'
  <1> DEFINE b == books[side][t]
             w == queues[side][t]
             s == Without(b, D)
  <1>1. books' = [books EXCEPT ![side][t] = s]
    OBVIOUS
  <1>2. /\ books \in [Sides -> Lists] /\ queues \in [Sides -> Lists]
        /\ b \in Seq(OrderType) /\ Distinct(b) /\ w \in Seq(OrderType)
    BY AccountsLists
  <1>3. WholeLists(b, w)
    BY DEF Whole, WholeIn
  <1>4. Replaces(books, books', side, t, s) /\ Replaces(queues, queues', side, t, w)
    BY <1>1, <1>2, SameReplaces DEF Replaces
  <1> HIDE DEF b, w
  <1>5. s \in Seq(OrderType) /\ In(s) = In(b) \ D
    BY <1>2, WithoutList
  <1> HIDE DEF s
  <1>6. WholeLists(s, w)
    BY <1>3, <1>5 DEF WholeLists
  <1>7. WholeIn(books', queues')
    BY <1>2, <1>4, <1>5, <1>6, OneListStaysWhole DEF Whole
  <1> QED
    BY <1>7 DEF Whole, WholeIn, WholeLists, isExpired

\* A match leaves the orders it does not fill with something to exchange.
LEMMA WholeMatch ==
    ASSUME Whole, NEW mp \in Nat, IsMoment(Now), Meet(mp, Now), Bid(mp, Now) # 0, Now' = After(mp, Now),
           queues' = queues, tick' = tick
    PROVE  Whole'
  <1>1. ASSUME NEW side \in Sides, NEW t \in OrderTypes, NEW o \in In(books'[side][t]), ~isExpired(o)
        PROVE  o.amount # 0
    <2> DEFINE L == Now.left[side]
               top == TopAt(mp, Now, side)
               isFilled == side \in Fills(mp, Now)
               rest == Rest(mp, Now, side)
    <2>1. ValidOf(books[side])' = SideAfter(L, top, isFilled, rest)
      <3>1. Now'.left[side] = ValidOf(books[side])'
        BY DEF Now
      <3>2. After(mp, Now).left[side] = LeftAfter(mp, Now, side)
        BY DEF After
      <3> QED
        BY <3>1, <3>2 DEF LeftAfter
    <2>2. o \in ValidOf(books[side])'[t]
      BY <1>1 DEF ValidOf, isExpired
    <2>3. o \in SideAfter(L, top, isFilled, rest)[t]
      BY <2>1, <2>2
    <2>4. o \in L[t] \/ (~isFilled /\ o = rest)
      BY <2>3 DEF SideAfter
    <2>5. CASE o \in L[t]
      <3>1. o \in In(books[side][t]) /\ ~isExpired(o)
        BY <2>5 DEF Now, ValidOf
      <3> QED
        BY <3>1 DEF Whole, WholeIn, WholeLists
    <2>6. CASE ~isFilled /\ o = rest
      BY <2>6, RestIs
    <2> QED
      BY <2>4, <2>5, <2>6
  <1>2. \A o : isExpired(o)' <=> isExpired(o)
    BY DEF isExpired
  <1>3. \A side \in Sides, t \in OrderTypes : \A o \in In(queues'[side][t]) : o.amount # 0
    BY DEF Whole, WholeIn, WholeLists
  <1>4. WholeIn(books', queues')
    BY <1>1, <1>3 DEF WholeIn, WholeLists
  <1> QED
    BY <1>4 DEF Whole, WholeIn, WholeLists, isExpired

\* The lists that a state s of the moving holds.
MoveWhole(s) == \E l, last : Accounted(s.books, s.queues, l, last) /\ WholeIn(s.books, s.queues)

\* The oldest order of a queue moves to its book.
LEMMA MoveOneWhole ==
    ASSUME NEW s, MoveWhole(s), NEW t \in OrderTypes
    PROVE  MoveWhole(MoveOne(s, t))
  <1>0. PICK l, last : Accounted(s.books, s.queues, l, last) /\ WholeIn(s.books, s.queues)
    BY DEF MoveWhole
  <1>1. CASE Pendings(s.queues, t) = {}
    BY <1>1 DEF MoveOne
  <1>2. CASE Pendings(s.queues, t) # {}
    <2> DEFINE side == IF "buy" \in Pendings(s.queues, t) THEN "buy" ELSE "sell"
               bs == s.books
               qs == s.queues
               b == bs[side][t]
               w == qs[side][t]
               o == Head(w)
               rest == Tail(w)
               placed == Place(Descending(side), b, o)
               cs == [bs EXCEPT ![side][t] = placed]
               ds == [qs EXCEPT ![side][t] = rest]
               m == MoveOne(s, t)
    <2>1. m = [books |-> cs, queues |-> ds]
      BY <1>2 DEF MoveOne
    <2>2. side \in Sides /\ w # <<>>
      BY <1>2 DEF Pendings, Sides
    <2>3. Accounted(m.books, m.queues, l, last)
      BY <1>0, MoveOneAccounted
    <2> HIDE DEF side, m
    <2>4. Replaces(bs, cs, side, t, placed) /\ Replaces(qs, ds, side, t, rest)
      BY DEF Replaces
    <2>5. WholeLists(b, w)
      BY <1>0, <2>2 DEF WholeIn
    <2>6. bs \in [Sides -> Lists] /\ qs \in [Sides -> Lists] /\ Tidy(bs[side], qs[side]) /\ WholeIn(bs, qs)
      BY <1>0, <2>2 DEF Accounted, Solvent
    <2>7. b \in Seq(OrderType) /\ Distinct(b) /\ w \in Seq(OrderType) /\ Distinct(w) /\ In(b) \cap In(w) = {}
      BY <2>6 DEF Tidy, Lists
    <2> HIDE DEF cs, ds, bs, qs, b, w
    <2>8. o \in In(w) /\ rest \in Seq(OrderType) /\ In(rest) = In(w) \ {o}
      BY <2>2, <2>7, TailList
    <2> HIDE DEF o, rest
    <2>9. o \in OrderType /\ o \notin In(b)
      BY <2>7, <2>8, InIsFinite
    <2>10. placed \in Seq(OrderType) /\ In(placed) = In(b) \union {o}
      BY <2>7, <2>9, PlaceList
    <2> HIDE DEF placed
    <2>11. WholeLists(placed, rest)
      BY <2>5, <2>8, <2>10 DEF WholeLists
    <2>12. WholeIn(cs, ds)
      BY <2>2, <2>4, <2>6, <2>8, <2>10, <2>11, OneListStaysWhole
    <2> QED
      BY <2>1, <2>3, <2>12 DEF MoveWhole, m
  <1> QED
    BY <1>1, <1>2

\* A step of the moving.
LEMMA WholeMoveStep ==
    ASSUME Accounts, Whole, tick \in Nat, MoveStep
    PROVE  Whole'
  <1> DEFINE s == [books |-> books, queues |-> queues]
             limit == MoveOne(s, "LIMIT_ORDER")
             other == MoveOne(limit, "MARKET_ORDER")
             market == IF Pendings(limit.queues, "LIMIT_ORDER") # {} THEN limit ELSE other
  <1>1. books' = market.books /\ queues' = market.queues /\ (tick' = tick \/ tick' = tick + 1)
    BY DEF MoveStep
  <1>2. s.books = books /\ s.queues = queues
    OBVIOUS
  <1> HIDE DEF s
  <1>3. MoveWhole(s)
    BY <1>2 DEF Accounts, Whole, MoveWhole
  <1>4. MoveWhole(limit)
    BY <1>3, MoveOneWhole DEF OrderTypes
  <1> HIDE DEF limit
  <1>5. MoveWhole(other)
    BY <1>4, MoveOneWhole DEF OrderTypes
  <1> HIDE DEF other
  <1>6. MoveWhole(market)
    BY <1>4, <1>5
  <1> HIDE DEF market
  <1>7. PICK l, last : Accounted(books', queues', l, last) /\ WholeIn(books', queues')
    BY <1>1, <1>6 DEF MoveWhole
  <1>8. ASSUME NEW side \in Sides, NEW t \in OrderTypes, NEW o \in In(books'[side][t])
        PROVE  o.amount # 0 \/ isExpired(o)'
    <2>1. o.amount # 0 \/ isExpired(o)
      BY <1>7 DEF WholeIn, WholeLists
    <2>2. o.expiresInTick \in Nat
      <3>1. books'[side][t] \in Seq(OrderType)
        BY <1>7 DEF Accounted, Lists
      <3>2. o \in OrderType
        BY <3>1, InIsFinite
      <3> QED
        BY <3>2 DEF OrderType
    <2>3. isExpired(o) => isExpired(o)'
      BY <1>1, <2>2 DEF isExpired
    <2> QED
      BY <2>1, <2>3
  <1>9. \A side \in Sides, t \in OrderTypes : \A o \in In(queues'[side][t]) : o.amount # 0
    BY <1>7 DEF WholeIn, WholeLists
  <1> QED
    BY <1>8, <1>9 DEF Whole, WholeIn, WholeLists

\* At the start there are no orders.
LEMMA WholeInit ==
    ASSUME Init
    PROVE  Whole
  <1>1. books = Empty /\ queues = Empty
    BY DEF Init
  <1>2. \A side \in Sides, t \in OrderTypes : Empty[side][t] = <<>>
    BY DEF Empty
  <1>3. In(<<>>) = {}
    BY DEF In
  <1> QED
    BY <1>1, <1>2, <1>3 DEF Whole, WholeIn, WholeLists

\* A match of the run, from the state it is due in.
LEMMA WholeMatchStep ==
    ASSUME MatchingIInv, Whole, MatchStep, tick' = tick, queues' = queues,
           (tickStage = "RUNNING_SIMULATION" /\ taskDone) \/ (tickStage = "RUNNING_MATCHING" /\ ~taskDone)
    PROVE  Whole'
  <1>1. Accounts /\ Ordered /\ page \in Pages /\ page.marketPrice \in Nat /\ page.matchesAmount \in Nat /\ filled \in Nat
    BY PageFields DEF MatchingIInv, SolvencyIInv, TickTyped
  <1>2. CASE page.matchesAmount = 0
    BY <1>2 DEF MatchStep, Whole, WholeIn, WholeLists, isExpired
  <1>3. CASE page.matchesAmount # 0
    <2>1. MatchIsDue /\ MatchBest
      BY <1>1, <1>3 DEF MatchIsDue, MatchStep
    <2>2. PICK N, a : Announces(Now, page, N, a) /\ N # 0
      BY <2>1, DueIsOfTheRun
    <2> DEFINE mp == page.marketPrice
    <2>3. mp \in Nat /\ Run(mp, N, a) /\ a[0] = Now
      BY <1>1, <2>2 DEF Announces
    <2>4. Meet(mp, Now) /\ IsMoment(Now)
      BY <2>2, <2>3, RunFills
    <2>5. Now' = After(mp, Now) /\ Bid(mp, Now) # 0
      BY <1>1, <2>1, <2>4, MatchIsAfter
    <2> HIDE DEF mp
    <2> QED
      BY <2>3, <2>4, <2>5, WholeMatch
  <1> QED
    BY <1>2, <1>3

\* Every step leaves the orders whole.
LEMMA NextWhole ==
    ASSUME FeeIsAPart, MatchingIInv, Whole, [Next]_vars
    PROVE  Whole'
  <1>0. Accounts /\ tick \in Nat
    BY DEF MatchingIInv, SolvencyIInv, TickTyped
  <1>1. CASE Insert
    <2> SUFFICES ASSUME NEW side \in Sides, NEW t \in OrderTypes, NEW amount \in Amounts, NEW lifespan \in Lifespans,
                        NEW price \in PricesOf(t),
                        InsertOrder(side, t, amount, price, lifespan)
                            \/ InsertOrderAsPending(side, t, amount, price, lifespan)
                 PROVE  Whole'
      BY <1>1 DEF Insert
    <2> QED
      BY <1>0, WholeInsertOrder, WholeInsertOrderAsPending
  <1>2. CASE Leave
    <2> SUFFICES ASSUME NEW side \in Sides, NEW t \in OrderTypes,
                        \/ \E order \in In(books[side][t]) : CancelOrder(side, t, order)
                        \/ \E from, to \in DOMAIN books[side][t] : ProcessExpired(side, t, from, to)
                 PROVE  Whole'
      BY <1>2 DEF Leave
    <2>1. ASSUME NEW order \in In(books[side][t]), CancelOrder(side, t, order)
          PROVE  Whole'
      <3> DEFINE D == {order}
      <3>1. books' = [books EXCEPT ![side][t] = Without(@, D)] /\ queues' = queues /\ tick' = tick
        BY <2>1 DEF CancelOrder, tickVars
      <3> HIDE DEF D
      <3> QED
        BY <1>0, <3>1, WholeWithout
    <2>2. ASSUME NEW from \in DOMAIN books[side][t], NEW to \in DOMAIN books[side][t], ProcessExpired(side, t, from, to)
          PROVE  Whole'
      <3> DEFINE D == {order \in In(SubSeq(books[side][t], from, to)) : isExpired(order)}
      <3>1. books' = [books EXCEPT ![side][t] = Without(@, D)] /\ queues' = queues /\ tick' = tick
        BY <2>2 DEF ProcessExpired, tickVars
      <3> HIDE DEF D
      <3> QED
        BY <1>0, <3>1, WholeWithout
    <2> QED
      BY <2>1, <2>2
  <1>3. CASE StartMatching \/ ContinueMatching
    <2>1. /\ MatchStep /\ tick' = tick /\ queues' = queues
          /\ (tickStage = "RUNNING_SIMULATION" /\ taskDone) \/ (tickStage = "RUNNING_MATCHING" /\ ~taskDone)
      BY <1>3 DEF StartMatching, ContinueMatching
    <2> QED
      BY <2>1, WholeMatchStep
  <1>4. CASE StartMoving \/ ContinueMoving
    BY <1>0, <1>4, WholeMoveStep DEF StartMoving, ContinueMoving
  <1>5. ASSUME UNCHANGED <<books, queues, tick>> PROVE Whole'
    BY <1>5 DEF Whole, WholeIn, WholeLists, isExpired
  <1>6. CASE \/ \E token \in Sides : WithdrawCommissions(token)
             \/ \E marketPrice \in MarketPrices : StartTick(marketPrice)
             \/ ContinueSimulation \/ SetPaused \/ SetDisabled \/ UNCHANGED vars
    <2>1. UNCHANGED <<books, queues, tick>>
      BY <1>6 DEF WithdrawCommissions, StartTick, ContinueSimulation, SetPaused, SetDisabled, vars, tickVars
    <2> QED
      BY <1>5, <2>1
  <1> QED
    BY <1>1, <1>2, <1>3, <1>4, <1>6 DEF Next, ContinueTick

\* No page of the matching is blocked by a match that executeMatch cannot do, whatever
\* expired, was expired or was withdrawn since the simulation announced it, as long as
\* no fee takes the whole amount of an order.
THEOREM MatchesAreDone == ASSUME FeeIsAPart PROVE Spec => []MatchNeverReverts
  <1>1. Init => MatchingIInv /\ Whole
    BY InitMatching, WholeInit
  <1>2. (MatchingIInv /\ Whole) /\ [Next]_vars => (MatchingIInv /\ Whole)'
    BY NextMatching, NextWhole
  <1>3. MatchingIInv /\ Whole => MatchNeverReverts
    <2> DEFINE bp == PriceOf(page, BestBuy)
               sp == PriceOf(page, BestSell)
               p == page.emergentPrice
    <2> SUFFICES ASSUME MatchingIInv, Whole, MatchIsDue
                 PROVE  BestBuy.id # 0 /\ BestSell.id # 0 /\ NoRevert(BestBuy, bp, BestSell, sp, p)
      BY DEF MatchNeverReverts, CanMatch
    <2>1. /\ BestBuy \in OrderType /\ BestSell \in OrderType
          /\ bp \in Nat \ {0} /\ sp \in Nat /\ p \in Nat /\ sp <= p /\ p <= bp
          /\ BestBuy = TopAt(page.marketPrice, Now, "buy") /\ BestSell = TopAt(page.marketPrice, Now, "sell")
      BY PricesMeet
    <2>2. /\ BestBuy.id # 0 /\ BestBuy.amount \in Nat /\ BestBuy.commission \in Nat
          /\ BestSell.id # 0 /\ BestSell.amount \in Nat /\ BestSell.commission \in Nat
      BY <2>1 DEF OrderType, Ids
    <2>3. IsMoment(Now) /\ page.marketPrice \in Nat
      BY NowIs, PageFields DEF MatchingIInv, SolvencyIInv, TickTyped
    <2>4. ASSUME NEW side \in Sides, NEW o, o = TopAt(page.marketPrice, Now, side), o.id # 0 PROVE o.amount # 0
      <3> DEFINE L == Now.left[side]
                 mp == page.marketPrice
      <3>1. Pool(L) /\ o = Top(mp, side, L) /\ mp \in Nat
        BY <2>3, <2>4 DEF IsMoment, TopAt
      <3> HIDE DEF L, mp
      <3>2. o \in L[o.orderType] /\ o.orderType \in OrderTypes
        BY <2>4, <3>1, TopOfPool
      <3>3. o \in In(books[side][o.orderType]) /\ ~isExpired(o)
        BY <3>2 DEF L, Now, ValidOf
      <3> QED
        BY <3>2, <3>3 DEF Whole, WholeIn, WholeLists
    <2>5. BestBuy.amount # 0 /\ BestSell.amount # 0
      BY <2>1, <2>2, <2>4 DEF Sides
    <2> HIDE DEF bp, sp, p
    <2>6. NoRevert(BestBuy, bp, BestSell, sp, p)
      BY <2>1, <2>2, <2>5, MatchIsPossible
    <2> QED
      BY <2>2, <2>6
  <1> QED
    BY <1>1, <1>2, <1>3, PTL DEF Spec
=============================================================================
