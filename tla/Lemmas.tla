------------------------------- MODULE Lemmas -------------------------------
(***************************************************************************)
(* Facts that the proofs about several components share: induction and     *)
(* recursive functions, products and quotients of natural numbers, the     *)
(* arithmetic of one match (Settlement), and orderbooks as sequences       *)
(* (PriceTime).                                                            *)
(***************************************************************************)
EXTENDS Settlement, PriceTime, Integers, FiniteSets, FiniteSetTheorems, SequenceTheorems, WellFoundedInduction, TLAPS

(* Induction.  The library states it for an operator, which the provers    *)
(* cannot instantiate; the forms below are about sets.                     *)

\* A set of natural numbers has a least element.
LEMMA LeastNat ==
    ASSUME NEW T, T \subseteq Nat, T # {}
    PROVE  \E x \in T : \A y \in T : x <= y
  <1>1. PICK x \in T : \A y \in T : ~(<<y, x>> \in OpToRel(<, Nat))
    BY NatLessThanWellFounded, WFMin
  <1>2. \A y \in T : ~(y < x)
    BY <1>1 DEF OpToRel
  <1>3. x \in Nat /\ \A y \in T : y \in Nat
    OBVIOUS
  <1>4. \A y \in T : x <= y
    BY <1>2, <1>3
  <1>5. QED
    BY <1>4

\* Induction on the natural numbers, for the set of those that have a property.
LEMMA NaturalInduction ==
    ASSUME NEW S, 0 \in S, \A n \in Nat : n \in S => n + 1 \in S
    PROVE  Nat \subseteq S
  <1> DEFINE T == Nat \ S
  <1> SUFFICES ASSUME T # {} PROVE FALSE
    OBVIOUS
  <1>1. PICK x \in T : \A y \in T : x <= y
    BY LeastNat
  <1>2. x # 0
    OBVIOUS
  <1>3. x - 1 \in Nat
    BY <1>2
  <1>4. x - 1 \in S
    BY <1>1, <1>3
  <1>5. x \in S
    BY <1>3, <1>4
  <1>6. QED
    BY <1>5

\* f[k] is what k steps make of a.
Recurses(f, N, a, step) ==
    \A k \in 0 .. N : f[k] = IF k = 0 THEN a ELSE step[<<k, f[k - 1]>>]

\* The function that a recursive definition over the first numbers defines exists.
LEMMA RecursionExists ==
    ASSUME NEW A, NEW a \in A, NEW step \in [Nat \X A -> A], NEW N \in Nat
    PROVE  \E f \in [0 .. N -> A] : Recurses(f, N, a, step)
  <1> DEFINE Good(M, f) == /\ f \in [0 .. M -> A]
                           /\ \A k \in 0 .. M : f[k] = IF k = 0 THEN a ELSE step[<<k, f[k - 1]>>]
             S == {M \in Nat : \E f : Good(M, f)}
  <1>1. 0 \in S
    <2>1. Good(0, [k \in 0 .. 0 |-> a])
      OBVIOUS
    <2>2. QED
      BY <2>1
  <1>2. ASSUME NEW M \in Nat, M \in S
        PROVE  M + 1 \in S
    <2>1. PICK f : Good(M, f)
      BY <1>2
    <2> DEFINE new == step[<<M + 1, f[M]>>]
               g == [k \in 0 .. M + 1 |-> IF k = M + 1 THEN new ELSE f[k]]
    <2>2. M \in 0 .. M /\ f[M] \in A
      BY <2>1
    <2>3. new \in A
      BY <2>2
    <2>4. g \in [0 .. M + 1 -> A]
      BY <2>1, <2>3
    <2>5. ASSUME NEW k \in 0 .. M + 1
          PROVE  g[k] = IF k = 0 THEN a ELSE step[<<k, g[k - 1]>>]
      <3>1. CASE k = M + 1
        <4>1. k # 0 /\ k - 1 = M /\ M \in 0 .. M + 1 /\ M # M + 1
          BY <3>1
        <4>2. g[k - 1] = f[M]
          BY <4>1
        <4>3. g[k] = new
          BY <3>1
        <4>4. QED
          BY <3>1, <4>1, <4>2, <4>3
      <3>2. CASE k # M + 1
        <4>1. k \in 0 .. M
          BY <3>2
        <4>2. f[k] = IF k = 0 THEN a ELSE step[<<k, f[k - 1]>>]
          BY <2>1, <4>1
        <4>3. g[k] = f[k]
          BY <3>2
        <4>4. CASE k = 0
          BY <4>2, <4>3, <4>4
        <4>5. CASE k # 0
          <5>1. k - 1 \in 0 .. M + 1 /\ k - 1 # M + 1
            BY <4>1, <4>5
          <5>2. g[k - 1] = f[k - 1]
            BY <5>1
          <5>3. QED
            BY <4>2, <4>3, <4>5, <5>2
        <4>6. QED
          BY <4>4, <4>5
      <3>3. QED
        BY <3>1, <3>2
    <2>6. Good(M + 1, g)
      BY <2>4, <2>5
    <2> HIDE DEF g
    <2>7. QED
      BY <2>6
  <1> HIDE DEF S
  <1>3. N \in S
    BY <1>1, <1>2, NaturalInduction
  <1>4. QED
    BY <1>3 DEF S, Recurses

\* Induction on the subsets of a finite set.
LEMMA SubsetInduction ==
    ASSUME NEW S, IsFiniteSet(S), NEW Good, {} \in Good,
           \A T \in SUBSET S : T # {} /\ (\A x \in T : T \ {x} \in Good) => T \in Good
    PROVE  SUBSET S \subseteq Good
  <1> DEFINE Sizes == {n \in Nat : \A T \in SUBSET S : Cardinality(T) = n => T \in Good}
  <1>1. \A T \in SUBSET S : IsFiniteSet(T) /\ Cardinality(T) \in Nat
    BY FS_Subset, FS_CardinalityType
  <1>2. 0 \in Sizes
    BY <1>1, FS_EmptySet
  <1>3. ASSUME NEW n \in Nat, n \in Sizes
        PROVE  n + 1 \in Sizes
    <2> SUFFICES ASSUME NEW T \in SUBSET S, Cardinality(T) = n + 1
                 PROVE  T \in Good
      OBVIOUS
    <2>1. ASSUME NEW x \in T
          PROVE  T \ {x} \in Good
      <3>1. Cardinality(T \ {x}) = n
        <4>1. Cardinality(T \ {x}) = Cardinality(T) - 1
          BY <1>1, FS_RemoveElement
        <4>2. QED
          BY <4>1
      <3>2. QED
        BY <1>3, <3>1
    <2>2. T # {}
      BY FS_EmptySet
    <2>3. QED
      BY <2>1, <2>2
  <1> HIDE DEF Sizes
  <1>4. Nat \subseteq Sizes
    BY <1>2, <1>3, NaturalInduction
  <1>5. QED
    BY <1>1, <1>4 DEF Sizes

\* The element that FoldSet takes from a set.
Some(S) == CHOOSE x \in S : TRUE

\* f[T] is the fold, by step, of the elements of T, for each subset T of S.
Folds(f, S, base, step) ==
    \A T \in SUBSET S : f[T] = IF T = {} THEN base ELSE step[<<Some(T), f[T \ {Some(T)}]>>]

\* The function by which FoldSet is defined exists.
LEMMA FoldExists ==
    ASSUME NEW S, IsFiniteSet(S), NEW V, NEW base \in V, NEW step \in [S \X V -> V]
    PROVE  \E f \in [SUBSET S -> V] : Folds(f, S, base, step)
  <1> DEFINE Up(n) == {T \in SUBSET S : Cardinality(T) <= n}
             Good(n, f) == /\ f \in [Up(n) -> V]
                           /\ \A T \in Up(n) : f[T] = IF T = {} THEN base ELSE step[<<Some(T), f[T \ {Some(T)}]>>]
             Sizes == {n \in Nat : \E f : Good(n, f)}
  <1>1. \A T \in SUBSET S : IsFiniteSet(T) /\ Cardinality(T) \in Nat
    BY FS_Subset, FS_CardinalityType
  <1>2. \A T \in SUBSET S : T # {} => Some(T) \in T /\ Cardinality(T \ {Some(T)}) = Cardinality(T) - 1
    <2> SUFFICES ASSUME NEW T \in SUBSET S, T # {}
                 PROVE  Some(T) \in T /\ Cardinality(T \ {Some(T)}) = Cardinality(T) - 1
      OBVIOUS
    <2>1. Some(T) \in T
      BY DEF Some
    <2>2. QED
      BY <1>1, <2>1, FS_RemoveElement
  <1>3. 0 \in Sizes
    <2>1. \A T \in Up(0) : T = {}
      BY <1>1, FS_EmptySet
    <2>2. Good(0, [T \in Up(0) |-> base])
      BY <2>1
    <2>3. QED
      BY <2>2
  <1>4. ASSUME NEW n \in Nat, n \in Sizes
        PROVE  n + 1 \in Sizes
    <2>1. PICK f : Good(n, f)
      BY <1>4
    <2> DEFINE g == [T \in Up(n + 1) |-> IF T = {} THEN base ELSE step[<<Some(T), f[T \ {Some(T)}]>>]]
    <2>2. ASSUME NEW T \in Up(n + 1), T # {}
          PROVE  /\ T \ {Some(T)} \in Up(n)
                 /\ T \ {Some(T)} \in Up(n + 1)
                 /\ Some(T) \in S
      BY <1>1, <1>2, <2>2
    <2>3. g \in [Up(n + 1) -> V]
      BY <2>1, <2>2
    <2>4. ASSUME NEW T \in Up(n)
          PROVE  T \in Up(n + 1) /\ g[T] = f[T]
      BY <1>1, <2>1
    <2>5. Good(n + 1, g)
      BY <2>2, <2>3, <2>4
    <2> HIDE DEF g, Good
    <2>6. \E h : Good(n + 1, h)
      BY <2>5
    <2>7. QED
      BY <2>6
  <1> HIDE DEF Sizes
  <1>5. Cardinality(S) \in Sizes
    BY <1>1, <1>3, <1>4, NaturalInduction
  <1>6. PICK f : Good(Cardinality(S), f)
    BY <1>5 DEF Sizes
  <1>7. Up(Cardinality(S)) = SUBSET S
    BY <1>1, FS_Subset
  <1>8. QED
    BY <1>6, <1>7 DEF Folds

-----------------------------------------------------------------------------
(* Products and quotients of natural numbers. *)

\* Arithmetic that the solver is given one fact at a time: products stay natural.
LEMMA ProductIsNat ==
    ASSUME NEW a \in Nat, NEW b \in Nat
    PROVE  a * b \in Nat
  OBVIOUS

\* Products distribute over sums.
LEMMA Distributes ==
    ASSUME NEW a \in Nat, NEW b \in Nat, NEW c \in Nat
    PROVE  (a + b) * c = a * c + b * c /\ c * (a + b) = c * a + c * b
  OBVIOUS

\* Products grow with their factors.
LEMMA ProductIsMonotonic ==
    ASSUME NEW a \in Nat, NEW b \in Nat, NEW c \in Nat, a <= b
    PROVE  a * c <= b * c /\ c * a <= c * b
  OBVIOUS

\* A quotient is the integer part.
LEMMA DivBounds ==
    ASSUME NEW n \in Nat, NEW d \in Nat \ {0}
    PROVE  /\ n \div d \in Nat
           /\ (n \div d) * d <= n
           /\ n < (n \div d + 1) * d
  OBVIOUS

\* A common factor can be dropped from an inequality.
LEMMA Cancel ==
    ASSUME NEW x \in Nat, NEW y \in Nat, NEW d \in Nat \ {0}, x * d < y * d
    PROVE  x < y
  <1> SUFFICES ASSUME y <= x PROVE FALSE
    OBVIOUS
  <1>1. y * d <= x * d
    BY ProductIsMonotonic
  <1>2. x * d \in Nat /\ y * d \in Nat
    BY ProductIsNat
  <1>3. QED
    BY <1>1, <1>2

\* A quotient grows with its dividend.
LEMMA DivIsMonotonic ==
    ASSUME NEW m \in Nat, NEW n \in Nat, NEW d \in Nat \ {0}, m <= n
    PROVE  m \div d <= n \div d
  <1> DEFINE x == m \div d
             y == n \div d
  <1>1. /\ x \in Nat /\ x * d <= m
        /\ y \in Nat /\ n < (y + 1) * d
    BY DivBounds
  <1> HIDE DEF x, y
  <1>2. x * d \in Nat /\ (y + 1) * d \in Nat
    BY <1>1, ProductIsNat
  <1>3. x * d < (y + 1) * d
    BY <1>1, <1>2
  <1>4. x < y + 1
    BY <1>1, <1>3, Cancel
  <1>5. QED
    BY <1>1, <1>4 DEF x, y

\* A quotient is at most what, multiplied, is at least the dividend.
LEMMA DivIsAtMost ==
    ASSUME NEW n \in Nat, NEW d \in Nat \ {0}, NEW q \in Nat, n <= q * d
    PROVE  n \div d <= q
  <1> DEFINE x == n \div d
  <1>1. x \in Nat /\ x * d <= n
    BY DivBounds
  <1> HIDE DEF x
  <1>2. x * d \in Nat /\ q * d \in Nat /\ (q + 1) * d \in Nat /\ (q + 1) * d = q * d + d
    BY <1>1, ProductIsNat
  <1>3. x * d < (q + 1) * d
    BY <1>1, <1>2
  <1>4. x < q + 1
    BY <1>1, <1>3, Cancel
  <1>5. QED
    BY <1>1, <1>4 DEF x

-----------------------------------------------------------------------------
(* One match of two orders, at a price between theirs. *)

\* A share of the commission is at most the commission, and all of it for the whole
\* amount; a larger part has a larger share.
LEMMA CommissionForBounds ==
    ASSUME NEW order, order.amount \in Nat \ {0}, order.commission \in Nat, NEW part \in 0 .. order.amount
    PROVE  /\ CommissionFor(order, part) \in Nat
           /\ CommissionFor(order, part) <= order.commission
           /\ CommissionFor(order, order.amount) = order.commission
           /\ \A less \in 0 .. part : CommissionFor(order, less) <= CommissionFor(order, part)
           /\ part * order.commission < (CommissionFor(order, part) + 1) * order.amount
           /\ CommissionFor(order, part) * order.amount <= part * order.commission
  <1> DEFINE a == order.amount
             c == order.commission
  <1>1. a \in Nat \ {0} /\ c \in Nat /\ part \in Nat /\ part <= a
    OBVIOUS
  <1>2. \A n \in Nat : CommissionFor(order, n) = (n * c) \div a
    BY DEF CommissionFor
  <1> HIDE DEF a, c
  <1>3. part * c \in Nat /\ a * c \in Nat /\ c * a \in Nat /\ c * a = a * c
    BY <1>1, ProductIsNat
  <1>4. CommissionFor(order, part) \in Nat
    BY <1>1, <1>2, <1>3, DivBounds
  <1>5. CommissionFor(order, part) <= c
    <2>1. part * c <= c * a
      BY <1>1, <1>3, ProductIsMonotonic
    <2>2. QED
      BY <1>1, <1>2, <1>3, <2>1, DivIsAtMost
  <1>6. CommissionFor(order, a) = c
    <2>1. CommissionFor(order, a) \in Nat /\ CommissionFor(order, a) <= c
      BY <1>1, <1>2, <1>3, DivBounds, DivIsAtMost
    <2>2. c * a < (CommissionFor(order, a) + 1) * a
      BY <1>1, <1>2, <1>3, DivBounds
    <2>3. c < CommissionFor(order, a) + 1
      BY <1>1, <2>1, <2>2, Cancel
    <2>4. QED
      BY <1>1, <2>1, <2>3
  <1>7. ASSUME NEW less \in 0 .. part
        PROVE  CommissionFor(order, less) <= CommissionFor(order, part)
    <2>1. less \in Nat /\ less * c \in Nat /\ less * c <= part * c
      BY <1>1, ProductIsNat, ProductIsMonotonic
    <2>2. QED
      BY <1>1, <1>2, <1>3, <2>1, DivIsMonotonic
  <1>8. /\ part * c < (CommissionFor(order, part) + 1) * a
        /\ CommissionFor(order, part) * a <= part * c
    BY <1>1, <1>2, <1>3, DivBounds
  <1>9. QED
    BY <1>4, <1>5, <1>6, <1>7, <1>8 DEF a, c

\* What a match takes from each order, and gives to the other: at most what is there,
\* at a price between the two.
LEMMA MatchBounds ==
    ASSUME NEW b, NEW s, NEW p \in Nat, NEW bp \in Nat \ {0}, NEW sp \in Nat,
           b.amount \in Nat \ {0}, s.amount \in Nat \ {0}, sp <= p, p <= bp
    PROVE  LET m == Match(b, bp, s, sp, p)
           IN  /\ m.limiting \in 0 .. s.amount
               /\ m.expectedSend \in 0 .. b.amount
               /\ m.buyerSent \in 0 .. m.expectedSend
               /\ m.expectedReturn \in 0 .. m.buyerSent
               /\ m.buyerSent * PricePrecision <= m.limiting * bp
               /\ m.limiting * sp < (m.buyerSent + 1) * PricePrecision
  <1> DEFINE m == Match(b, bp, s, sp, p)
             intent == (b.amount * PricePrecision) \div bp
             most == (m.limiting * bp) \div PricePrecision
  <1>1. /\ b.amount \in Nat \ {0} /\ bp \in Nat \ {0} /\ s.amount \in Nat \ {0} /\ sp \in Nat
        /\ PricePrecision \in Nat \ {0}
    BY SettlementAssumption
  <1>2. b.amount * PricePrecision \in Nat
    BY <1>1, ProductIsNat
  <1>3. intent \in Nat /\ intent * bp <= b.amount * PricePrecision
    BY <1>1, <1>2, DivBounds
  <1>4. /\ m.limiting \in Nat /\ m.limiting <= s.amount /\ m.limiting <= intent
        /\ m.expectedSend = most \/ m.expectedSend = b.amount
        /\ m.buyerSent = (m.limiting * p) \div PricePrecision
        /\ m.expectedReturn = (m.limiting * sp) \div PricePrecision
    <2>1. m.limiting = IF s.amount > intent THEN intent ELSE s.amount
      BY DEF Match, compareIntents
    <2>2. m.expectedSend = most \/ m.expectedSend = b.amount
      BY DEF Match, compareIntents, convertToBase
    <2>3. /\ m.buyerSent = (m.limiting * p) \div PricePrecision
          /\ m.expectedReturn = (m.limiting * sp) \div PricePrecision
      BY DEF Match, compareIntents, convertToBase
    <2> HIDE DEF m, intent, most
    <2>4. QED
      BY <1>1, <1>3, <2>1, <2>2, <2>3
  <1> HIDE DEF m, intent
  <1>5. /\ m.limiting * bp \in Nat /\ m.limiting * p \in Nat /\ m.limiting * sp \in Nat
        /\ m.limiting * sp <= m.limiting * p
        /\ m.limiting * p <= m.limiting * bp
    BY <1>1, <1>4, ProductIsNat, ProductIsMonotonic
  <1>6. most \in 0 .. b.amount
    <2>1. m.limiting * bp <= intent * bp /\ intent * bp \in Nat
      BY <1>1, <1>3, <1>4, ProductIsNat, ProductIsMonotonic
    <2>2. m.limiting * bp <= b.amount * PricePrecision
      BY <1>2, <1>3, <1>5, <2>1
    <2>3. QED
      BY <1>1, <1>5, <2>2, DivIsAtMost, DivBounds
  <1>7. m.buyerSent \in 0 .. most
    BY <1>1, <1>4, <1>5, DivIsMonotonic, DivBounds
  <1>8. m.expectedReturn \in 0 .. m.buyerSent
    <2>1. /\ (m.limiting * sp) \div PricePrecision \in Nat
          /\ (m.limiting * p) \div PricePrecision \in Nat
      BY <1>1, <1>5, DivBounds
    <2>2. (m.limiting * sp) \div PricePrecision <= (m.limiting * p) \div PricePrecision
      BY <1>1, <1>5, DivIsMonotonic
    <2>3. QED
      BY <1>4, <2>1, <2>2
  <1>9. m.buyerSent * PricePrecision <= m.limiting * bp
    <2>1. m.buyerSent * PricePrecision <= m.limiting * p
      BY <1>1, <1>4, <1>5, DivBounds
    <2>2. m.buyerSent * PricePrecision \in Nat
      BY <1>1, <1>6, <1>7, ProductIsNat
    <2>3. QED
      BY <1>5, <2>1, <2>2
  <1>10. m.limiting * sp < (m.buyerSent + 1) * PricePrecision
    <2>1. m.limiting * p < (m.buyerSent + 1) * PricePrecision
      BY <1>1, <1>4, <1>5, DivBounds
    <2>2. (m.buyerSent + 1) * PricePrecision \in Nat
      BY <1>1, <1>6, <1>7, ProductIsNat
    <2>3. QED
      BY <1>5, <2>1, <2>2
  <1> HIDE DEF most
  <1>11. QED
    <2>1. m.expectedSend \in 0 .. b.amount /\ m.buyerSent \in 0 .. m.expectedSend
      BY <1>1, <1>4, <1>6, <1>7
    <2>2. QED
      BY <1>1, <1>4, <1>8, <1>9, <1>10, <2>1 DEF m

\* No operation of executeMatch fails.
LEMMA MatchIsPossible ==
    ASSUME NEW b, NEW s, NEW p \in Nat, NEW bp \in Nat \ {0}, NEW sp \in Nat,
           b.amount \in Nat \ {0}, s.amount \in Nat \ {0},
           b.commission \in Nat, s.commission \in Nat, sp <= p, p <= bp
    PROVE  NoRevert(b, bp, s, sp, p)
  <1> DEFINE m == Match(b, bp, s, sp, p)
  <1>1. /\ m.limiting \in 0 .. s.amount
        /\ m.expectedSend \in 0 .. b.amount
        /\ m.buyerSent \in 0 .. m.expectedSend
        /\ m.expectedReturn \in 0 .. m.buyerSent
    BY MatchBounds
  <1>2. m.buyCommission = CommissionFor(b, m.buyerSent) /\ m.sellCommission = CommissionFor(s, m.limiting)
    BY DEF Match
  <1> HIDE DEF m
  <1>3. CommissionFor(s, m.limiting) <= s.commission
    BY <1>1, CommissionForBounds
  <1>4. CommissionFor(b, m.expectedSend) <= b.commission
    BY <1>1, CommissionForBounds
  <1>5. CommissionFor(b, m.buyerSent) <= CommissionFor(b, m.expectedSend)
    BY <1>1, CommissionForBounds
  <1>6. /\ b.amount \in Nat /\ b.commission \in Nat /\ s.amount \in Nat /\ s.commission \in Nat
        /\ CommissionFor(b, m.expectedSend) \in Nat /\ CommissionFor(s, m.limiting) \in Nat
        /\ CommissionFor(b, m.buyerSent) \in Nat
    <2>1. b.amount \in Nat /\ b.commission \in Nat /\ s.amount \in Nat /\ s.commission \in Nat
      OBVIOUS
    <2>2. m.buyerSent \in 0 .. b.amount
      BY <1>1, <2>1
    <2>3. QED
      BY <1>1, <2>1, <2>2, CommissionForBounds
  <1>7. /\ b.amount >= m.buyerSent /\ s.amount >= m.limiting /\ m.expectedSend >= m.buyerSent
        /\ m.buyerSent >= m.expectedReturn /\ b.amount >= m.expectedSend
    BY <1>1, <1>6
  <1>8. QED
    BY <1>2, <1>3, <1>4, <1>5, <1>6, <1>7 DEF NoRevert, m

\* The penalty and the refund of an order share what is left in it.
LEMMA RefundBounds ==
    ASSUME NEW order, order.amount \in Nat, order.commission \in Nat,
 NEW rate \in 0 .. RatePrecision
    PROVE  /\ Penalty(order, rate) \in 0 .. order.commission
           /\ Refund(order, rate) \in Nat
           /\ Refund(order, rate) >= order.amount
           /\ Penalty(order, rate) + Refund(order, rate) = order.amount + order.commission
  <1>1. order.amount \in Nat /\ order.commission \in Nat /\ RatePrecision \in Nat \ {0} /\ rate \in Nat
        /\ rate <= RatePrecision
    BY SettlementAssumption
  <1>2. order.commission * rate \in Nat /\ order.commission * rate <= order.commission * RatePrecision
    BY <1>1, ProductIsNat, ProductIsMonotonic
  <1>3. Penalty(order, rate) \in Nat /\ Penalty(order, rate) <= order.commission
    BY <1>1, <1>2, DivBounds, DivIsAtMost DEF Penalty
  <1>4. QED
    BY <1>1, <1>3 DEF Refund

-----------------------------------------------------------------------------
(* Orderbooks as sequences. *)

\* The least of a set of natural numbers.
LEMMA MinIsLeast ==
    ASSUME NEW T, T \subseteq Nat, T # {}
    PROVE  Min(T) \in T /\ \A y \in T : Min(T) <= y
  <1>1. \E x \in T : \A y \in T : x <= y
    BY LeastNat
  <1>2. QED
    BY <1>1 DEF Min

\* The orders of a list are a finite set.
LEMMA InIsFinite ==
    ASSUME NEW S, NEW s \in Seq(S)
    PROVE  In(s) \subseteq S /\ IsFiniteSet(In(s))
  <1>1. DOMAIN s = 1 .. Len(s) /\ Len(s) \in Nat /\ s \in [1 .. Len(s) -> S]
    BY LenProperties
  <1>2. s \in Surjection(1 .. Len(s), In(s))
    BY <1>1 DEF In, Surjection
  <1>3. IsFiniteSet(1 .. Len(s))
    BY <1>1, FS_Interval
  <1>4. IsFiniteSet(In(s))
    BY <1>2, <1>3, FS_Surjection
  <1>5. QED
    BY <1>1, <1>4 DEF In

\* What Place does: the order goes before the first order it is better than.
LEMMA PlaceIs ==
    ASSUME NEW S, NEW s \in Seq(S), NEW o \in S, NEW descending
    PROVE  \E at \in 1 .. Len(s) + 1 :
               /\ Place(descending, s, o) = [k \in 1 .. Len(s) + 1 |-> IF k < at THEN s[k] ELSE IF k = at THEN o ELSE s[k - 1]]
               /\ \A n \in 1 .. at - 1 : ~Before(descending, o.price, s[n].price)
               /\ at <= Len(s) => Before(descending, o.price, s[at].price)
  <1> DEFINE behind == {n \in DOMAIN s : Before(descending, o.price, s[n].price)}
             at == IF behind = {} THEN Len(s) + 1 ELSE Min(behind)
             pre == SubSeq(s, 1, at - 1)
             post == SubSeq(s, at, Len(s))
  <1>1. DOMAIN s = 1 .. Len(s) /\ Len(s) \in Nat /\ s \in [1 .. Len(s) -> S]
    BY LenProperties
  <1>2. /\ at \in 1 .. Len(s) + 1
        /\ \A n \in 1 .. at - 1 : ~Before(descending, o.price, s[n].price)
        /\ at <= Len(s) => Before(descending, o.price, s[at].price)
    <2>1. CASE behind = {}
      BY <1>1, <2>1
    <2>2. CASE behind # {}
      <3>1. at = Min(behind) /\ behind \subseteq Nat
        BY <1>1, <2>2
      <3> HIDE DEF at, behind
      <3>2. at \in behind /\ \A n \in behind : at <= n
        BY <2>2, <3>1, MinIsLeast
      <3>3. QED
        BY <1>1, <3>2 DEF behind
    <2>3. QED
      BY <2>1, <2>2
  <1>3. Place(descending, s, o) = pre \o <<o>> \o post
    BY DEF Place, InsertAt
  <1> HIDE DEF at
  <1>4. /\ pre \in Seq(S) /\ Len(pre) = at - 1 /\ \A i \in 1 .. at - 1 : pre[i] = s[i]
    <2>1. \A i \in 1 .. at - 1 : s[i] \in S
      BY <1>1, <1>2
    <2>2. QED
      BY <1>2, <2>1, SubSeqProperties
  <1>5. /\ post \in Seq(S) /\ Len(post) = Len(s) - at + 1 /\ \A i \in 1 .. Len(s) - at + 1 : post[i] = s[at + i - 1]
    <2>1. \A i \in at .. Len(s) : s[i] \in S
      BY <1>1, <1>2
    <2>2. QED
      BY <1>1, <1>2, <2>1, SubSeqProperties
  <1> HIDE DEF pre, post
  <1>6. <<o>> \in Seq(S) /\ Len(<<o>>) = 1 /\ <<o>>[1] = o
    OBVIOUS
  <1>7. /\ pre \o <<o>> \in Seq(S) /\ Len(pre \o <<o>>) = at
        /\ \A i \in 1 .. at : (pre \o <<o>>)[i] = IF i < at THEN s[i] ELSE o
    <2> DEFINE one == <<o>>
    <2>1. one \in Seq(S) /\ Len(one) = 1 /\ one[1] = o
      BY <1>6
    <2> HIDE DEF one
    <2>2. /\ pre \o one \in Seq(S) /\ Len(pre \o one) = Len(pre) + Len(one)
          /\ \A i \in 1 .. Len(pre) + Len(one) : (pre \o one)[i] = IF i <= Len(pre) THEN pre[i] ELSE one[i - Len(pre)]
      BY <1>4, <2>1, ConcatProperties
    <2>3. pre \o one \in Seq(S) /\ Len(pre \o one) = at
      BY <1>2, <1>4, <2>1, <2>2
    <2>4. ASSUME NEW i \in 1 .. at
          PROVE  (pre \o one)[i] = IF i < at THEN s[i] ELSE o
      <3>1. (pre \o one)[i] = IF i <= Len(pre) THEN pre[i] ELSE one[i - Len(pre)]
        BY <1>2, <1>4, <2>1, <2>2
      <3>2. CASE i < at
        <4>1. i \in 1 .. at - 1 /\ i <= Len(pre)
          BY <1>2, <1>4, <3>2
        <4>2. QED
          BY <1>4, <3>1, <3>2, <4>1
      <3>3. CASE ~(i < at)
        <4>1. i = at /\ ~(i <= Len(pre)) /\ i - Len(pre) = 1
          BY <1>2, <1>4, <3>3
        <4>2. QED
          BY <2>1, <3>1, <3>3, <4>1
      <3>4. QED
        BY <3>2, <3>3
    <2>5. QED
      BY <2>3, <2>4 DEF one
  <1> DEFINE front == pre \o <<o>>
             all == front \o post
             made == [k \in 1 .. Len(s) + 1 |-> IF k < at THEN s[k] ELSE IF k = at THEN o ELSE s[k - 1]]
  <1>8. front \in Seq(S) /\ Len(front) = at /\ \A i \in 1 .. at : front[i] = IF i < at THEN s[i] ELSE o
    BY <1>7
  <1> HIDE DEF front
  <1>9. /\ all \in Seq(S) /\ Len(all) = Len(front) + Len(post)
        /\ \A i \in 1 .. Len(front) + Len(post) : all[i] = IF i <= Len(front) THEN front[i] ELSE post[i - Len(front)]
    BY <1>5, <1>8, ConcatProperties
  <1> HIDE DEF all
  <1>10. Len(all) = Len(s) + 1 /\ DOMAIN all = 1 .. Len(s) + 1
    <2>1. Len(all) = Len(s) + 1
      BY <1>1, <1>2, <1>5, <1>8, <1>9
    <2>2. QED
      BY <1>9, <2>1, LenProperties
  <1>11. ASSUME NEW k \in 1 .. Len(s) + 1
         PROVE  all[k] = made[k]
    <2>1. all[k] = IF k <= at THEN front[k] ELSE post[k - at]
      BY <1>1, <1>2, <1>5, <1>8, <1>9
    <2>2. CASE k <= at
      <3>1. k \in 1 .. at
        BY <1>1, <1>2, <2>2
      <3>2. front[k] = IF k < at THEN s[k] ELSE o
        BY <1>8, <3>1
      <3>3. k < at \/ k = at
        BY <1>2, <2>2, <3>1
      <3>4. QED
        BY <1>2, <2>1, <2>2, <3>2, <3>3
    <2>3. CASE ~(k <= at)
      <3>1. /\ k - at \in 1 .. Len(s) - at + 1 /\ at + (k - at) - 1 = k - 1
            /\ ~(k < at) /\ k # at
        BY <1>1, <1>2, <2>3
      <3>2. post[k - at] = s[k - 1]
        BY <1>5, <3>1
      <3>3. QED
        BY <2>1, <2>3, <3>1, <3>2
    <2>4. QED
      BY <2>2, <2>3
  <1>12. all = made
    <2>1. all \in [1 .. Len(s) + 1 -> S]
      BY <1>9, <1>10, LenProperties
    <2>2. QED
      BY <1>11, <2>1
  <1>13. Place(descending, s, o) = made
    BY <1>3, <1>12 DEF all, front
  <1>14. QED
    BY <1>2, <1>13

\* w is what remains of s without the elements of D, in the same order: each element
\* of w is the one of s at the place that h gives.
Remains(w, s, D, h) ==
    /\ h \in [1 .. Len(w) -> 1 .. Len(s)]
    /\ \A i \in 1 .. Len(w) : w[i] = s[h[i]] /\ s[h[i]] \notin D
    /\ \A i, j \in 1 .. Len(w) : i < j => h[i] < h[j]
    /\ \A n \in 1 .. Len(s) : s[n] \notin D => \E i \in 1 .. Len(w) : h[i] = n

\* What Without does: the other elements remain, in their order.
LEMMA WithoutIs ==
    ASSUME NEW S, NEW s \in Seq(S), NEW D
    PROVE  /\ Without(s, D) \in Seq(S)
           /\ \E h : Remains(Without(s, D), s, D, h)
  <1> DEFINE Step(n, before) == IF s[n] \in D THEN before ELSE Append(before, s[n])
             Eq(f) == f = [n \in 0 .. Len(s) |-> IF n = 0 THEN <<>> ELSE Step(n, f[n - 1])]
             kept == CHOOSE f : Eq(f)
             N == Len(s)
  <1>1. DOMAIN s = 1 .. N /\ N \in Nat /\ s \in [1 .. N -> S]
    BY LenProperties
  <1>2. Without(s, D) = kept[N]
    BY DEF Without
  <1>3. Eq(kept)
    <2> DEFINE step == [p \in Nat \X Seq(S) |-> IF p[1] \in 1 .. N THEN Step(p[1], p[2]) ELSE <<>>]
    <2>1. step \in [Nat \X Seq(S) -> Seq(S)] /\ <<>> \in Seq(S)
      BY <1>1
    <2>2. PICK f \in [0 .. N -> Seq(S)] : Recurses(f, N, <<>>, step)
      <3> HIDE DEF step
      <3>1. QED
        BY <1>1, <2>1, RecursionExists
    <2>3. ASSUME NEW k \in 0 .. N, k # 0
          PROVE  f[k] = Step(k, f[k - 1])
      <3>1. k \in 1 .. N /\ k \in Nat /\ k - 1 \in 0 .. N
        BY <1>1, <2>3
      <3>2. f[k - 1] \in Seq(S)
        BY <2>2, <3>1
      <3>3. f[k] = step[<<k, f[k - 1]>>]
        BY <2>2, <2>3 DEF Recurses
      <3>4. QED
        BY <3>1, <3>2, <3>3
    <2> HIDE DEF step, Step
    <2>4. f[0] = <<>>
      <3>1. 0 \in 0 .. N
        BY <1>1
      <3>2. QED
        BY <2>2, <3>1 DEF Recurses
    <2>5. Eq(f)
      BY <1>1, <2>2, <2>3, <2>4
    <2>6. QED
      BY <2>5
  <1> HIDE DEF kept, Step
  <1>4. \A n \in 0 .. N : kept[n] = IF n = 0 THEN <<>> ELSE Step(n, kept[n - 1])
    BY <1>3
  <1> DEFINE Good(n, h) ==
                 /\ kept[n] \in Seq(S)
                 /\ h \in [1 .. Len(kept[n]) -> 1 .. n]
                 /\ \A i \in 1 .. Len(kept[n]) : kept[n][i] = s[h[i]] /\ s[h[i]] \notin D
                 /\ \A i, j \in 1 .. Len(kept[n]) : i < j => h[i] < h[j]
                 /\ \A m \in 1 .. n : s[m] \notin D => \E i \in 1 .. Len(kept[n]) : h[i] = m
             Well == {n \in Nat : n <= N => \E h : Good(n, h)}
  <1>5. 0 \in Well
    <2>1. kept[0] = <<>>
      BY <1>1, <1>4
    <2> DEFINE none == [i \in 1 .. 0 |-> 0]
    <2>2. 1 .. 0 = {} /\ <<>> \in Seq(S) /\ Len(<<>>) = 0
      OBVIOUS
    <2>3. none \in [1 .. Len(kept[0]) -> 1 .. 0]
      BY <2>1, <2>2
    <2> HIDE DEF none
    <2>4. Good(0, none)
      BY <2>1, <2>2, <2>3
    <2> HIDE DEF Good
    <2>5. QED
      BY <2>4
  <1>6. ASSUME NEW n \in Nat, n \in Well
        PROVE  n + 1 \in Well
    <2> SUFFICES ASSUME n + 1 <= N
                 PROVE  \E h : Good(n + 1, h)
      OBVIOUS
    <2>1. PICK h : Good(n, h)
      BY <1>1, <1>6
    <2>2. kept[n + 1] = Step(n + 1, kept[n])
      <3>1. n + 1 \in 0 .. N /\ n + 1 # 0 /\ n + 1 - 1 = n
        BY <1>1
      <3>2. kept[n + 1] = IF n + 1 = 0 THEN <<>> ELSE Step(n + 1, kept[n + 1 - 1])
        BY <1>4, <3>1
      <3>3. QED
        BY <3>1, <3>2
    <2> DEFINE w == kept[n]
               L == Len(w)
    <2>3. w \in Seq(S) /\ L \in Nat /\ DOMAIN w = 1 .. L
      BY <2>1, LenProperties
    <2>4. CASE s[n + 1] \in D
      <3>1. kept[n + 1] = w
        BY <2>2, <2>4 DEF Step
      <3>2. h \in [1 .. L -> 1 .. n + 1]
        BY <2>1
      <3>3. \A m \in 1 .. n + 1 : s[m] \notin D => m \in 1 .. n
        BY <2>4
      <3>4. Good(n + 1, h)
        BY <2>1, <3>1, <3>2, <3>3
      <3> HIDE DEF Good
      <3>5. QED
        BY <3>4
    <2>5. CASE s[n + 1] \notin D
      <3> DEFINE v == kept[n + 1]
                 g == [i \in 1 .. L + 1 |-> IF i = L + 1 THEN n + 1 ELSE h[i]]
      <3>1. /\ v \in Seq(S) /\ Len(v) = L + 1 /\ v[L + 1] = s[n + 1]
            /\ \A i \in 1 .. L : v[i] = w[i]
        <4>1. v = Append(w, s[n + 1])
          BY <2>2, <2>5 DEF Step
        <4>2. s[n + 1] \in S
          BY <1>1
        <4>3. QED
          BY <2>3, <4>1, <4>2, AppendProperties
      <3>2. \A i \in 1 .. L + 1 : i = L + 1 \/ i \in 1 .. L
        BY <2>3
      <3>3. \A i \in 1 .. L : h[i] \in 1 .. n /\ g[i] = h[i]
        BY <2>1, <2>3
      <3>4. g[L + 1] = n + 1
        BY <2>3
      <3>5. g \in [1 .. L + 1 -> 1 .. n + 1]
        <4>1. \A m \in 1 .. n : m \in 1 .. n + 1
          OBVIOUS
        <4>2. ASSUME NEW i \in 1 .. L + 1
              PROVE  g[i] \in 1 .. n + 1
          <5>1. n + 1 \in 1 .. n + 1
            OBVIOUS
          <5> HIDE DEF g
          <5>2. QED
            BY <3>2, <3>3, <3>4, <4>1, <5>1
        <4>3. QED
          BY <4>2
      <3> HIDE DEF g
      <3>6. \A i \in 1 .. L + 1 : v[i] = s[g[i]] /\ s[g[i]] \notin D
        BY <2>1, <2>5, <3>1, <3>2, <3>3, <3>4
      <3>7. ASSUME NEW i \in 1 .. L + 1, NEW j \in 1 .. L + 1, i < j
            PROVE  g[i] < g[j]
        <4>1. i \in 1 .. L
          BY <2>3, <3>7
        <4>2. CASE j = L + 1
          BY <3>3, <3>4, <4>1, <4>2
        <4>3. CASE j \in 1 .. L
          BY <2>1, <3>3, <3>7, <4>1, <4>3
        <4>4. QED
          BY <3>2, <4>2, <4>3
      <3>8. ASSUME NEW m \in 1 .. n + 1, s[m] \notin D
            PROVE  \E i \in 1 .. L + 1 : g[i] = m
        <4>1. CASE m = n + 1
          <5>1. L + 1 \in 1 .. L + 1
            BY <2>3
          <5>2. QED
            BY <3>4, <4>1, <5>1
        <4>2. CASE m # n + 1
          <5>1. m \in 1 .. n
            BY <4>2
          <5>2. PICK i \in 1 .. L : h[i] = m
            BY <2>1, <3>8, <5>1
          <5>3. i \in 1 .. L + 1
            BY <2>3
          <5>4. QED
            BY <3>3, <5>2, <5>3
        <4>3. QED
          BY <4>1, <4>2
      <3>9. Good(n + 1, g)
        BY <3>1, <3>5, <3>6, <3>7, <3>8
      <3> HIDE DEF Good
      <3>10. QED
        BY <3>9
    <2>6. QED
      BY <2>4, <2>5
  <1> HIDE DEF Well
  <1>7. N \in Well
    BY <1>1, <1>5, <1>6, NaturalInduction
  <1>8. PICK h : Good(N, h)
    BY <1>1, <1>7 DEF Well
  <1> HIDE DEF kept
  <1>9. QED
    BY <1>1, <1>2, <1>8 DEF Remains

\* No order is twice in the sequence s.
Distinct(s) == \A m, n \in DOMAIN s : s[m] = s[n] => m = n

\* An order that enters a list: it is made longer by one, at the place "at".
LEMMA InsertedList ==
    ASSUME NEW S, NEW s \in Seq(S), NEW o \in S, NEW at \in 1 .. Len(s) + 1, Distinct(s), o \notin In(s),
           NEW r, r = [k \in 1 .. Len(s) + 1 |-> IF k < at THEN s[k] ELSE IF k = at THEN o ELSE s[k - 1]]
    PROVE  r \in Seq(S) /\ Len(r) = Len(s) + 1 /\ Distinct(r) /\ In(r) = In(s) \union {o}
  <1>1. DOMAIN s = 1 .. Len(s) /\ Len(s) \in Nat /\ s \in [1 .. Len(s) -> S] /\ at \in Nat
    BY LenProperties
  <1> DEFINE old == 1 .. Len(s)
             new == 1 .. Len(s) + 1
             From(k) == IF k < at THEN k ELSE k - 1
  <1>2. \A k \in new : k # at => From(k) \in old /\ r[k] = s[From(k)]
    BY <1>1
  <1>3. at \in new /\ r[at] = o /\ DOMAIN r = new /\ Len(s) + 1 \in Nat
    BY <1>1
  <1>4. \A k, j \in new : k # at /\ j # at /\ From(k) = From(j) => k = j
    BY <1>1
  <1>5. \A n \in old : \E k \in new : k # at /\ From(k) = n
    <2> SUFFICES ASSUME NEW n \in old
                 PROVE  \E k \in new : k # at /\ From(k) = n
      OBVIOUS
    <2>1. CASE n < at
      BY <1>1, <2>1
    <2>2. CASE ~(n < at)
      <3>1. n + 1 \in new /\ n + 1 # at /\ From(n + 1) = n
        BY <1>1, <2>2
      <3>2. QED
        BY <3>1
    <2>3. QED
      BY <2>1, <2>2
  <1> HIDE DEF From
  <1>6. r \in Seq(S) /\ Len(r) = Len(s) + 1
    <2>1. \A k \in new : r[k] \in S
      BY <1>1, <1>2, <1>3
    <2>2. r \in [1 .. Len(s) + 1 -> S]
      BY <2>1
    <2>3. QED
      BY <1>3, <2>2
  <1>7. \A n \in old : s[n] # o
    BY <1>1 DEF In
  <1>8. Distinct(r)
    <2> SUFFICES ASSUME NEW k \in new, NEW j \in new, r[k] = r[j]
                 PROVE  k = j
      BY <1>3 DEF Distinct
    <2>1. CASE k # at /\ j # at
      <3>1. s[From(k)] = s[From(j)] /\ From(k) \in DOMAIN s /\ From(j) \in DOMAIN s
        BY <1>1, <1>2, <2>1
      <3>2. QED
        BY <1>4, <2>1, <3>1 DEF Distinct
    <2>2. CASE k = at /\ j # at
      BY <1>2, <1>3, <1>7, <2>2
    <2>3. CASE k # at /\ j = at
      BY <1>2, <1>3, <1>7, <2>3
    <2>4. QED
      BY <2>1, <2>2, <2>3
  <1>9. In(r) \subseteq In(s) \union {o}
    BY <1>1, <1>2, <1>3 DEF In
  <1>10. o \in In(r)
    BY <1>3 DEF In
  <1>11. In(s) \subseteq In(r)
    <2> SUFFICES ASSUME NEW n \in old
                 PROVE  s[n] \in In(r)
      BY <1>1 DEF In
    <2>1. PICK k \in new : k # at /\ From(k) = n
      BY <1>5
    <2>2. r[k] = s[n]
      BY <1>2, <2>1
    <2>3. QED
      BY <1>3, <2>2 DEF In
  <1>12. QED
    BY <1>6, <1>8, <1>9, <1>10, <1>11

\* An order that is placed is added to the list, once.
LEMMA PlaceList ==
    ASSUME NEW S, NEW s \in Seq(S), NEW o \in S, NEW descending, Distinct(s), o \notin In(s)
    PROVE  /\ Place(descending, s, o) \in Seq(S)
           /\ Len(Place(descending, s, o)) = Len(s) + 1
           /\ Distinct(Place(descending, s, o))
           /\ In(Place(descending, s, o)) = In(s) \union {o}
  <1>1. PICK at \in 1 .. Len(s) + 1 :
            Place(descending, s, o) = [k \in 1 .. Len(s) + 1 |-> IF k < at THEN s[k] ELSE IF k = at THEN o ELSE s[k - 1]]
    BY PlaceIs
  <1>2. QED
    BY <1>1, InsertedList

\* An order that is appended is added to the list, once.
LEMMA AppendList ==
    ASSUME NEW S, NEW s \in Seq(S), NEW o \in S, Distinct(s), o \notin In(s)
    PROVE  Append(s, o) \in Seq(S) /\ Distinct(Append(s, o)) /\ In(Append(s, o)) = In(s) \union {o}
  <1> DEFINE at == Len(s) + 1
             r == [k \in 1 .. Len(s) + 1 |-> IF k < at THEN s[k] ELSE IF k = at THEN o ELSE s[k - 1]]
  <1>1. Len(s) \in Nat /\ DOMAIN s = 1 .. Len(s)
    BY LenProperties
  <1>2. at \in 1 .. Len(s) + 1
    BY <1>1
  <1>3. Append(s, o) = r
    <2>1. Append(s, o) \in [1 .. Len(s) + 1 -> S]
      BY AppendProperties, LenProperties
    <2>2. ASSUME NEW k \in 1 .. Len(s) + 1
          PROVE  Append(s, o)[k] = r[k]
      <3>1. k = Len(s) + 1 \/ k \in 1 .. Len(s)
        BY <1>1
      <3>2. QED
        BY <1>1, <3>1, AppendProperties
    <2>3. QED
      BY <2>1, <2>2
  <1> HIDE DEF at, r
  <1>4. QED
    BY <1>2, <1>3, InsertedList DEF r

\* The list with the order o in front of it.
LEMMA FrontList ==
    ASSUME NEW S, NEW s \in Seq(S), NEW o \in S, Distinct(s), o \notin In(s)
    PROVE  /\ <<o>> \o s \in Seq(S) /\ Distinct(<<o>> \o s)
           /\ In(<<o>> \o s) = In(s) \union {o}
           /\ Len(<<o>> \o s) = Len(s) + 1
           /\ (<<o>> \o s)[1] = o
           /\ \A k \in 2 .. Len(s) + 1 : (<<o>> \o s)[k] = s[k - 1]
  <1> DEFINE at == 1
             one == <<o>>
             r == [k \in 1 .. Len(s) + 1 |-> IF k < at THEN s[k] ELSE IF k = at THEN o ELSE s[k - 1]]
  <1>1. Len(s) \in Nat /\ DOMAIN s = 1 .. Len(s)
    BY LenProperties
  <1>2. at \in 1 .. Len(s) + 1
    BY <1>1
  <1>3. one \in Seq(S) /\ Len(one) = 1 /\ one[1] = o
    OBVIOUS
  <1> HIDE DEF one
  <1>4. /\ one \o s \in Seq(S) /\ Len(one \o s) = Len(s) + 1
        /\ \A k \in 1 .. Len(s) + 1 : (one \o s)[k] = IF k <= 1 THEN one[k] ELSE s[k - 1]
    <2>1. /\ one \o s \in Seq(S) /\ Len(one \o s) = Len(one) + Len(s)
          /\ \A k \in 1 .. Len(one) + Len(s) : (one \o s)[k] = IF k <= Len(one) THEN one[k] ELSE s[k - Len(one)]
      BY <1>3, ConcatProperties
    <2>2. Len(one) + Len(s) = Len(s) + 1
      BY <1>1, <1>3
    <2>3. QED
      BY <1>3, <2>1, <2>2
  <1>5. one \o s = r
    <2>1. one \o s \in [1 .. Len(s) + 1 -> S]
      BY <1>4, LenProperties
    <2>2. ASSUME NEW k \in 1 .. Len(s) + 1
          PROVE  (one \o s)[k] = r[k]
      <3>1. CASE k = 1
        BY <1>3, <1>4, <3>1
      <3>2. CASE k # 1
        <4>1. ~(k <= 1) /\ ~(k < 1)
          BY <1>1, <3>2
        <4>2. QED
          BY <1>4, <3>2, <4>1
      <3>3. QED
        BY <3>1, <3>2
    <2>3. QED
      BY <2>1, <2>2
  <1>6. /\ (one \o s)[1] = o
        /\ \A k \in 2 .. Len(s) + 1 : (one \o s)[k] = s[k - 1]
    BY <1>1, <1>3, <1>4
  <1> HIDE DEF at
  <1>7. Distinct(r) /\ In(r) = In(s) \union {o}
    BY <1>2, InsertedList
  <1> HIDE DEF r
  <1>8. QED
    BY <1>4, <1>5, <1>6, <1>7 DEF one

\* The orders of a list that others were taken out of.
LEMMA WithoutList ==
    ASSUME NEW S, NEW s \in Seq(S), NEW D, Distinct(s)
    PROVE  /\ Without(s, D) \in Seq(S) /\ Distinct(Without(s, D))
           /\ In(Without(s, D)) = In(s) \ D
  <1> DEFINE w == Without(s, D)
  <1>1. PICK h : Remains(w, s, D, h)
    BY WithoutIs
  <1>2. w \in Seq(S) /\ DOMAIN s = 1 .. Len(s)
    BY WithoutIs, LenProperties
  <1> HIDE DEF w
  <1>3. DOMAIN w = 1 .. Len(w) /\ Len(w) \in Nat /\ Len(s) \in Nat
    BY <1>2, LenProperties
  <1>4. /\ \A i \in 1 .. Len(w) : h[i] \in DOMAIN s /\ w[i] = s[h[i]] /\ w[i] \notin D
        /\ \A i, j \in 1 .. Len(w) : i < j => h[i] < h[j]
        /\ \A n \in DOMAIN s : s[n] \notin D => \E i \in 1 .. Len(w) : h[i] = n
    BY <1>1, <1>2 DEF Remains
  <1>5. Distinct(w)
    <2> SUFFICES ASSUME NEW i \in 1 .. Len(w), NEW j \in 1 .. Len(w), w[i] = w[j]
                 PROVE  i = j
      BY <1>3 DEF Distinct
    <2>1. h[i] = h[j]
      BY <1>4 DEF Distinct
    <2>2. h[i] \in Nat /\ h[j] \in Nat
      BY <1>2, <1>3, <1>4
    <2>3. ~(i < j) /\ ~(j < i)
      BY <1>4, <2>1, <2>2
    <2>4. QED
      BY <1>3, <2>3
  <1>6. In(w) = In(s) \ D
    <2>1. In(w) \subseteq In(s) \ D
      BY <1>3, <1>4 DEF In
    <2>2. ASSUME NEW n \in DOMAIN s, s[n] \notin D
          PROVE  s[n] \in In(w)
      <3>1. PICK i \in 1 .. Len(w) : h[i] = n
        BY <1>4, <2>2
      <3>2. QED
        BY <1>3, <1>4, <3>1 DEF In
    <2>3. QED
      BY <2>1, <2>2 DEF In
  <1>7. QED
    BY <1>2, <1>5, <1>6 DEF w

\* The list that is left when its first order goes.
LEMMA TailList ==
    ASSUME NEW S, NEW s \in Seq(S), s # <<>>, Distinct(s)
    PROVE  /\ Head(s) \in In(s) /\ Head(s) = s[1] /\ 1 \in DOMAIN s
           /\ Tail(s) \in Seq(S) /\ Distinct(Tail(s)) /\ In(Tail(s)) = In(s) \ {Head(s)}
           /\ Len(Tail(s)) = Len(s) - 1 /\ \A i \in 1 .. Len(s) - 1 : Tail(s)[i] = s[i + 1]
  <1>1. Len(s) \in Nat \ {0} /\ DOMAIN s = 1 .. Len(s)
    BY EmptySeq, LenProperties
  <1>2. /\ Tail(s) \in Seq(S) /\ Len(Tail(s)) = Len(s) - 1
        /\ \A i \in 1 .. Len(s) - 1 : Tail(s)[i] = s[i + 1]
    BY HeadTailProperties
  <1>3. DOMAIN Tail(s) = 1 .. Len(s) - 1
    BY <1>2, LenProperties
  <1>4. Head(s) = s[1] /\ 1 \in DOMAIN s
    BY <1>1
  <1> DEFINE t == Tail(s)
             h == Head(s)
  <1> HIDE DEF t, h
  <1>5. \A i \in 1 .. Len(s) - 1 : i + 1 \in DOMAIN s /\ i + 1 # 1 /\ t[i] = s[i + 1]
    BY <1>1, <1>2 DEF t
  <1>6. Distinct(t)
    <2> SUFFICES ASSUME NEW i \in 1 .. Len(s) - 1, NEW j \in 1 .. Len(s) - 1, t[i] = t[j]
                 PROVE  i = j
      BY <1>3 DEF Distinct, t
    <2>1. i + 1 = j + 1
      BY <1>5 DEF Distinct
    <2>2. QED
      BY <1>1, <2>1
  <1>7. In(t) = In(s) \ {s[1]}
    <2>1. In(t) \subseteq In(s) \ {s[1]}
      <3> SUFFICES ASSUME NEW i \in 1 .. Len(s) - 1
                   PROVE  t[i] \in In(s) \ {s[1]}
        BY <1>3 DEF In, t
      <3>1. t[i] = s[i + 1] /\ i + 1 \in DOMAIN s /\ s[i + 1] # s[1]
        BY <1>4, <1>5 DEF Distinct
      <3>2. QED
        BY <3>1 DEF In
    <2>2. In(s) \ {s[1]} \subseteq In(t)
      <3> SUFFICES ASSUME NEW n \in DOMAIN s, n # 1
                   PROVE  s[n] \in In(t)
        BY DEF In
      <3>1. n - 1 \in 1 .. Len(s) - 1 /\ n - 1 + 1 = n
        BY <1>1
      <3>2. s[n] = t[n - 1]
        BY <1>5, <3>1
      <3>3. QED
        BY <1>3, <3>1, <3>2 DEF In, t
    <2>3. QED
      BY <2>1, <2>2
  <1>8. Head(s) \in In(s)
    BY <1>4 DEF In
  <1>9. QED
    BY <1>2, <1>4, <1>6, <1>7, <1>8 DEF t
=============================================================================
