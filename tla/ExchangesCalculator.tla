------------------------ MODULE ExchangesCalculator ------------------------
(***************************************************************************)
(* The match that the tests of the exchange expect,                        *)
(* helpers/exchangesCalculator.js: the one of the contracts computed with  *)
(* BigNumber, that is without rounding.  A number is a fraction.           *)
(***************************************************************************)
EXTENDS Integers

Fraction(n, d) == [n |-> n, d |-> d]
Whole(n) == Fraction(n, 1)

plus(a, b)  == Fraction(a.n * b.d + b.n * a.d, a.d * b.d)
minus(a, b) == Fraction(a.n * b.d - b.n * a.d, a.d * b.d)
times(a, b) == Fraction(a.n * b.n, a.d * b.d)
div(a, b)   == Fraction(a.n * b.d, a.d * b.n)
gt(a, b)    == a.n * b.d > b.n * a.d

avg(left, right) == div(plus(left, right), Whole(2))
convertToBase(secondary, price) == times(secondary, price)
convertToSecondary(base, price) == div(base, price)

NoPrice == Fraction(0, 0)

\* Without a price, two orders are matched at the mean of theirs.
match(buy, sell, givenPrice) ==
    LET price                == IF givenPrice = NoPrice THEN avg(buy.price, sell.price) ELSE givenPrice
        buyerIntent          == convertToSecondary(buy.amount, buy.price)
        limitingAmount       == IF gt(sell.amount, buyerIntent) THEN buyerIntent ELSE sell.amount
        primarySent          == convertToBase(limitingAmount, price)
        buyerExpectedSend    == convertToBase(limitingAmount, buy.price)
        sellerExpectedReturn == convertToBase(limitingAmount, sell.price)
    IN  [matchPrice     |-> price,
         received       |-> limitingAmount,
         sent           |-> primarySent,
         expectedSend   |-> buyerExpectedSend,
         change         |-> minus(buyerExpectedSend, primarySent),
         expectedReturn |-> sellerExpectedReturn,
         surplus        |-> minus(primarySent, sellerExpectedReturn),
         buyAmount      |-> minus(buy.amount, buyerExpectedSend),
         sellAmount     |-> minus(sell.amount, limitingAmount)]
=============================================================================
