----------------------------- MODULE Settlement -----------------------------
(***************************************************************************)
(* The arithmetic of MoCExchangeLib and CommissionManager: which order a   *)
(* match fills, how much of each token goes where, which commission is     *)
(* charged, and what is left of the two orders.  Every division rounds     *)
(* down.  Amounts are natural numbers; a subtraction that SafeMath would   *)
(* revert is excluded by NoRevert, and no amount comes near 2^256.         *)
(*                                                                         *)
(* A buy order holds base tokens, a sell order holds secondary tokens; an  *)
(* order is a record with at least amount, commission (both in its own     *)
(* token), price (or multiply factor) and orderType.                       *)
(***************************************************************************)
EXTENDS Naturals

CONSTANTS
    PricePrecision,    \* Pair.priceComparisonPrecision
    RatePrecision      \* RATE_PRECISION, of the multiply factors and the commission rates

ASSUME SettlementAssumption ==
    /\ PricePrecision \in Nat \ {0}
    /\ RatePrecision \in Nat \ {0}

\* MUTANT of convertToBase: rounds up.
convertToBaseUp(secondary, price) == (secondary * price + PricePrecision - 1) \div PricePrecision

convertToBase(secondary, price) == (secondary * price) \div PricePrecision

marketOrderSpotPrice(marketPrice, multiplyFactor) == (multiplyFactor * marketPrice) \div RatePrecision

getOrderPrice(marketPrice, order) ==
    IF order.orderType = "LIMIT_ORDER" THEN order.price ELSE marketOrderSpotPrice(marketPrice, order.price)

\* Math.average
average(a, b) == (a + b) \div 2

\* MUTANT of compareIntents: rounds the intent of the buyer up.
compareIntentsUp(buyAmount, buyPrice, sellAmount) ==
    LET buyerIntent == (buyAmount * PricePrecision + buyPrice - 1) \div buyPrice
    IN  [limitingAmount |-> IF sellAmount > buyerIntent THEN buyerIntent ELSE sellAmount,
         matchType      |-> IF sellAmount > buyerIntent THEN "BUYER_FILL"
                            ELSE IF sellAmount < buyerIntent THEN "SELLER_FILL"
                            ELSE "DOUBLE_FILL"]

\* MUTANT of compareIntents: takes equal intents for the end of the buyer only.
compareIntentsOrEqual(buyAmount, buyPrice, sellAmount) ==
    LET buyerIntent == (buyAmount * PricePrecision) \div buyPrice
    IN  [limitingAmount |-> IF sellAmount > buyerIntent THEN buyerIntent ELSE sellAmount,
         matchType      |-> IF sellAmount >= buyerIntent THEN "BUYER_FILL" ELSE "SELLER_FILL"]

\* MUTANT of compareIntents: says the buyer is filled when the seller is.
compareIntentsSwapped(buyAmount, buyPrice, sellAmount) ==
    LET buyerIntent == (buyAmount * PricePrecision) \div buyPrice
    IN  [limitingAmount |-> IF sellAmount > buyerIntent THEN buyerIntent ELSE sellAmount,
         matchType      |-> IF sellAmount > buyerIntent THEN "SELLER_FILL"
                            ELSE IF sellAmount < buyerIntent THEN "BUYER_FILL"
                            ELSE "DOUBLE_FILL"]

\* The secondary tokens that match, and the order, or the two, that they fill.
compareIntents(buyAmount, buyPrice, sellAmount) ==
    LET buyerIntent == (buyAmount * PricePrecision) \div buyPrice
    IN  [limitingAmount |-> IF sellAmount > buyerIntent THEN buyerIntent ELSE sellAmount,
         matchType      |-> IF sellAmount > buyerIntent THEN "BUYER_FILL"
                            ELSE IF sellAmount < buyerIntent THEN "SELLER_FILL"
                            ELSE "DOUBLE_FILL"]

\* MUTANT of CommissionFor: divides before it multiplies.
CommissionForWhole(order, part) == (part \div order.amount) * order.commission

\* The share of its reserved commission for "part" of the amount of an order:
\* chargeCommissionForMatch, transferChange and subtractAmount.
CommissionFor(order, part) == (part * order.commission) \div order.amount

\* subtractAmount
subtractAmount(order, sent) ==
    [order EXCEPT !.commission = @ - CommissionFor(order, sent), !.amount = @ - sent]

\* calculateInitialFee, of an amount in the token of the order; minimumFixed is
\* the minimum commission converted to that token.
calculateInitialFee(amount, commissionRate, minimumFixed) ==
    minimumFixed + (amount * commissionRate) \div RatePrecision

\* chargeExceptionalCommission and refundOrder: the penalty that is charged and
\* what goes back to the owner.
Penalty(order, rate) == (order.commission * rate) \div RatePrecision

Refund(order, rate) == order.amount + (order.commission - Penalty(order, rate))

\* executeMatch of two orders at their prices and at the price of the tick.
Match(buy, buyPrice, sell, sellPrice, price) ==
    LET intents      == compareIntents(buy.amount, buyPrice, sell.amount)
        limiting     == intents.limitingAmount
        expectedSend == IF intents.matchType = "SELLER_FILL" THEN convertToBase(limiting, buyPrice) ELSE buy.amount
        buyerSent    == convertToBase(limiting, price)
    IN  [matchType      |-> intents.matchType,
         limiting       |-> limiting,        \* secondary tokens to the buyer
         expectedSend   |-> expectedSend,    \* base tokens that leave the buy order
         buyerSent      |-> buyerSent,       \* base tokens to the seller
         buyCommission  |-> CommissionFor(buy, buyerSent),
         sellCommission |-> CommissionFor(sell, limiting),
         expectedReturn |-> convertToBase(limiting, sellPrice)]

\* MUTANT of Change: does not return the commission of what was not spent.
ChangeOfPrice(buy, m) == m.expectedSend - m.buyerSent

\* transferChange: what goes back to the buyer, in base tokens.
Change(buy, m) == (m.expectedSend - m.buyerSent) + (CommissionFor(buy, m.expectedSend) - m.buyCommission)

\* No require, assert, SafeMath operation or division of executeMatch fails.
NoRevert(buy, buyPrice, sell, sellPrice, price) ==
    /\ buyPrice # 0
    /\ buy.amount # 0
    /\ sell.amount # 0
    /\ LET m == Match(buy, buyPrice, sell, sellPrice, price)
       IN  /\ buy.amount >= m.buyerSent                              \* assert of chargeCommissionForMatch
           /\ sell.amount >= m.limiting
           /\ m.expectedSend >= m.buyerSent                          \* transferChange
           /\ CommissionFor(buy, m.expectedSend) >= m.buyCommission
           /\ m.buyerSent >= m.expectedReturn                        \* the surplus of executeSellerMatch
           /\ buy.amount >= m.expectedSend                           \* subtractAmount, twice
           /\ buy.commission >= CommissionFor(buy, m.expectedSend)
           /\ sell.commission >= m.sellCommission
=============================================================================
