---------------------------- MODULE MatchSequence ----------------------------
(***************************************************************************)
(* What rounding does to two orders over a sequence of matches at one      *)
(* price: a buy order and a sell order are matched with executeMatch; an   *)
(* order that is filled, or is withdrawn between two matches (cancelled or *)
(* expired, at penalty rates that governance changes), gives place to      *)
(* another one; each order has an account of what its owner gave and got   *)
(* since it was inserted.                                                  *)
(***************************************************************************)
EXTENDS Settlement, Integers, FiniteSets, FiniteSetsExt

CONSTANTS
    Amounts,        \* exchangeable amounts of the orders
    Commissions,    \* commissions reserved by the orders
    BuyPrices,      \* prices of the buy orders
    SellPrices,     \* prices of the sell orders
    Rates,          \* penalty rates that governance asks for
    MaxMatches      \* bound of the matches

ASSUME MatchSequenceAssumption ==
    /\ Amounts \union BuyPrices \union SellPrices \subseteq Nat \ {0}
    /\ Commissions \union Rates \subseteq Nat
    /\ MaxMatches \in Nat

VARIABLES
    buy, sell,         \* the two orders at the top of the orderbooks
    price,             \* the emergent price
    penaltyRate,       \* cancelationPenaltyRate; expirationPenaltyRate is used the same way
    bought, sold,      \* history: the accounts of the two orders
    matches            \* how many matches were done, for their bound

vars == <<buy, sell, price, penaltyRate, bought, sold, matches>>

NewOrder(prices) == [amount : Amounts, commission : Commissions, price : prices]

\* gave: tokens sent to the other side; charged: commission; back: tokens returned;
\* got: tokens of the other side.
Account(order) ==
    [locked |-> order.amount + order.commission, amount |-> order.amount, commission |-> order.commission,
     gave |-> 0, charged |-> 0, back |-> 0, got |-> 0, times |-> 0]

\* The account after "gave" and the other amounts moved, in "times" matches.
Moved(account, gave, charged, back, got, times) ==
    [locked |-> account.locked, amount |-> account.amount, commission |-> account.commission,
     gave |-> account.gave + gave, charged |-> account.charged + charged, back |-> account.back + back,
     got |-> account.got + got, times |-> account.times + times]

\* The orders of a tick have prices on the two sides of its emergent price.
Init ==
    /\ buy \in NewOrder(BuyPrices)
    /\ sell \in NewOrder(SellPrices)
    /\ price \in sell.price .. buy.price
    /\ penaltyRate = 0
    /\ bought = Account(buy)
    /\ sold = Account(sell)
    /\ matches = 0

Current == Match(buy, buy.price, sell, sell.price, price)

\* executeBuyerMatch and executeSellerMatch.
ExecuteMatch ==
    /\ matches < MaxMatches
    /\ buy.amount # 0
    /\ sell.amount # 0
    /\ NoRevert(buy, buy.price, sell, sell.price, price)
    /\ buy' = subtractAmount(buy, Current.expectedSend)
    /\ sell' = subtractAmount(sell, Current.limiting)
    /\ bought' = Moved(bought, Current.buyerSent, Current.buyCommission, Change(buy, Current), Current.limiting, 1)
    /\ sold' = Moved(sold, Current.limiting, Current.sellCommission, 0, Current.buyerSent, 1)
    /\ matches' = matches + 1
    /\ UNCHANGED <<price, penaltyRate>>

\* The next order of the side whose order was filled, taken by
\* getNextValidOrderForMatching.
NextBuy ==
    /\ matches < MaxMatches
    /\ buy.amount = 0
    /\ buy' \in {order \in NewOrder(BuyPrices) : order.price >= price}
    /\ bought' = Account(buy')
    /\ UNCHANGED <<sell, price, penaltyRate, sold, matches>>

NextSell ==
    /\ matches < MaxMatches
    /\ sell.amount = 0
    /\ sell' \in {order \in NewOrder(SellPrices) : order.price <= price}
    /\ sold' = Account(sell')
    /\ UNCHANGED <<buy, price, penaltyRate, bought, matches>>

\* MUTANT of SetPenaltyRate: without isValidRate.
SetAnyPenaltyRate ==
    /\ penaltyRate' \in Rates
    /\ UNCHANGED <<buy, sell, price, bought, sold, matches>>

SetPenaltyRate ==
    /\ penaltyRate' \in Rates
    /\ penaltyRate' <= RatePrecision
    /\ UNCHANGED <<buy, sell, price, bought, sold, matches>>

\* refundOrder: the owner is charged at the rate of now, whatever it was when the
\* order was inserted.  A penalty above the commission reverts.
CanRefund(order) == Penalty(order, penaltyRate) <= order.commission

Withdrawn(order) == [amount |-> 0, commission |-> 0, price |-> order.price]

Refunded(account, order) ==
    Moved(account, 0, Penalty(order, penaltyRate), Refund(order, penaltyRate), 0, 0)

WithdrawBuy ==
    /\ buy.amount # 0
    /\ CanRefund(buy)
    /\ buy' = Withdrawn(buy)
    /\ bought' = Refunded(bought, buy)
    /\ UNCHANGED <<sell, price, penaltyRate, sold, matches>>

WithdrawSell ==
    /\ sell.amount # 0
    /\ CanRefund(sell)
    /\ sell' = Withdrawn(sell)
    /\ sold' = Refunded(sold, sell)
    /\ UNCHANGED <<buy, price, penaltyRate, bought, matches>>

Next == ExecuteMatch \/ NextBuy \/ NextSell \/ SetPenaltyRate \/ WithdrawBuy \/ WithdrawSell

Spec == Init /\ [][Next]_vars

-----------------------------------------------------------------------------

BothLive == buy.amount # 0 /\ sell.amount # 0

\* Two orders whose prices are on the two sides of the emergent price can always be
\* matched, whatever amounts and commissions earlier matches left in them: no
\* subtraction, assert or division of executeMatch fails.
AlwaysMatchable == BothLive => NoRevert(buy, buy.price, sell, sell.price, price)

\* The match exchanges as much as the seller has and the buyer can pay for at the
\* price they bid, and says rightly which of the two orders it fills.
MatchIsMaximal ==
    BothLive =>
        LET Affordable == {n \in 0 .. sell.amount : n * buy.price <= buy.amount * PricePrecision}
            CanPay(n)  == n * buy.price <= buy.amount * PricePrecision
        IN  /\ Current.limiting = Max(Affordable)
            /\ (Current.matchType \in {"SELLER_FILL", "DOUBLE_FILL"}) <=> CanPay(sell.amount)
            /\ (Current.matchType \in {"BUYER_FILL", "DOUBLE_FILL"}) <=> ~CanPay(Current.limiting + 1)

\* Whatever is not left in an order was given to the other side, charged as its
\* commission or returned to its owner: the divisions lose nothing.
NothingIsLost ==
    /\ bought.locked = buy.amount + buy.commission + bought.gave + bought.charged + bought.back
    /\ sold.locked = sell.amount + sell.commission + sold.gave + sold.charged + sold.back

\* Over all its matches a buyer never pays, without commission, more than they bid
\* for what they got; a seller, who is paid in whole units of base token, loses
\* less than one unit in each match against what they asked.
NobodyIsWorseOff ==
    /\ bought.gave * PricePrecision <= bought.got * buy.price
    /\ sold.gave * sell.price < (sold.got + sold.times) * PricePrecision \/ sold.times = 0

\* Partial matches do not make an order avoid its commission: it is charged, to less
\* than one unit per match, the share of what it reserved for what it gave, and
\* a filled sell order has paid all of it.
CommissionIsProportional ==
    /\ (bought.charged + bought.times) * bought.amount >= bought.commission * bought.gave
    /\ (sold.charged + sold.times) * sold.amount >= sold.commission * sold.gave
    /\ sell.amount = 0 /\ sold.back = 0 => sold.charged = sold.commission

\* However often the rate changes between its insertion and its end, and whatever
\* its matches were charged, an order can be cancelled and expires: the penalty is
\* never more than the commission its matches have left, so refundOrder does not
\* revert, and nobody is charged more than they reserved.
OrdersCanBeRefunded ==
    /\ buy.amount # 0 => CanRefund(buy) /\ bought.charged + buy.commission <= bought.commission
    /\ sell.amount # 0 => CanRefund(sell) /\ sold.charged + sell.commission <= sold.commission

Calculator == INSTANCE ExchangesCalculator

\* "n" differs from an exact amount by less than one unit, and less than one more
\* unit of the other token at the given price.
About(n, exact, unitPrice) ==
    LET slack == n * exact.d * PricePrecision - exact.n * PricePrecision
        unit  == exact.d * (PricePrecision + unitPrice)
    IN  slack < unit /\ -slack < unit

\* The match is the one the tests compute without rounding, to one unit of each
\* token, for both orders, and the emergent price is the exact mean rounded down.
RoundsTheExactMatch ==
    LET Amount(n) == Calculator!Whole(n)
        Price(n)  == Calculator!Fraction(n, PricePrecision)
        Exact(p)  == Calculator!match([amount |-> Amount(buy.amount), price |-> Price(buy.price)],
                                      [amount |-> Amount(sell.amount), price |-> Price(sell.price)], p)
        exact     == Exact(Price(price))
        mean      == Exact(Calculator!NoPrice).matchPrice
    IN  BothLive =>
        /\ About(Current.limiting, exact.received, 0)
        /\ About(Current.buyerSent, exact.sent, price)
        /\ About(Current.expectedSend, exact.expectedSend, buy.price)
        /\ About(Current.expectedReturn, exact.expectedReturn, sell.price)
        /\ About(buy.amount - Current.expectedSend, exact.buyAmount, buy.price)
        /\ About(sell.amount - Current.limiting, exact.sellAmount, 0)
        /\ ~Calculator!gt(Price(average(buy.price, sell.price)), mean)
        /\ Calculator!gt(Price(average(buy.price, sell.price) + 1), mean)
=============================================================================
