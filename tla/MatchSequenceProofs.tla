-------------------------- MODULE MatchSequenceProofs --------------------------
(***************************************************************************)
(* The settlement of matches, for all amounts, commissions, prices, rates  *)
(* and precisions: two orders can always be matched, their accounts        *)
(* balance, nobody pays more than they bid, asked or reserved, and a match  *)
(* rounds the exact one.                                                   *)
(***************************************************************************)
EXTENDS MatchSequence, Lemmas, TLAPS

OrderRecord == [amount : Nat, commission : Nat, price : Nat]

-----------------------------------------------------------------------------
(* The shares of the commission over several matches. *)

\* A part of what is left is charged, to less than a unit, its share of all of it.
LEMMA ShareIsProportional ==
    ASSUME NEW amount \in Nat, NEW commission \in Nat, NEW a \in Nat \ {0}, NEW c \in Nat,
           commission * a <= c * amount,
           NEW part \in Nat, NEW share \in Nat, part * c < (share + 1) * a
    PROVE  commission * part <= (share + 1) * amount
  <1>1. /\ commission * a \in Nat /\ c * amount \in Nat /\ part * c \in Nat /\ (share + 1) * a \in Nat
        /\ commission * part \in Nat /\ (share + 1) * amount \in Nat
    BY ProductIsNat
  <1>2. part * (commission * a) <= part * (c * amount)
    BY <1>1, ProductIsMonotonic
  <1>3. (part * c) * amount <= ((share + 1) * a) * amount
    BY <1>1, ProductIsMonotonic
  <1>4. /\ part * (commission * a) = (commission * part) * a
        /\ part * (c * amount) = (part * c) * amount
        /\ ((share + 1) * a) * amount = ((share + 1) * amount) * a
    OBVIOUS
  <1>5. (commission * part) * a <= ((share + 1) * amount) * a
    BY <1>2, <1>3, <1>4, <1>1, ProductIsNat
  <1>6. (commission * part) * a < ((share + 1) * amount + 1) * a
    <2>1. ((share + 1) * amount + 1) * a = ((share + 1) * amount) * a + a
      BY <1>1
    <2>2. ((share + 1) * amount) * a \in Nat /\ (commission * part) * a \in Nat
      BY <1>1, ProductIsNat
    <2>3. QED
      BY <1>5, <2>1, <2>2
  <1>7. commission * part < (share + 1) * amount + 1
    BY <1>1, <1>6, Cancel
  <1>8. QED
    BY <1>1, <1>7

\* What is left after a share is taken still has at least its share.
LEMMA RestIsProportional ==
    ASSUME NEW amount \in Nat, NEW commission \in Nat, NEW a \in Nat \ {0}, NEW c \in Nat,
           commission * a <= c * amount,
           NEW part \in 0 .. a, NEW share \in 0 .. c, share * a <= part * c
    PROVE  commission * (a - part) <= (c - share) * amount
  <1> DEFINE rest == a - part
             left == c - share
  <1>1. rest \in Nat /\ left \in Nat /\ part \in Nat /\ share \in Nat
    OBVIOUS
  <1>2. rest * c <= left * a
    <2>1. rest * c = a * c - part * c /\ left * a = a * c - share * a
      OBVIOUS
    <2>2. a * c \in Nat /\ part * c \in Nat /\ share * a \in Nat
      BY <1>1, ProductIsNat
    <2>3. QED
      BY <2>1, <2>2
  <1> HIDE DEF rest, left
  <1>3. /\ commission * a \in Nat /\ c * amount \in Nat /\ rest * c \in Nat /\ left * a \in Nat
        /\ commission * rest \in Nat /\ left * amount \in Nat
    BY <1>1, ProductIsNat
  <1>4. rest * (commission * a) <= rest * (c * amount)
    BY <1>1, <1>3, ProductIsMonotonic
  <1>5. (rest * c) * amount <= (left * a) * amount
    BY <1>2, <1>3, ProductIsMonotonic
  <1>6. /\ rest * (commission * a) = (commission * rest) * a
        /\ rest * (c * amount) = (rest * c) * amount
        /\ (left * a) * amount = (left * amount) * a
    BY <1>1
  <1>7. (commission * rest) * a <= (left * amount) * a
    BY <1>1, <1>3, <1>4, <1>5, <1>6, ProductIsNat
  <1>8. (commission * rest) * a < (left * amount + 1) * a
    <2>1. (left * amount + 1) * a = (left * amount) * a + a
      BY <1>3
    <2>2. (left * amount) * a \in Nat /\ (commission * rest) * a \in Nat
      BY <1>3, ProductIsNat
    <2>3. QED
      BY <1>7, <2>1, <2>2
  <1>9. commission * rest < left * amount + 1
    BY <1>3, <1>8, Cancel
  <1>10. QED
    BY <1>3, <1>9 DEF rest, left

-----------------------------------------------------------------------------
(* The invariant. *)

AccountRecord ==
    [locked : Nat, amount : Nat, commission : Nat, gave : Nat, charged : Nat, back : Nat, got : Nat, times : Nat]

Types ==
    /\ buy \in OrderRecord /\ buy.price # 0
    /\ sell \in OrderRecord
    /\ price \in Nat /\ sell.price <= price /\ price <= buy.price
    /\ penaltyRate \in 0 .. RatePrecision
    /\ bought \in AccountRecord /\ sold \in AccountRecord

\* What the account of an order says of what is left in it.
Balances(account, order) ==
    account.locked = order.amount + order.commission + account.gave + account.charged + account.back

Reserves(account, order) == account.charged + order.commission <= account.commission

\* The commission that is left is at least the share of the amount that is left.
Shares(account, order) ==
    /\ account.commission * account.gave <= (account.charged + account.times) * account.amount
    /\ order.amount # 0 => account.commission * order.amount <= order.commission * account.amount

BuyerIsWell == bought.gave * PricePrecision <= bought.got * buy.price

SellerIsWell ==
    /\ sold.times = 0 => sold.gave = 0
    /\ sold.times # 0 => sold.gave * sell.price < (sold.got + sold.times) * PricePrecision

\* A sell order that was not withdrawn pays all of its commission with its last match.
SellerPays ==
    /\ sell.amount = 0 => sell.commission = 0
    /\ sold.back = 0 => sold.charged + sell.commission = sold.commission

MatchIInv ==
    /\ Types
    /\ Balances(bought, buy) /\ Balances(sold, sell)
    /\ Reserves(bought, buy) /\ Reserves(sold, sell)
    /\ Shares(bought, buy) /\ Shares(sold, sell)
    /\ BuyerIsWell
    /\ SellerIsWell
    /\ SellerPays

\* An order that was just inserted.
LEMMA NewAccount ==
    ASSUME NEW order \in OrderRecord
    PROVE  /\ Account(order) \in AccountRecord
           /\ Balances(Account(order), order)
           /\ Reserves(Account(order), order)
           /\ Shares(Account(order), order)
  BY DEF OrderRecord, AccountRecord, Account, Balances, Reserves, Shares

LEMMA NewOrderIsOrder ==
    /\ NewOrder(BuyPrices) \subseteq OrderRecord
    /\ NewOrder(SellPrices) \subseteq OrderRecord
    /\ \A order \in NewOrder(BuyPrices) \union NewOrder(SellPrices) : order.price # 0 /\ order.amount # 0
  BY MatchSequenceAssumption DEF NewOrder, OrderRecord

LEMMA InitMatchIInv == Init => MatchIInv
  <1> SUFFICES ASSUME Init PROVE MatchIInv
    OBVIOUS
  <1>1. /\ buy \in OrderRecord /\ buy.price # 0 /\ buy.amount # 0
        /\ sell \in OrderRecord /\ sell.amount # 0
    BY NewOrderIsOrder DEF Init
  <1>2. price \in Nat /\ sell.price <= price /\ price <= buy.price
    BY <1>1 DEF Init, OrderRecord
  <1>3. penaltyRate \in 0 .. RatePrecision
    BY SettlementAssumption DEF Init
  <1>4. bought = Account(buy) /\ sold = Account(sell)
    BY DEF Init
  <1>5. BuyerIsWell /\ SellerIsWell /\ SellerPays
    BY <1>1, <1>4, SettlementAssumption DEF BuyerIsWell, SellerIsWell, SellerPays, Account, OrderRecord
  <1>6. QED
    BY <1>1, <1>2, <1>3, <1>4, <1>5, NewAccount DEF MatchIInv, Types
-----------------------------------------------------------------------------
(* The steps. *)

\* The account of an order after a match: "spent" leaves the order, "sent" goes to
\* the other side, the rest and its commission return to the owner.
Matched(account, after, order, spent, sent) ==
    /\ after.locked = account.locked /\ after.amount = account.amount /\ after.commission = account.commission
    /\ after.gave = account.gave + sent
    /\ after.charged = account.charged + CommissionFor(order, sent)
    /\ after.back = account.back + (spent - sent) + (CommissionFor(order, spent) - CommissionFor(order, sent))
    /\ after.times = account.times + 1

LEMMA SubtractFields ==
    ASSUME NEW order \in OrderRecord, order.amount # 0, NEW spent \in 0 .. order.amount
    PROVE  /\ subtractAmount(order, spent) \in OrderRecord
           /\ subtractAmount(order, spent).amount = order.amount - spent
           /\ subtractAmount(order, spent).commission = order.commission - CommissionFor(order, spent)
           /\ subtractAmount(order, spent).price = order.price
           /\ spent = order.amount => subtractAmount(order, spent).commission = 0
  <1>1. /\ CommissionFor(order, spent) \in 0 .. order.commission
        /\ CommissionFor(order, order.amount) = order.commission
    BY CommissionForBounds DEF OrderRecord
  <1> DEFINE left == [order EXCEPT !.commission = order.commission - CommissionFor(order, spent)]
             after == [left EXCEPT !.amount = order.amount - spent]
  <1>2. /\ left \in OrderRecord /\ left.amount = order.amount /\ left.price = order.price
        /\ left.commission = order.commission - CommissionFor(order, spent)
    BY <1>1 DEF OrderRecord
  <1> HIDE DEF left
  <1>3. /\ after \in OrderRecord /\ after.amount = order.amount - spent /\ after.price = order.price
        /\ after.commission = order.commission - CommissionFor(order, spent)
    BY <1>2 DEF OrderRecord
  <1>4. subtractAmount(order, spent) = after
    BY DEF subtractAmount, left
  <1> HIDE DEF after
  <1>5. spent = order.amount => after.commission = 0
    BY <1>1, <1>3 DEF OrderRecord
  <1>6. QED
    BY <1>3, <1>4, <1>5

LEMMA MatchedKeeps ==
    ASSUME NEW order \in OrderRecord, order.amount # 0,
           NEW account \in AccountRecord, Balances(account, order), Reserves(account, order), Shares(account, order),
           NEW spent \in 0 .. order.amount, NEW sent \in 0 .. spent,
           NEW after \in AccountRecord, Matched(account, after, order, spent, sent)
    PROVE  /\ Balances(after, subtractAmount(order, spent))
           /\ Reserves(after, subtractAmount(order, spent))
           /\ Shares(after, subtractAmount(order, spent))
  <1> DEFINE left == subtractAmount(order, spent)
             whole == CommissionFor(order, spent)
             share == CommissionFor(order, sent)
  <1>1. /\ order.amount \in Nat \ {0} /\ order.commission \in Nat
        /\ account.amount \in Nat /\ account.commission \in Nat /\ account.locked \in Nat
        /\ account.gave \in Nat /\ account.charged \in Nat /\ account.back \in Nat /\ account.times \in Nat
    BY DEF OrderRecord, AccountRecord
  <1>2. /\ whole \in 0 .. order.commission /\ share \in 0 .. whole
        /\ sent * order.commission < (share + 1) * order.amount
        /\ whole * order.amount <= spent * order.commission
    <2>1. sent \in 0 .. order.amount
      BY <1>1
    <2>2. /\ whole \in Nat /\ whole <= order.commission /\ share \in Nat /\ share <= whole
          /\ sent * order.commission < (share + 1) * order.amount
          /\ whole * order.amount <= spent * order.commission
      BY <2>1, CommissionForBounds DEF OrderRecord
    <2>3. QED
      BY <1>1, <2>2
  <1>3. /\ left.amount = order.amount - spent
        /\ left.commission = order.commission - whole
    BY SubtractFields
  <1>4. /\ after.locked = account.locked /\ after.amount = account.amount /\ after.commission = account.commission
        /\ after.gave = account.gave + sent
        /\ after.charged = account.charged + share
        /\ after.back = account.back + (spent - sent) + (whole - share)
        /\ after.times = account.times + 1
    BY DEF Matched
  <1> HIDE DEF left, whole, share
  <1>5. Balances(after, left)
    BY <1>1, <1>2, <1>3, <1>4 DEF Balances
  <1>6. Reserves(after, left)
    BY <1>1, <1>2, <1>3, <1>4 DEF Reserves
  <1>7. account.commission * order.amount <= order.commission * account.amount
    BY <1>1 DEF Shares
  <1>8. after.commission * after.gave <= (after.charged + after.times) * after.amount
    <2>1. account.commission * account.gave <= (account.charged + account.times) * account.amount
      BY DEF Shares
    <2>2. account.commission * sent <= (share + 1) * account.amount
      BY <1>1, <1>2, <1>7, ShareIsProportional
    <2>3. /\ account.commission * (account.gave + sent) = account.commission * account.gave + account.commission * sent
          /\ (account.charged + share + account.times + 1) * account.amount
                 = (account.charged + account.times) * account.amount + (share + 1) * account.amount
      <3>1. sent \in Nat /\ share + 1 \in Nat /\ account.charged + account.times \in Nat
        BY <1>1, <1>2
      <3>2. account.charged + share + account.times + 1 = (account.charged + account.times) + (share + 1)
        BY <1>1, <1>2
      <3>3. QED
        BY <1>1, <3>1, <3>2, Distributes
    <2>4. /\ account.commission * account.gave \in Nat /\ account.commission * sent \in Nat
          /\ (account.charged + account.times) * account.amount \in Nat /\ (share + 1) * account.amount \in Nat
      BY <1>1, <1>2, ProductIsNat
    <2>5. after.charged + after.times = account.charged + share + account.times + 1
      BY <1>1, <1>2, <1>4
    <2>6. QED
      BY <1>4, <2>1, <2>2, <2>3, <2>4, <2>5
  <1>9. after.commission * left.amount <= left.commission * after.amount
    BY <1>1, <1>2, <1>3, <1>4, <1>7, RestIsProportional
  <1>10. QED
    BY <1>5, <1>6, <1>8, <1>9 DEF Shares, left

\* What the match in ExecuteMatch does to the accounts.
LEMMA ExecuteMatchFields ==
    ASSUME MatchIInv, ExecuteMatch
    PROVE  /\ Current.expectedSend \in 0 .. buy.amount
           /\ Current.buyerSent \in 0 .. Current.expectedSend
           /\ Current.limiting \in 0 .. sell.amount
           /\ Current.buyerSent * PricePrecision <= Current.limiting * buy.price
           /\ Current.limiting * sell.price < (Current.buyerSent + 1) * PricePrecision
           /\ buy' = subtractAmount(buy, Current.expectedSend)
           /\ sell' = subtractAmount(sell, Current.limiting)
           /\ bought' \in AccountRecord /\ Matched(bought, bought', buy, Current.expectedSend, Current.buyerSent)
           /\ sold' \in AccountRecord /\ Matched(sold, sold', sell, Current.limiting, Current.limiting)
           /\ bought'.got = bought.got + Current.limiting
           /\ sold'.got = sold.got + Current.buyerSent
           /\ sold'.back = sold.back
           /\ UNCHANGED <<price, penaltyRate>>
  <1>1. /\ buy \in OrderRecord /\ sell \in OrderRecord /\ price \in Nat /\ bought \in AccountRecord /\ sold \in AccountRecord
        /\ buy.amount # 0 /\ sell.amount # 0 /\ buy.price # 0 /\ sell.price <= price /\ price <= buy.price
    BY DEF MatchIInv, Types, ExecuteMatch
  <1>2. /\ Current.expectedSend \in 0 .. buy.amount
        /\ Current.buyerSent \in 0 .. Current.expectedSend
        /\ Current.limiting \in 0 .. sell.amount
        /\ Current.buyerSent * PricePrecision <= Current.limiting * buy.price
        /\ Current.limiting * sell.price < (Current.buyerSent + 1) * PricePrecision
    <2>1. /\ buy.amount \in Nat \ {0} /\ sell.amount \in Nat \ {0} /\ buy.price \in Nat \ {0} /\ sell.price \in Nat
      BY <1>1 DEF OrderRecord
    <2>2. QED
      BY <1>1, <2>1, MatchBounds DEF Current
  <1>3. /\ Current.buyCommission = CommissionFor(buy, Current.buyerSent)
        /\ Current.sellCommission = CommissionFor(sell, Current.limiting)
    BY DEF Current, Match
  <1> DEFINE m == Current
  <1>4. /\ buy' = subtractAmount(buy, m.expectedSend)
        /\ sell' = subtractAmount(sell, m.limiting)
        /\ bought' = Moved(bought, m.buyerSent, m.buyCommission, Change(buy, m), m.limiting, 1)
        /\ sold' = Moved(sold, m.limiting, m.sellCommission, 0, m.buyerSent, 1)
        /\ UNCHANGED <<price, penaltyRate>>
    BY DEF ExecuteMatch
  <1> HIDE DEF m
  <1>5. /\ CommissionFor(buy, m.expectedSend) \in Nat /\ CommissionFor(buy, m.buyerSent) \in Nat
        /\ CommissionFor(buy, m.buyerSent) <= CommissionFor(buy, m.expectedSend)
        /\ CommissionFor(sell, m.limiting) \in Nat
    <2>1. buy.amount \in Nat /\ m.buyerSent \in 0 .. buy.amount
      BY <1>1, <1>2 DEF OrderRecord, m
    <2>2. QED
      BY <1>1, <1>2, <2>1, CommissionForBounds DEF OrderRecord, m
  <1>6. /\ m.expectedSend \in Nat /\ m.buyerSent \in Nat /\ m.limiting \in Nat /\ m.buyerSent <= m.expectedSend
        /\ m.buyCommission = CommissionFor(buy, m.buyerSent) /\ m.sellCommission = CommissionFor(sell, m.limiting)
    BY <1>1, <1>2, <1>3 DEF OrderRecord, m
  <1>7. bought' \in AccountRecord /\ Matched(bought, bought', buy, m.expectedSend, m.buyerSent)
        /\ bought'.got = bought.got + m.limiting
    BY <1>1, <1>4, <1>5, <1>6 DEF AccountRecord, Matched, Moved, Change
  <1>8. sold' \in AccountRecord /\ Matched(sold, sold', sell, m.limiting, m.limiting)
        /\ sold'.got = sold.got + m.buyerSent /\ sold'.back = sold.back
    BY <1>1, <1>4, <1>5, <1>6 DEF AccountRecord, Matched, Moved
  <1>9. QED
    BY <1>2, <1>4, <1>7, <1>8 DEF m

LEMMA ExecuteMatchKeeps ==
    ASSUME MatchIInv, ExecuteMatch
    PROVE  MatchIInv'
  <1> DEFINE m == Current
  <1>1. /\ buy \in OrderRecord /\ sell \in OrderRecord /\ price \in Nat /\ bought \in AccountRecord /\ sold \in AccountRecord
        /\ buy.amount # 0 /\ sell.amount # 0 /\ buy.price # 0 /\ sell.price <= price /\ price <= buy.price
        /\ penaltyRate \in 0 .. RatePrecision
    BY DEF MatchIInv, Types, ExecuteMatch
  <1>2. /\ m.expectedSend \in 0 .. buy.amount
        /\ m.buyerSent \in 0 .. m.expectedSend
        /\ m.limiting \in 0 .. sell.amount
        /\ m.buyerSent * PricePrecision <= m.limiting * buy.price
        /\ m.limiting * sell.price < (m.buyerSent + 1) * PricePrecision
    BY ExecuteMatchFields
  <1>3. /\ buy' = subtractAmount(buy, m.expectedSend)
        /\ sell' = subtractAmount(sell, m.limiting)
        /\ bought' \in AccountRecord /\ Matched(bought, bought', buy, m.expectedSend, m.buyerSent)
        /\ sold' \in AccountRecord /\ Matched(sold, sold', sell, m.limiting, m.limiting)
        /\ bought'.got = bought.got + m.limiting
        /\ sold'.got = sold.got + m.buyerSent
        /\ sold'.back = sold.back
        /\ UNCHANGED <<price, penaltyRate>>
    BY ExecuteMatchFields
  <1> HIDE DEF m
  <1>4. /\ buy' \in OrderRecord /\ buy'.price = buy.price
        /\ sell' \in OrderRecord /\ sell'.price = sell.price
        /\ sell'.amount = sell.amount - m.limiting
        /\ sell'.commission = sell.commission - CommissionFor(sell, m.limiting)
        /\ m.limiting = sell.amount => sell'.commission = 0
    BY <1>1, <1>2, <1>3, SubtractFields
  <1>5. Types'
    BY <1>1, <1>3, <1>4 DEF Types
  <1>6. Balances(bought', buy') /\ Reserves(bought', buy') /\ Shares(bought', buy')
    BY <1>1, <1>2, <1>3, MatchedKeeps DEF MatchIInv
  <1>7. Balances(sold', sell') /\ Reserves(sold', sell') /\ Shares(sold', sell')
    <2>1. m.limiting \in 0 .. m.limiting
      BY <1>1, <1>2 DEF OrderRecord
    <2>2. QED
      BY <1>1, <1>2, <1>3, <2>1, MatchedKeeps DEF MatchIInv
  <1>8. /\ m.expectedSend \in Nat /\ m.buyerSent \in Nat /\ m.limiting \in Nat
        /\ buy.price \in Nat /\ sell.price \in Nat /\ PricePrecision \in Nat
        /\ sell.amount \in Nat /\ sell.commission \in Nat
        /\ bought.gave \in Nat /\ bought.got \in Nat
        /\ sold.gave \in Nat /\ sold.got \in Nat /\ sold.times \in Nat /\ sold.charged \in Nat /\ sold.commission \in Nat
    BY <1>1, <1>2, SettlementAssumption DEF OrderRecord, AccountRecord
  <1>9. /\ bought'.gave = bought.gave + m.buyerSent
        /\ sold'.gave = sold.gave + m.limiting /\ sold'.times = sold.times + 1
        /\ sold'.charged = sold.charged + CommissionFor(sell, m.limiting) /\ sold'.commission = sold.commission
    BY <1>3 DEF Matched
  <1>10. BuyerIsWell'
    <2>1. bought.gave * PricePrecision <= bought.got * buy.price
      BY DEF MatchIInv, BuyerIsWell
    <2>2. /\ (bought.gave + m.buyerSent) * PricePrecision = bought.gave * PricePrecision + m.buyerSent * PricePrecision
          /\ (bought.got + m.limiting) * buy.price = bought.got * buy.price + m.limiting * buy.price
      BY <1>8
    <2>3. /\ bought.gave * PricePrecision \in Nat /\ m.buyerSent * PricePrecision \in Nat
          /\ bought.got * buy.price \in Nat /\ m.limiting * buy.price \in Nat
      BY <1>8, ProductIsNat
    <2>4. bought'.gave * PricePrecision <= bought'.got * buy'.price
      BY <1>2, <1>3, <1>4, <1>9, <2>1, <2>2, <2>3
    <2>5. QED
      BY <2>4 DEF BuyerIsWell
  <1>11. SellerIsWell'
    <2>1. sold.gave * sell.price <= (sold.got + sold.times) * PricePrecision
      <3>1. CASE sold.times = 0
        BY <1>8, <3>1, ProductIsNat DEF MatchIInv, SellerIsWell
      <3>2. CASE sold.times # 0
        <4>1. sold.gave * sell.price < (sold.got + sold.times) * PricePrecision
          BY <3>2 DEF MatchIInv, SellerIsWell
        <4>2. sold.gave * sell.price \in Nat /\ (sold.got + sold.times) * PricePrecision \in Nat
          BY <1>8, ProductIsNat
        <4>3. QED
          BY <4>1, <4>2
      <3>3. QED
        BY <3>1, <3>2
    <2>2. /\ (sold.gave + m.limiting) * sell.price = sold.gave * sell.price + m.limiting * sell.price
          /\ (sold.got + m.buyerSent + (sold.times + 1)) * PricePrecision
                 = (sold.got + sold.times) * PricePrecision + (m.buyerSent + 1) * PricePrecision
      BY <1>8
    <2>3. /\ sold.gave * sell.price \in Nat /\ m.limiting * sell.price \in Nat
          /\ (sold.got + sold.times) * PricePrecision \in Nat /\ (m.buyerSent + 1) * PricePrecision \in Nat
      BY <1>8, ProductIsNat
    <2>4. sold'.gave * sell'.price < (sold'.got + sold'.times) * PricePrecision
      BY <1>2, <1>3, <1>4, <1>9, <2>1, <2>2, <2>3
    <2>5. sold'.times # 0
      BY <1>8, <1>9
    <2>6. QED
      BY <2>4, <2>5 DEF SellerIsWell
  <1>12. SellerPays'
    <2>1. CommissionFor(sell, m.limiting) \in Nat
      BY <1>1, <1>2, CommissionForBounds DEF OrderRecord
    <2>2. sell'.amount = 0 => sell'.commission = 0
      BY <1>4, <1>8
    <2>3. sold.back = 0 => sold'.charged + sell'.commission = sold'.commission
      BY <1>4, <1>8, <1>9, <2>1 DEF MatchIInv, SellerPays
    <2>4. QED
      BY <1>3, <2>2, <2>3 DEF SellerPays
  <1>13. QED
    BY <1>5, <1>6, <1>7, <1>10, <1>11, <1>12 DEF MatchIInv
LEMMA NextBuyKeeps ==
    ASSUME MatchIInv, NextBuy
    PROVE  MatchIInv'
  <1>1. PICK order \in NewOrder(BuyPrices) : order.price >= price /\ buy' = order /\ bought' = Account(order)
    BY DEF NextBuy
  <1>2. UNCHANGED <<sell, price, penaltyRate, sold>>
    BY DEF NextBuy
  <1>3. order \in OrderRecord /\ order.price # 0
    BY NewOrderIsOrder
  <1>4. Types'
    <2>1. price <= order.price
      BY <1>1, <1>3 DEF MatchIInv, Types, OrderRecord
    <2>2. QED
      BY <1>1, <1>2, <1>3, <2>1, NewAccount DEF MatchIInv, Types
  <1>5. Balances(bought', buy') /\ Reserves(bought', buy') /\ Shares(bought', buy')
    BY <1>1, <1>3, NewAccount
  <1>6. BuyerIsWell'
    BY <1>1, <1>3, SettlementAssumption DEF BuyerIsWell, Account, OrderRecord
  <1>7. QED
    BY <1>2, <1>4, <1>5, <1>6 DEF MatchIInv, SellerIsWell, SellerPays

LEMMA NextSellKeeps ==
    ASSUME MatchIInv, NextSell
    PROVE  MatchIInv'
  <1>1. PICK order \in NewOrder(SellPrices) : order.price <= price /\ sell' = order /\ sold' = Account(order)
    BY DEF NextSell
  <1>2. UNCHANGED <<buy, price, penaltyRate, bought>>
    BY DEF NextSell
  <1>3. order \in OrderRecord /\ order.amount # 0
    BY NewOrderIsOrder
  <1>4. Types'
    BY <1>1, <1>2, <1>3, NewAccount DEF MatchIInv, Types
  <1>5. Balances(sold', sell') /\ Reserves(sold', sell') /\ Shares(sold', sell')
    BY <1>1, <1>3, NewAccount
  <1>6. SellerIsWell' /\ SellerPays'
    BY <1>1, <1>3 DEF SellerIsWell, SellerPays, Account, OrderRecord
  <1>7. QED
    BY <1>2, <1>4, <1>5, <1>6 DEF MatchIInv, BuyerIsWell

LEMMA SetPenaltyRateKeeps ==
    ASSUME MatchIInv, SetPenaltyRate
    PROVE  MatchIInv'
  <1>1. penaltyRate' \in 0 .. RatePrecision
    BY MatchSequenceAssumption, SettlementAssumption DEF SetPenaltyRate
  <1>2. UNCHANGED <<buy, sell, price, bought, sold>>
    BY DEF SetPenaltyRate
  <1>3. QED
    BY <1>1, <1>2 DEF MatchIInv, Types, BuyerIsWell, SellerIsWell, SellerPays

LEMMA WithdrawnKeeps ==
    ASSUME NEW order \in OrderRecord, order.amount # 0, NEW account \in AccountRecord, penaltyRate \in 0 .. RatePrecision,
           Balances(account, order), Reserves(account, order), Shares(account, order)
    PROVE  /\ Withdrawn(order) \in OrderRecord
           /\ Withdrawn(order).amount = 0 /\ Withdrawn(order).commission = 0
           /\ Withdrawn(order).price = order.price
           /\ Refunded(account, order) \in AccountRecord
           /\ Refunded(account, order).gave = account.gave
           /\ Refunded(account, order).got = account.got
           /\ Refunded(account, order).times = account.times
           /\ Refunded(account, order).back # 0
           /\ Balances(Refunded(account, order), Withdrawn(order))
           /\ Reserves(Refunded(account, order), Withdrawn(order))
           /\ Shares(Refunded(account, order), Withdrawn(order))
  <1> DEFINE penalty == Penalty(order, penaltyRate)
             refund == Refund(order, penaltyRate)
             after == Refunded(account, order)
             left == Withdrawn(order)
  <1>1. /\ order.amount \in Nat \ {0} /\ order.commission \in Nat /\ order.price \in Nat
        /\ account.locked \in Nat /\ account.amount \in Nat /\ account.commission \in Nat
        /\ account.gave \in Nat /\ account.charged \in Nat /\ account.back \in Nat
        /\ account.got \in Nat /\ account.times \in Nat
    BY DEF OrderRecord, AccountRecord
  <1>2. /\ penalty \in Nat /\ penalty <= order.commission
        /\ refund \in Nat /\ refund >= order.amount /\ penalty + refund = order.amount + order.commission
    BY <1>1, RefundBounds
  <1>3. left \in OrderRecord /\ left.amount = 0 /\ left.commission = 0 /\ left.price = order.price
    BY <1>1 DEF Withdrawn, OrderRecord
  <1> HIDE DEF penalty, refund, left
  <1>4. /\ after \in AccountRecord
        /\ after.locked = account.locked /\ after.amount = account.amount /\ after.commission = account.commission
        /\ after.gave = account.gave /\ after.got = account.got /\ after.times = account.times
        /\ after.charged = account.charged + penalty /\ after.back = account.back + refund
    BY <1>1, <1>2 DEF Refunded, Moved, AccountRecord, penalty, refund
  <1> HIDE DEF after
  <1>5. Balances(after, left) /\ Reserves(after, left) /\ after.back # 0
    <2>1. account.locked = order.amount + order.commission + account.gave + account.charged + account.back
      BY DEF Balances
    <2>2. account.charged + order.commission <= account.commission
      BY DEF Reserves
    <2>3. after.locked = left.amount + left.commission + after.gave + after.charged + after.back
      BY <1>1, <1>2, <1>3, <1>4, <2>1
    <2>4. after.charged + left.commission <= after.commission
      BY <1>1, <1>2, <1>3, <1>4, <2>2
    <2>5. after.back # 0
      <3>1. account.back + refund > 0 /\ account.back + refund \in Nat
        BY <1>1, <1>2
      <3>2. account.back + refund # 0
        BY <3>1
      <3>3. QED
        BY <1>4, <3>2
    <2>6. QED
      BY <2>3, <2>4, <2>5 DEF Balances, Reserves
  <1>6. account.commission * account.gave <= (account.charged + penalty + account.times) * account.amount
    <2>1. account.commission * account.gave <= (account.charged + account.times) * account.amount
      BY DEF Shares
    <2>2. /\ account.charged + account.times \in Nat /\ account.charged + penalty + account.times \in Nat
          /\ account.charged + account.times <= account.charged + penalty + account.times
      BY <1>1, <1>2
    <2>3. (account.charged + account.times) * account.amount
              <= (account.charged + penalty + account.times) * account.amount
      BY <1>1, <2>2, ProductIsMonotonic
    <2>4. /\ account.commission * account.gave \in Nat
          /\ (account.charged + account.times) * account.amount \in Nat
          /\ (account.charged + penalty + account.times) * account.amount \in Nat
      BY <1>1, <2>2, ProductIsNat
    <2>5. QED
      BY <2>1, <2>3, <2>4
  <1>7. Shares(after, left)
    BY <1>3, <1>4, <1>6 DEF Shares
  <1>8. QED
    BY <1>3, <1>4, <1>5, <1>7 DEF after, left

LEMMA WithdrawBuyKeeps ==
    ASSUME MatchIInv, WithdrawBuy
    PROVE  MatchIInv'
  <1>1. /\ buy \in OrderRecord /\ buy.amount # 0 /\ bought \in AccountRecord /\ penaltyRate \in 0 .. RatePrecision
        /\ Balances(bought, buy) /\ Reserves(bought, buy) /\ Shares(bought, buy)
    BY DEF MatchIInv, Types, WithdrawBuy
  <1>2. buy' = Withdrawn(buy) /\ bought' = Refunded(bought, buy) /\ UNCHANGED <<sell, price, penaltyRate, sold>>
    BY DEF WithdrawBuy
  <1>3. /\ buy' \in OrderRecord /\ buy'.price = buy.price
        /\ bought' \in AccountRecord /\ bought'.gave = bought.gave /\ bought'.got = bought.got
        /\ Balances(bought', buy') /\ Reserves(bought', buy') /\ Shares(bought', buy')
    BY <1>1, <1>2, WithdrawnKeeps
  <1>4. Types'
    BY <1>2, <1>3 DEF MatchIInv, Types
  <1>5. BuyerIsWell'
    BY <1>3 DEF MatchIInv, BuyerIsWell
  <1>6. QED
    BY <1>2, <1>3, <1>4, <1>5 DEF MatchIInv, SellerIsWell, SellerPays

LEMMA WithdrawSellKeeps ==
    ASSUME MatchIInv, WithdrawSell
    PROVE  MatchIInv'
  <1>1. /\ sell \in OrderRecord /\ sell.amount # 0 /\ sold \in AccountRecord /\ penaltyRate \in 0 .. RatePrecision
        /\ Balances(sold, sell) /\ Reserves(sold, sell) /\ Shares(sold, sell)
    BY DEF MatchIInv, Types, WithdrawSell
  <1>2. sell' = Withdrawn(sell) /\ sold' = Refunded(sold, sell) /\ UNCHANGED <<buy, price, penaltyRate, bought>>
    BY DEF WithdrawSell
  <1>3. /\ sell' \in OrderRecord /\ sell'.price = sell.price /\ sell'.commission = 0
        /\ sold' \in AccountRecord /\ sold'.gave = sold.gave /\ sold'.got = sold.got /\ sold'.times = sold.times
        /\ sold'.back # 0
        /\ Balances(sold', sell') /\ Reserves(sold', sell') /\ Shares(sold', sell')
    BY <1>1, <1>2, WithdrawnKeeps
  <1>4. Types'
    BY <1>2, <1>3 DEF MatchIInv, Types
  <1>5. SellerIsWell' /\ SellerPays'
    BY <1>3 DEF MatchIInv, SellerIsWell, SellerPays
  <1>6. QED
    BY <1>2, <1>3, <1>4, <1>5 DEF MatchIInv, BuyerIsWell

LEMMA NextMatchIInv == MatchIInv /\ [Next]_vars => MatchIInv'
  <1> SUFFICES ASSUME MatchIInv, [Next]_vars PROVE MatchIInv'
    OBVIOUS
  <1>1. CASE ExecuteMatch
    BY <1>1, ExecuteMatchKeeps
  <1>2. CASE NextBuy
    BY <1>2, NextBuyKeeps
  <1>3. CASE NextSell
    BY <1>3, NextSellKeeps
  <1>4. CASE SetPenaltyRate
    BY <1>4, SetPenaltyRateKeeps
  <1>5. CASE WithdrawBuy
    BY <1>5, WithdrawBuyKeeps
  <1>6. CASE WithdrawSell
    BY <1>6, WithdrawSellKeeps
  <1>7. CASE UNCHANGED vars
    BY <1>7 DEF vars, MatchIInv, Types, BuyerIsWell, SellerIsWell, SellerPays
  <1>8. QED
    BY <1>1, <1>2, <1>3, <1>4, <1>5, <1>6, <1>7 DEF Next

-----------------------------------------------------------------------------
(* The theorems. *)

\* The two orders at the top of the orderbooks and the accounts of their owners, over
\* any number of matches, withdrawals and changes of the rates.
THEOREM MatchInvariance == Spec => []MatchIInv
  BY InitMatchIInv, NextMatchIInv, PTL DEF Spec

\* executeMatch never reverts on two orders whose prices are on the two sides of the
\* emergent price, whatever earlier matches left in them.
THEOREM MatchesNeverFail == Spec => []AlwaysMatchable
  <1>1. ASSUME MatchIInv, BothLive
        PROVE  NoRevert(buy, buy.price, sell, sell.price, price)
    <2>1. /\ buy.amount \in Nat \ {0} /\ sell.amount \in Nat \ {0} /\ buy.price \in Nat \ {0} /\ sell.price \in Nat
          /\ buy.commission \in Nat /\ sell.commission \in Nat
          /\ price \in Nat /\ sell.price <= price /\ price <= buy.price
      BY <1>1 DEF MatchIInv, Types, BothLive, OrderRecord
    <2>2. QED
      BY <2>1, MatchIsPossible
  <1>2. MatchIInv => AlwaysMatchable
    BY <1>1 DEF AlwaysMatchable
  <1>3. QED
    BY <1>2, MatchInvariance, PTL

\* compareIntents exchanges as much as the seller has and the buyer can pay for, and
\* its match type says which of the two is filled, for all amounts and prices.
THEOREM MatchesAreMaximal == Spec => []MatchIsMaximal
  <1>1. ASSUME MatchIInv PROVE MatchIsMaximal
    <2> SUFFICES ASSUME BothLive
                 PROVE  LET Affordable == {n \in 0 .. sell.amount : n * buy.price <= buy.amount * PricePrecision}
                            CanPay(n)  == n * buy.price <= buy.amount * PricePrecision
                        IN  /\ Current.limiting = Max(Affordable)
                            /\ (Current.matchType \in {"SELLER_FILL", "DOUBLE_FILL"}) <=> CanPay(sell.amount)
                            /\ (Current.matchType \in {"BUYER_FILL", "DOUBLE_FILL"}) <=> ~CanPay(Current.limiting + 1)
      BY DEF MatchIsMaximal
    <2> DEFINE money == buy.amount * PricePrecision
               intent == money \div buy.price
               CanPay(n) == n * buy.price <= money
               Affordable == {n \in 0 .. sell.amount : CanPay(n)}
    <2>1. /\ buy.price \in Nat \ {0} /\ sell.amount \in Nat /\ money \in Nat
      BY <1>1, ProductIsNat, SettlementAssumption DEF MatchIInv, Types, OrderRecord
    <2>2. /\ Current.limiting = IF sell.amount > intent THEN intent ELSE sell.amount
          /\ Current.matchType = IF sell.amount > intent THEN "BUYER_FILL"
                                 ELSE IF sell.amount < intent THEN "SELLER_FILL"
                                 ELSE "DOUBLE_FILL"
      BY DEF Current, Match, compareIntents
    <2> HIDE DEF money
    <2>3. intent \in Nat /\ intent * buy.price <= money /\ money < (intent + 1) * buy.price
      BY <2>1, DivBounds
    <2> HIDE DEF intent
    <2>4. \A n \in Nat : CanPay(n) <=> n <= intent
      <3> SUFFICES ASSUME NEW n \in Nat PROVE CanPay(n) <=> n <= intent
        OBVIOUS
      <3>1. n * buy.price \in Nat /\ intent * buy.price \in Nat /\ (intent + 1) * buy.price \in Nat
        BY <2>1, <2>3, ProductIsNat
      <3>2. n <= intent => n * buy.price <= intent * buy.price
        BY <2>1, <2>3, ProductIsMonotonic
      <3>3. ASSUME CanPay(n) PROVE n < intent + 1
        <4>1. n * buy.price < (intent + 1) * buy.price
          BY <2>1, <2>3, <3>1, <3>3
        <4>2. QED
          BY <2>1, <2>3, <4>1, Cancel
      <3>4. QED
        BY <2>1, <2>3, <3>1, <3>2, <3>3
    <2> HIDE DEF CanPay
    <2>5. Current.limiting \in Nat /\ Current.limiting <= sell.amount /\ Current.limiting <= intent
      BY <2>1, <2>2, <2>3
    <2>6. Current.limiting = Max(Affordable)
      <3>1. Current.limiting \in Affordable
        BY <2>1, <2>4, <2>5
      <3>2. \A n \in Affordable : n \in Nat /\ Current.limiting >= n
        <4> SUFFICES ASSUME NEW n \in 0 .. sell.amount, CanPay(n) PROVE n \in Nat /\ Current.limiting >= n
          OBVIOUS
        <4>1. n \in Nat /\ n <= sell.amount
          BY <2>1
        <4>2. n <= intent
          BY <2>4, <4>1
        <4>3. QED
          BY <2>1, <2>2, <2>3, <4>1, <4>2
      <3>3. \A n \in Affordable : (\A k \in Affordable : n >= k) => n = Current.limiting
        BY <2>5, <3>1, <3>2
      <3> HIDE DEF Affordable
      <3>4. QED
        BY <3>1, <3>2, <3>3 DEF Max
    <2>7. (Current.matchType \in {"SELLER_FILL", "DOUBLE_FILL"}) <=> CanPay(sell.amount)
      <3>1. CanPay(sell.amount) <=> sell.amount <= intent
        BY <2>1, <2>4
      <3>2. QED
        BY <2>1, <2>2, <2>3, <3>1
    <2>8. (Current.matchType \in {"BUYER_FILL", "DOUBLE_FILL"}) <=> ~CanPay(Current.limiting + 1)
      <3>1. CanPay(Current.limiting + 1) <=> Current.limiting + 1 <= intent
        BY <2>4, <2>5
      <3>2. QED
        BY <2>1, <2>2, <2>3, <3>1
    <2>9. QED
      BY <2>6, <2>7, <2>8 DEF CanPay, money
  <1>2. QED
    BY <1>1, MatchInvariance, PTL

\* The divisions of executeMatch, transferChange and refundOrder lose no unit of what
\* an order locked.
THEOREM AccountsBalance == Spec => []NothingIsLost
  <1>1. MatchIInv => NothingIsLost
    BY DEF MatchIInv, Balances, NothingIsLost
  <1>2. QED
    BY <1>1, MatchInvariance, PTL

\* No sequence of matches makes a buyer pay more than they bid, or a seller lose a
\* unit per match against what they asked.
THEOREM PricesAreKept == Spec => []NobodyIsWorseOff
  <1>1. MatchIInv => NobodyIsWorseOff
    BY DEF MatchIInv, BuyerIsWell, SellerIsWell, NobodyIsWorseOff
  <1>2. QED
    BY <1>1, MatchInvariance, PTL

\* chargeCommissionForMatch charges, over any number of partial matches, the share of
\* the reserved commission, to one unit per match.
THEOREM SharesAreCharged == Spec => []CommissionIsProportional
  <1>1. ASSUME MatchIInv PROVE CommissionIsProportional
    <2>1. /\ bought.commission * bought.gave <= (bought.charged + bought.times) * bought.amount
          /\ sold.commission * sold.gave <= (sold.charged + sold.times) * sold.amount
      BY <1>1 DEF MatchIInv, Shares
    <2>2. \A account \in AccountRecord :
              account.commission * account.gave \in Nat /\ (account.charged + account.times) * account.amount \in Nat
      BY ProductIsNat DEF AccountRecord
    <2>3. bought \in AccountRecord /\ sold \in AccountRecord
      BY <1>1 DEF MatchIInv, Types
    <2>4. sell.amount = 0 /\ sold.back = 0 => sold.charged = sold.commission
      BY <1>1, <2>3 DEF MatchIInv, SellerPays, AccountRecord
    <2>5. QED
      BY <2>1, <2>2, <2>3, <2>4 DEF CommissionIsProportional
  <1>2. QED
    BY <1>1, MatchInvariance, PTL

\* However governance moves the penalty rates between an insertion and a cancelation
\* or expiration, refundOrder does not revert and charges no more than was reserved.
THEOREM RefundsNeverFail == Spec => []OrdersCanBeRefunded
  <1>1. ASSUME MatchIInv PROVE OrdersCanBeRefunded
    <2>1. buy \in OrderRecord /\ sell \in OrderRecord /\ penaltyRate \in 0 .. RatePrecision
      BY <1>1 DEF MatchIInv, Types
    <2>2. /\ buy.amount \in Nat /\ buy.commission \in Nat
          /\ sell.amount \in Nat /\ sell.commission \in Nat
      BY <2>1 DEF OrderRecord
    <2>3. /\ Penalty(buy, penaltyRate) \in 0 .. buy.commission
          /\ Penalty(sell, penaltyRate) \in 0 .. sell.commission
      BY <2>1, <2>2, RefundBounds
    <2>4. CanRefund(buy) /\ CanRefund(sell)
      BY <2>2, <2>3 DEF CanRefund
    <2>5. /\ bought.charged + buy.commission <= bought.commission
          /\ sold.charged + sell.commission <= sold.commission
      BY <1>1 DEF MatchIInv, Reserves
    <2>6. QED
      BY <2>4, <2>5 DEF OrdersCanBeRefunded
  <1>2. QED
    BY <1>1, MatchInvariance, PTL

-----------------------------------------------------------------------------
(* The match and the one that the tests compute without rounding. *)

\* What makes an amount about a fraction N / D: it is at most a unit away, and "e" more.
LEMMA AboutIs ==
    ASSUME NEW n \in Nat, NEW exact, NEW u \in Nat, exact.n \in Nat, exact.d \in Nat, NEW e \in Nat,
           e * PricePrecision <= exact.d * u,
           n * exact.d < exact.n + (exact.d + e),
           exact.n < n * exact.d + (exact.d + e)
    PROVE  About(n, exact, u)
  <1> DEFINE N == exact.n
             D == exact.d
             P == PricePrecision
             x == n * D
             r == D + e
  <1>1. P \in Nat \ {0} /\ N \in Nat /\ D \in Nat /\ x \in Nat /\ r \in Nat /\ x < N + r /\ N < x + r
    BY ProductIsNat, SettlementAssumption
  <1>2. n * D * P = x * P /\ D * (P + u) = D * P + D * u /\ r * P = D * P + e * P
    BY <1>1
  <1>3. D * u \in Nat /\ e * P \in Nat /\ D * P \in Nat /\ e * P <= D * u
    BY <1>1, ProductIsNat
  <1> HIDE DEF x, r, N, D, P
  <1>4. r * P <= D * (P + u)
    BY <1>1, <1>2, <1>3
  <1>5. ASSUME NEW a \in Nat, NEW b \in Nat, a < b + r
        PROVE  a * P - b * P < D * (P + u)
    <2>1. (a + 1) * P <= (b + r) * P
      BY <1>1, <1>5, ProductIsMonotonic
    <2>2. (a + 1) * P = a * P + P /\ (b + r) * P = b * P + r * P
      BY <1>1
    <2>3. a * P \in Nat /\ b * P \in Nat /\ r * P \in Nat /\ D * (P + u) \in Nat
      BY <1>1, ProductIsNat
    <2>4. QED
      BY <1>1, <1>4, <2>1, <2>2, <2>3
  <1>6. x * P - N * P < D * (P + u) /\ N * P - x * P < D * (P + u)
    BY <1>1, <1>5
  <1>7. x * P \in Nat /\ N * P \in Nat
    BY <1>1, ProductIsNat
  <1>8. n * D * P - N * P = x * P - N * P
    BY <1>2
  <1>9. -(n * D * P - N * P) = N * P - x * P
    BY <1>7, <1>8
  <1>10. QED
    BY <1>6, <1>8, <1>9 DEF About, N, D, P

\* A quotient is about the exact one.
LEMMA QuotientIsAbout ==
    ASSUME NEW exact, exact.n \in Nat, exact.d \in Nat \ {0}, NEW u \in Nat
    PROVE  About(exact.n \div exact.d, exact, u)
  <1> DEFINE q == exact.n \div exact.d
             D == exact.d
             N == exact.n
  <1>1. N \in Nat /\ D \in Nat \ {0}
    OBVIOUS
  <1>2. q \in Nat /\ q * D <= N /\ N < (q + 1) * D
    BY <1>1, DivBounds
  <1> HIDE DEF q, D, N
  <1>3. (q + 1) * D = q * D + D /\ q * D \in Nat /\ D * u \in Nat
    BY <1>1, <1>2, ProductIsNat
  <1>4. 0 * PricePrecision <= D * u
    BY <1>3, SettlementAssumption
  <1>5. q * D < N + (D + 0) /\ N < q * D + (D + 0)
    BY <1>1, <1>2, <1>3
  <1>6. QED
    BY <1>1, <1>2, <1>4, <1>5, AboutIs DEF q, D, N

\* A fraction that is whole is about itself.
LEMMA WholeIsAbout ==
    ASSUME NEW exact, exact.n \in Nat, exact.d \in Nat \ {0}, NEW u \in Nat, NEW n \in Nat, n * exact.d = exact.n
    PROVE  About(n, exact, u)
  <1>1. exact.d * u \in Nat /\ 0 * PricePrecision = 0
    BY ProductIsNat, SettlementAssumption
  <1>2. QED
    BY <1>1, AboutIs

\* Base tokens for a quotient are about those for the exact one: it loses less than the
\* price of one unit.
LEMMA ConvertedIsAbout ==
    ASSUME NEW M \in Nat, NEW b \in Nat \ {0}, NEW p \in Nat, NEW exact,
           exact.n = M * p, exact.d = b * PricePrecision
    PROVE  About((((M \div b) * p) \div PricePrecision), exact, p)
  <1> DEFINE P == PricePrecision
             I == M \div b
             q == (I * p) \div P
  <1>1. P \in Nat \ {0}
    BY SettlementAssumption
  <1>2. I \in Nat /\ I * b <= M /\ M < (I + 1) * b
    BY DivBounds
  <1> HIDE DEF I
  <1>3. I * p \in Nat
    BY <1>2, ProductIsNat
  <1>4. q \in Nat /\ q * P <= I * p /\ I * p < (q + 1) * P
    BY <1>1, <1>3, DivBounds
  <1> HIDE DEF q, P
  <1>5. /\ M * p \in Nat /\ b * P \in Nat /\ b * p \in Nat /\ I * b \in Nat /\ (I + 1) * b \in Nat
        /\ q * P \in Nat /\ (q + 1) * P \in Nat
    BY <1>1, <1>2, <1>4, ProductIsNat
  <1>6. q * (b * P) <= M * p
    <2>1. (q * P) * b <= (I * p) * b
      BY <1>3, <1>4, <1>5, ProductIsMonotonic
    <2>2. (I * b) * p <= M * p
      BY <1>2, <1>5, ProductIsMonotonic
    <2>3. (q * P) * b = q * (b * P) /\ (I * p) * b = (I * b) * p
      BY <1>1, <1>2, <1>4
    <2>4. q * (b * P) \in Nat /\ (I * b) * p \in Nat
      BY <1>4, <1>5, ProductIsNat
    <2>5. QED
      BY <1>5, <2>1, <2>2, <2>3, <2>4
  <1>7. M * p < q * (b * P) + (b * P + b * p)
    <2>1. M * p <= ((I + 1) * b) * p
      BY <1>2, <1>5, ProductIsMonotonic
    <2>2. (I * p + 1) * b <= ((q + 1) * P) * b
      BY <1>3, <1>4, <1>5, ProductIsMonotonic
    <2>3. ((I + 1) * b) * p = (I * p) * b + b * p
      BY <1>2
    <2>4. (I * p + 1) * b = (I * p) * b + b
      BY <1>3
    <2>5. ((q + 1) * P) * b = q * (b * P) + b * P
      BY <1>1, <1>4
    <2>6. (I * p) * b \in Nat /\ q * (b * P) \in Nat
      BY <1>3, <1>4, <1>5, ProductIsNat
    <2>7. QED
      BY <1>5, <2>1, <2>2, <2>3, <2>4, <2>5, <2>6
  <1>8. (b * p) * P <= (b * P) * p
    <2>1. (b * p) * P = (b * P) * p
      BY <1>1
    <2>2. (b * P) * p \in Nat
      BY <1>5, ProductIsNat
    <2>3. QED
      BY <2>1, <2>2
  <1>9. q * (b * P) < M * p + (b * P + b * p)
    <2>1. b * P # 0 /\ q * (b * P) \in Nat
      BY <1>1, <1>4, <1>5, ProductIsNat
    <2>2. \A x, y, e \in Nat, d \in Nat \ {0} : x <= y => x < y + (d + e)
      OBVIOUS
    <2>3. QED
      BY <1>5, <1>6, <2>1, <2>2
  <1>10. exact.n \in Nat /\ exact.d \in Nat /\ exact.n = M * p /\ exact.d = b * P
    BY <1>5 DEF P
  <1>11. About(q, exact, p)
    BY <1>4, <1>5, <1>7, <1>8, <1>9, <1>10, AboutIs DEF P
  <1>12. QED
    BY <1>11 DEF q, I, P

\* average is the mean rounded down.
LEMMA AverageIsMean ==
    ASSUME NEW a \in Nat, NEW b \in Nat, NEW P \in Nat \ {0}, NEW mean,
           mean.n = a * P + b * P, mean.d = P * P * 2
    PROVE  /\ ~(average(a, b) * mean.d > mean.n * P)
           /\ (average(a, b) + 1) * mean.d > mean.n * P
  <1> DEFINE q == average(a, b)
             c == a + b
             Q == P * P
  <1>1. c \in Nat /\ q = c \div 2
    BY DEF average
  <1> HIDE DEF c, q
  <1>2. q \in Nat /\ q * 2 <= c /\ c < q * 2 + 2
    BY <1>1
  <1>3. Q \in Nat \ {0}
    OBVIOUS
  <1>4. mean.d = Q * 2
    OBVIOUS
  <1>5. mean.n * P = c * Q
    BY DEF c
  <1> HIDE DEF Q
  <1>6. q * (Q * 2) = (q * 2) * Q /\ (q + 1) * (Q * 2) = (q * 2 + 2) * Q
    BY <1>2, <1>3
  <1>7. (q * 2) * Q <= c * Q
    BY <1>1, <1>2, <1>3, ProductIsMonotonic
  <1>8. (c + 1) * Q <= (q * 2 + 2) * Q /\ (c + 1) * Q = c * Q + Q
    BY <1>1, <1>2, <1>3, ProductIsMonotonic
  <1>9. c * Q \in Nat /\ (q * 2) * Q \in Nat /\ (q * 2 + 2) * Q \in Nat
    BY <1>1, <1>2, <1>3, ProductIsNat
  <1>10. QED
    BY <1>3, <1>4, <1>5, <1>6, <1>7, <1>8, <1>9 DEF q

\* The match that the tests compute for two orders, at the price "given".
ExactMatch(b, s, given) ==
    Calculator!match([amount |-> Calculator!Whole(b.amount), price |-> Calculator!Fraction(b.price, PricePrecision)],
                     [amount |-> Calculator!Whole(s.amount), price |-> Calculator!Fraction(s.price, PricePrecision)], given)

\* The amounts of that match at a price p: those of the buyer's whole intent, or of all
\* that the seller has.
LEMMA ExactMatchIs ==
    ASSUME NEW b, NEW s, NEW p \in Nat,
           b.amount \in Nat, b.price \in Nat \ {0}, s.amount \in Nat, s.price \in Nat
    PROVE  LET m == ExactMatch(b, s, Calculator!Fraction(p, PricePrecision))
               P == PricePrecision
               money == b.amount * P
               unit == b.price * P
           IN  /\ s.amount * b.price > money =>
                     /\ m.received = Calculator!Fraction(money, b.price)
                     /\ m.sent = Calculator!Fraction(money * p, unit)
                     /\ m.expectedSend = Calculator!Fraction(money * b.price, unit)
                     /\ m.expectedReturn = Calculator!Fraction(money * s.price, unit)
                     /\ m.buyAmount = Calculator!Fraction(b.amount * unit - money * b.price, unit)
                     /\ m.sellAmount = Calculator!Fraction(s.amount * b.price - money, b.price)
               /\ ~(s.amount * b.price > money) =>
                     /\ m.received = Calculator!Fraction(s.amount, 1)
                     /\ m.sent = Calculator!Fraction(s.amount * p, P)
                     /\ m.expectedSend = Calculator!Fraction(s.amount * b.price, P)
                     /\ m.expectedReturn = Calculator!Fraction(s.amount * s.price, P)
                     /\ m.buyAmount = Calculator!Fraction(money - s.amount * b.price, P)
                     /\ m.sellAmount = Calculator!Fraction(0, 1)
  <1> DEFINE P == PricePrecision
             given == Calculator!Fraction(p, P)
             m == ExactMatch(b, s, given)
             B == b.amount
             S == s.amount
             bp == b.price
             sp == s.price
             money == B * P
             unit == bp * P
             intent == Calculator!Fraction(B * P, 1 * bp)
             limiting == IF S * (1 * bp) > (B * P) * 1 THEN intent ELSE Calculator!Fraction(S, 1)
  <1>1. P \in Nat \ {0} /\ B \in Nat /\ S \in Nat /\ bp \in Nat /\ sp \in Nat
    BY SettlementAssumption
  <1>2. given # Calculator!NoPrice
    BY <1>1 DEF Calculator!NoPrice, Calculator!Fraction
  <1>3. money \in Nat /\ S * bp \in Nat /\ unit \in Nat
    BY <1>1, ProductIsNat
  <1>4. /\ m.received = limiting
        /\ m.sent = Calculator!times(limiting, given)
        /\ m.expectedSend = Calculator!times(limiting, Calculator!Fraction(bp, P))
        /\ m.expectedReturn = Calculator!times(limiting, Calculator!Fraction(sp, P))
        /\ m.buyAmount = Calculator!minus(Calculator!Fraction(B, 1), Calculator!times(limiting, Calculator!Fraction(bp, P)))
        /\ m.sellAmount = Calculator!minus(Calculator!Fraction(S, 1), limiting)
    BY <1>2 DEF ExactMatch, Calculator!match, Calculator!Whole, Calculator!Fraction, Calculator!convertToBase,
                Calculator!convertToSecondary, Calculator!div, Calculator!gt
  <1>5. S * (1 * bp) = S * bp /\ (B * P) * 1 = money
    BY <1>1
  <1> HIDE DEF m
  <1>6. ASSUME S * bp > money
        PROVE  /\ m.received = Calculator!Fraction(money, bp)
               /\ m.sent = Calculator!Fraction(money * p, unit)
               /\ m.expectedSend = Calculator!Fraction(money * bp, unit)
               /\ m.expectedReturn = Calculator!Fraction(money * sp, unit)
               /\ m.buyAmount = Calculator!Fraction(B * unit - money * bp, unit)
               /\ m.sellAmount = Calculator!Fraction(S * bp - money, bp)
    <2>1. limiting = Calculator!Fraction(money, bp)
      BY <1>1, <1>5, <1>6
    <2>2. \A n \in Nat : Calculator!times(limiting, Calculator!Fraction(n, P)) = Calculator!Fraction(money * n, unit)
      BY <2>1 DEF Calculator!times, Calculator!Fraction
    <2> HIDE DEF limiting
    <2>3. Calculator!minus(Calculator!Fraction(B, 1), Calculator!Fraction(money * bp, unit))
              = Calculator!Fraction(B * unit - money * bp, unit)
      <3>1. (money * bp) * 1 = money * bp /\ 1 * unit = unit
        <4>1. money * bp \in Nat
          BY <1>1, <1>3, ProductIsNat
        <4>2. QED
          BY <1>3, <4>1
      <3>2. QED
        BY <3>1 DEF Calculator!minus, Calculator!Fraction
    <2>4. Calculator!minus(Calculator!Fraction(S, 1), Calculator!Fraction(money, bp))
              = Calculator!Fraction(S * bp - money, bp)
      <3>1. money * 1 = money /\ 1 * bp = bp
        BY <1>1, <1>3
      <3>2. QED
        BY <3>1 DEF Calculator!minus, Calculator!Fraction
    <2>5. QED
      BY <1>1, <1>4, <2>1, <2>2, <2>3, <2>4
  <1>7. ASSUME ~(S * bp > money)
        PROVE  /\ m.received = Calculator!Fraction(S, 1)
               /\ m.sent = Calculator!Fraction(S * p, P)
               /\ m.expectedSend = Calculator!Fraction(S * bp, P)
               /\ m.expectedReturn = Calculator!Fraction(S * sp, P)
               /\ m.buyAmount = Calculator!Fraction(money - S * bp, P)
               /\ m.sellAmount = Calculator!Fraction(0, 1)
    <2>1. limiting = Calculator!Fraction(S, 1)
      BY <1>5, <1>7
    <2>2. \A n \in Nat : Calculator!times(limiting, Calculator!Fraction(n, P)) = Calculator!Fraction(S * n, P)
      <3>1. 1 * P = P
        BY <1>1
      <3>2. QED
        BY <2>1, <3>1 DEF Calculator!times, Calculator!Fraction
    <2> HIDE DEF limiting
    <2>3. Calculator!minus(Calculator!Fraction(B, 1), Calculator!Fraction(S * bp, P)) = Calculator!Fraction(money - S * bp, P)
      <3>1. (S * bp) * 1 = S * bp /\ 1 * P = P
        BY <1>1, <1>3
      <3>2. QED
        BY <3>1 DEF Calculator!minus, Calculator!Fraction
    <2>4. Calculator!minus(Calculator!Fraction(S, 1), Calculator!Fraction(S, 1)) = Calculator!Fraction(0, 1)
      <3>1. S * 1 - S * 1 = 0 /\ 1 * 1 = 1
        BY <1>1
      <3>2. QED
        BY <3>1 DEF Calculator!minus, Calculator!Fraction
    <2>5. QED
      BY <1>1, <1>4, <2>1, <2>2, <2>3, <2>4
  <1>8. QED
    BY <1>6, <1>7 DEF m

\* What a match exchanges is about what the exact one does, whichever order it fills.
LEMMA MatchIsAboutExact ==
    ASSUME NEW b, NEW s, NEW p \in Nat,
           b.amount \in Nat \ {0}, b.price \in Nat \ {0}, s.amount \in Nat \ {0}, s.price \in Nat,
           s.price <= p, p <= b.price
    PROVE  LET m     == Match(b, b.price, s, s.price, p)
               exact == ExactMatch(b, s, Calculator!Fraction(p, PricePrecision))
           IN  /\ About(m.limiting, exact.received, 0)
               /\ About(m.buyerSent, exact.sent, p)
               /\ About(m.expectedSend, exact.expectedSend, b.price)
               /\ About(m.expectedReturn, exact.expectedReturn, s.price)
               /\ About(b.amount - m.expectedSend, exact.buyAmount, b.price)
               /\ About(s.amount - m.limiting, exact.sellAmount, 0)
  <1> DEFINE m == Match(b, b.price, s, s.price, p)
             exact == ExactMatch(b, s, Calculator!Fraction(p, PricePrecision))
             P == PricePrecision
             B == b.amount
             S == s.amount
             bp == b.price
             sp == s.price
             money == B * P
             unit == bp * P
             I == money \div bp
  <1>1. P \in Nat \ {0} /\ B \in Nat \ {0} /\ S \in Nat \ {0} /\ bp \in Nat \ {0} /\ sp \in Nat
    BY SettlementAssumption
  <1>2. /\ money \in Nat /\ unit \in Nat \ {0} /\ S * bp \in Nat /\ S * p \in Nat /\ S * sp \in Nat
        /\ money * p \in Nat /\ money * sp \in Nat /\ money * bp \in Nat /\ B * unit \in Nat /\ B * unit = money * bp
    <2>1. money \in Nat /\ unit \in Nat
      BY <1>1, ProductIsNat
    <2>2. unit # 0
      BY <1>1
    <2>3. B * unit = money * bp
      BY <1>1
    <2>4. QED
      BY <1>1, <2>1, <2>2, <2>3, ProductIsNat
  <1>3. I \in Nat /\ I * bp <= money /\ money < (I + 1) * bp
    BY <1>1, <1>2, DivBounds
  <1>4. /\ m.limiting = IF S > I THEN I ELSE S
        /\ m.expectedSend = IF S < I THEN (m.limiting * bp) \div P ELSE B
        /\ m.buyerSent = (m.limiting * p) \div P
        /\ m.expectedReturn = (m.limiting * sp) \div P
    <2>1. /\ m.limiting = IF S > I THEN I ELSE S
          /\ m.buyerSent = (m.limiting * p) \div P
          /\ m.expectedReturn = (m.limiting * sp) \div P
      BY DEF Match, compareIntents, convertToBase
    <2>2. m.expectedSend = IF IF S > I THEN FALSE ELSE S < I THEN (m.limiting * bp) \div P ELSE B
      BY DEF Match, compareIntents, convertToBase
    <2> HIDE DEF m, I
    <2>3. (IF S > I THEN FALSE ELSE S < I) <=> S < I
      BY <1>1, <1>3
    <2>4. QED
      BY <2>1, <2>2, <2>3
  <1>5. /\ S * bp > money =>
              /\ exact.received = Calculator!Fraction(money, bp)
              /\ exact.sent = Calculator!Fraction(money * p, unit)
              /\ exact.expectedSend = Calculator!Fraction(money * bp, unit)
              /\ exact.expectedReturn = Calculator!Fraction(money * sp, unit)
              /\ exact.buyAmount = Calculator!Fraction(B * unit - money * bp, unit)
              /\ exact.sellAmount = Calculator!Fraction(S * bp - money, bp)
        /\ ~(S * bp > money) =>
              /\ exact.received = Calculator!Fraction(S, 1)
              /\ exact.sent = Calculator!Fraction(S * p, P)
              /\ exact.expectedSend = Calculator!Fraction(S * bp, P)
              /\ exact.expectedReturn = Calculator!Fraction(S * sp, P)
              /\ exact.buyAmount = Calculator!Fraction(money - S * bp, P)
              /\ exact.sellAmount = Calculator!Fraction(0, 1)
    BY <1>1, ExactMatchIs
  <1> HIDE DEF m, exact
  <1>6. \A n, d : Calculator!Fraction(n, d).n = n /\ Calculator!Fraction(n, d).d = d
    BY DEF Calculator!Fraction
  <1>7. I * bp \in Nat /\ (I + 1) * bp \in Nat /\ (I + 1) * bp = I * bp + bp
    BY <1>1, <1>3, ProductIsNat
  <1>8. CASE S * bp > money
    <2>1. S > I
      <3>1. I * bp < S * bp
        BY <1>2, <1>3, <1>7, <1>8
      <3>2. QED
        BY <1>1, <1>3, <3>1, Cancel
    <2>2. m.limiting = I /\ m.expectedSend = B
      BY <1>1, <1>3, <1>4, <2>1
    <2>3. About(m.limiting, exact.received, 0)
      <3>1. About(Calculator!Fraction(money, bp).n \div Calculator!Fraction(money, bp).d, Calculator!Fraction(money, bp), 0)
        BY <1>1, <1>2, <1>6, QuotientIsAbout
      <3>2. QED
        BY <1>5, <1>6, <1>8, <2>2, <3>1
    <2>4. About(m.buyerSent, exact.sent, p)
      <3> DEFINE whole == Calculator!Fraction(money * p, unit)
      <3>1. whole.n = money * p /\ whole.d = bp * P
        BY <1>6
      <3>2. exact.sent = whole /\ m.buyerSent = (I * p) \div P
        BY <1>4, <1>5, <1>8, <2>2
      <3> HIDE DEF whole, money, unit
      <3>3. About((I * p) \div P, whole, p)
        BY <1>1, <1>2, <3>1, ConvertedIsAbout
      <3>4. QED
        BY <3>2, <3>3
    <2>5. About(m.expectedReturn, exact.expectedReturn, sp)
      <3> DEFINE whole == Calculator!Fraction(money * sp, unit)
      <3>1. whole.n = money * sp /\ whole.d = bp * P
        BY <1>6
      <3>2. exact.expectedReturn = whole /\ m.expectedReturn = (I * sp) \div P
        BY <1>4, <1>5, <1>8, <2>2
      <3> HIDE DEF whole, money, unit
      <3>3. About((I * sp) \div P, whole, sp)
        BY <1>1, <1>2, <3>1, ConvertedIsAbout
      <3>4. QED
        BY <3>2, <3>3
    <2>6. About(m.expectedSend, exact.expectedSend, bp)
      BY <1>1, <1>2, <1>5, <1>6, <1>8, <2>2, WholeIsAbout
    <2>7. About(B - m.expectedSend, exact.buyAmount, bp)
      <3>1. B - B = 0 /\ B * unit - money * bp = 0 /\ 0 * unit = 0
        BY <1>1, <1>2
      <3> DEFINE none == Calculator!Fraction(B * unit - money * bp, unit)
      <3>2. none.n = 0 /\ none.d = unit
        BY <1>6, <3>1
      <3>3. exact.buyAmount = none /\ B - m.expectedSend = 0
        BY <1>5, <1>8, <2>2, <3>1
      <3> HIDE DEF none
      <3>4. About(0, none, bp)
        BY <1>1, <1>2, <3>1, <3>2, WholeIsAbout
      <3>5. QED
        BY <3>3, <3>4
    <2>8. About(S - m.limiting, exact.sellAmount, 0)
      <3> DEFINE left == Calculator!Fraction(S * bp - money, bp)
                 n == S - I
      <3>1. n \in Nat /\ left.n = S * bp - money /\ left.d = bp
        BY <1>1, <1>3, <1>6, <2>1
      <3>2. n * bp = S * bp - I * bp
        BY <1>1, <1>3
      <3>3. left.n \in Nat /\ left.d \in Nat
        BY <1>1, <1>2, <1>8, <3>1
      <3> HIDE DEF n, left
      <3>4. n * left.d < left.n + (left.d + 0) /\ left.n < n * left.d + (left.d + 0)
        BY <1>1, <1>2, <1>3, <1>7, <1>8, <3>1, <3>2
      <3>5. 0 * PricePrecision <= left.d * 0
        BY <1>1, <3>1
      <3>6. About(n, left, 0)
        BY <3>1, <3>3, <3>4, <3>5, AboutIs
      <3>7. QED
        BY <1>5, <1>8, <2>2, <3>6 DEF n, left
    <2>9. QED
      BY <2>3, <2>4, <2>5, <2>6, <2>7, <2>8 DEF m, exact
  <1>9. CASE ~(S * bp > money)
    <2>1. S <= I
      <3>1. S * bp < (I + 1) * bp
        BY <1>2, <1>3, <1>7, <1>9
      <3>2. S < I + 1
        BY <1>1, <1>3, <3>1, Cancel
      <3>3. QED
        BY <1>1, <1>3, <3>2
    <2>2. m.limiting = S
      BY <1>1, <1>3, <1>4, <2>1
    <2>3. About(m.limiting, exact.received, 0)
      <3>1. S * 1 = S
        BY <1>1
      <3>2. QED
        BY <1>1, <1>5, <1>6, <1>9, <2>2, <3>1, WholeIsAbout
    <2> DEFINE send == (S * bp) \div P
               spent == Calculator!Fraction(S * bp, P)
               left == Calculator!Fraction(money - S * bp, P)
    <2>4. About(m.buyerSent, exact.sent, p)
      <3>1. About(Calculator!Fraction(S * p, P).n \div Calculator!Fraction(S * p, P).d, Calculator!Fraction(S * p, P), p)
        BY <1>1, <1>2, <1>6, QuotientIsAbout
      <3>2. QED
        BY <1>4, <1>5, <1>6, <1>9, <2>2, <3>1
    <2>5. About(m.expectedReturn, exact.expectedReturn, sp)
      <3>1. About(Calculator!Fraction(S * sp, P).n \div Calculator!Fraction(S * sp, P).d, Calculator!Fraction(S * sp, P), sp)
        BY <1>1, <1>2, <1>6, QuotientIsAbout
      <3>2. QED
        BY <1>4, <1>5, <1>6, <1>9, <2>2, <3>1
    <2>6. /\ exact.expectedSend = spent /\ exact.buyAmount = left
          /\ spent.n = S * bp /\ spent.d = P /\ left.n = money - S * bp /\ left.d = P /\ left.n \in Nat
      BY <1>2, <1>5, <1>6, <1>9
    <2>7. /\ send \in Nat /\ send * P <= S * bp /\ S * bp < (send + 1) * P
          /\ (send + 1) * P = send * P + P /\ send * P \in Nat
      <3>1. send \in Nat /\ send * P <= S * bp /\ S * bp < (send + 1) * P
        BY <1>1, <1>2, DivBounds
      <3> HIDE DEF send
      <3>2. QED
        BY <1>1, <3>1, ProductIsNat
    <2>8. S < I => m.expectedSend = send
      BY <1>4, <2>2
    <2> HIDE DEF send, spent, left
    <2>9. P * bp = unit /\ bp * P <= P * bp /\ bp * P <= P * bp /\ 0 * P <= P * bp
      BY <1>1, <1>2
    <2>10. About(m.expectedSend, exact.expectedSend, bp) /\ About(B - m.expectedSend, exact.buyAmount, bp)
      <3>1. CASE S < I
        <4>1. About(send, spent, bp)
          <5>1. send * spent.d < spent.n + (spent.d + 0) /\ spent.n < send * spent.d + (spent.d + 0)
            BY <1>1, <1>2, <2>6, <2>7
          <5>2. QED
            BY <1>1, <1>2, <2>6, <2>7, <2>9, <5>1, AboutIs
        <4>2. send <= B
          BY <1>1, <1>2, <1>9, DivIsAtMost DEF send
        <4> DEFINE n == B - send
        <4>3. n \in Nat
          BY <1>1, <2>7, <4>2
        <4>4. n * P = money - send * P
          BY <1>1, <2>7
        <4> HIDE DEF n
        <4>5. n * left.d < left.n + (left.d + 0) /\ left.n < n * left.d + (left.d + 0)
          BY <1>1, <1>2, <2>6, <2>7, <4>4
        <4>6. About(n, left, bp)
          BY <1>1, <2>6, <2>9, <4>3, <4>5, AboutIs
        <4>7. QED
          BY <2>6, <2>8, <3>1, <4>1, <4>6 DEF n
      <3>2. CASE S = I
        <4>1. m.expectedSend = B /\ B - m.expectedSend = 0
          BY <1>1, <1>4, <3>2
        <4>2. S * bp <= money /\ money < S * bp + bp
          BY <1>3, <1>7, <3>2
        <4>3. About(B, spent, bp)
          <5>1. B * spent.d < spent.n + (spent.d + bp) /\ spent.n < B * spent.d + (spent.d + bp)
            BY <1>1, <1>2, <2>6, <4>2
          <5>2. QED
            BY <1>1, <1>2, <2>6, <2>9, <5>1, AboutIs
        <4>4. About(0, left, bp)
          <5>1. 0 * left.d = 0
            BY <1>1, <2>6
          <5>2. 0 * left.d < left.n + (left.d + bp) /\ left.n < 0 * left.d + (left.d + bp)
            BY <1>1, <1>2, <2>6, <4>2, <5>1
          <5>3. QED
            BY <1>1, <2>6, <2>9, <5>2, AboutIs
        <4>5. QED
          BY <2>6, <4>1, <4>3, <4>4
      <3>3. QED
        BY <1>1, <1>3, <2>1, <3>1, <3>2
    <2>11. About(S - m.limiting, exact.sellAmount, 0)
      <3>1. S - S = 0 /\ 0 * 1 = 0
        BY <1>1
      <3>2. QED
        BY <1>5, <1>6, <1>9, <2>2, <3>1, WholeIsAbout
    <2>12. QED
      BY <2>3, <2>4, <2>5, <2>10, <2>11 DEF m, exact
  <1>10. QED
    BY <1>8, <1>9

\* executeMatch moves, for all amounts, prices and precisions, what the calculator of the
\* tests computes without rounding, to less than one unit of each token; and
\* average, of getEmergentPrice, is its mean price rounded down.
THEOREM MatchesRoundTheExactOne == Spec => []RoundsTheExactMatch
  <1>1. ASSUME MatchIInv, BothLive
        PROVE  LET exact == ExactMatch(buy, sell, Calculator!Fraction(price, PricePrecision))
                   mean  == ExactMatch(buy, sell, Calculator!NoPrice).matchPrice
                   mid   == average(buy.price, sell.price)
               IN  /\ About(Current.limiting, exact.received, 0)
                   /\ About(Current.buyerSent, exact.sent, price)
                   /\ About(Current.expectedSend, exact.expectedSend, buy.price)
                   /\ About(Current.expectedReturn, exact.expectedReturn, sell.price)
                   /\ About(buy.amount - Current.expectedSend, exact.buyAmount, buy.price)
                   /\ About(sell.amount - Current.limiting, exact.sellAmount, 0)
                   /\ ~Calculator!gt(Calculator!Fraction(mid, PricePrecision), mean)
                   /\ Calculator!gt(Calculator!Fraction(mid + 1, PricePrecision), mean)
    <2> DEFINE exact == ExactMatch(buy, sell, Calculator!Fraction(price, PricePrecision))
               mean == ExactMatch(buy, sell, Calculator!NoPrice).matchPrice
               mid == average(buy.price, sell.price)
               P == PricePrecision
    <2>1. /\ buy.amount \in Nat \ {0} /\ buy.price \in Nat \ {0} /\ sell.amount \in Nat \ {0} /\ sell.price \in Nat
          /\ price \in Nat /\ sell.price <= price /\ price <= buy.price
          /\ P \in Nat \ {0}
      BY <1>1, SettlementAssumption DEF MatchIInv, Types, BothLive, OrderRecord
    <2>2. /\ About(Current.limiting, exact.received, 0)
          /\ About(Current.buyerSent, exact.sent, price)
          /\ About(Current.expectedSend, exact.expectedSend, buy.price)
          /\ About(Current.expectedReturn, exact.expectedReturn, sell.price)
          /\ About(buy.amount - Current.expectedSend, exact.buyAmount, buy.price)
          /\ About(sell.amount - Current.limiting, exact.sellAmount, 0)
      BY <2>1, MatchIsAboutExact DEF Current
    <2>3. mean = Calculator!avg(Calculator!Fraction(buy.price, P), Calculator!Fraction(sell.price, P))
      BY DEF ExactMatch, Calculator!match
    <2>4. mean.n = (buy.price * P + sell.price * P) * 1 /\ mean.d = P * P * 2
      BY <2>3 DEF Calculator!avg, Calculator!div, Calculator!plus, Calculator!Whole, Calculator!Fraction
    <2> HIDE DEF mean
    <2>5. mean.n = buy.price * P + sell.price * P
      <3>1. buy.price * P + sell.price * P \in Nat
        BY <2>1, ProductIsNat
      <3>2. QED
        BY <2>4, <3>1
    <2>6. ~(mid * mean.d > mean.n * P) /\ (mid + 1) * mean.d > mean.n * P
      BY <2>1, <2>4, <2>5, AverageIsMean
    <2>7. \A n : Calculator!gt(Calculator!Fraction(n, P), mean) <=> n * mean.d > mean.n * P
      BY DEF Calculator!gt, Calculator!Fraction
    <2>8. QED
      BY <2>2, <2>6, <2>7 DEF mean
  <1>2. MatchIInv => RoundsTheExactMatch
    BY <1>1 DEF RoundsTheExactMatch, ExactMatch
  <1>3. QED
    BY <1>2, MatchInvariance, PTL
=============================================================================
