------------------------ MODULE ChangerScriptsProofs ------------------------
(***************************************************************************)
(* The prices of the pairs, for every set of tokens and every precision:   *)
(* orders of every listed pair can be converted to the common token, and   *)
(* the EMA that conversions use stays between the prices it was made of.   *)
(*                                                                         *)
(* Governance through the scripts, for every set of jobs, every network    *)
(* and every order in which the transactions of scripts, repeated changes  *)
(* and ticks reach the exchange.                                           *)
(***************************************************************************)
EXTENDS ChangerScripts, TLAPS

(* Arithmetic. *)

\* Products of natural numbers stay natural.
LEMMA ProductIsNat ==
    ASSUME NEW a \in Nat, NEW b \in Nat
    PROVE  a * b \in Nat
  OBVIOUS

\* Products grow with their factors.
LEMMA ProductIsMonotonic ==
    ASSUME NEW a \in Int, NEW b \in Int, NEW c \in Nat, a <= b
    PROVE  a * c <= b * c
  OBVIOUS

\* A quotient is the integer part.
LEMMA DivBounds ==
    ASSUME NEW n \in Nat, NEW d \in Nat \ {0}
    PROVE  /\ n \div d \in Nat
           /\ (n \div d) * d <= n
           /\ n <= (n \div d) * d + (d - 1)
  OBVIOUS

\* What is less than one unit of "d" larger is not larger.
LEMMA Cancel ==
    ASSUME NEW x \in Int, NEW y \in Int, NEW d \in Nat \ {0}, x * d <= y * d + (d - 1)
    PROVE  x <= y
  <1> SUFFICES ASSUME y + 1 <= x PROVE FALSE
    OBVIOUS
  <1>1. (y + 1) * d <= x * d
    BY ProductIsMonotonic
  <1>2. (y + 1) * d = y * d + d
    OBVIOUS
  <1>3. y * d \in Int /\ x * d \in Int
    OBVIOUS
  <1>4. QED
    BY <1>1, <1>2, <1>3

-----------------------------------------------------------------------------
(* The two roundings of calculateNewEMA. *)

LEMMA NewEMAIsNat ==
    ASSUME NEW e \in Nat, NEW h \in Nat, NEW s \in 0 .. RatePrecision
    PROVE  calculateNewEMA(e, h, s) \in Nat
  <1>1. RatePrecision - s \in Nat /\ RatePrecision \in Nat \ {0}
    BY SettlementAssumption
  <1>2. e * (RatePrecision - s) \in Nat /\ h * s \in Nat
    BY <1>1, ProductIsNat
  <1>3. QED
    BY <1>1, <1>2, DivBounds DEF calculateNewEMA

\* A value between the old EMA and the new price, whatever the weights.
LEMMA NewEMAIsNotAbove ==
    ASSUME NEW e \in Nat, NEW h \in Nat, NEW high \in Nat, NEW s \in 0 .. RatePrecision,
           e <= high, h <= high
    PROVE  calculateNewEMA(e, h, s) <= high
  <1> DEFINE r == RatePrecision
             a == (e * (r - s)) \div r
             b == (h * s) \div r
  <1>1. r \in Nat \ {0} /\ r - s \in Nat /\ s \in Nat
    BY SettlementAssumption
  <1>2. e * (r - s) \in Nat /\ h * s \in Nat /\ high * (r - s) \in Nat /\ high * s \in Nat
    BY <1>1, ProductIsNat
  <1>3. a \in Nat /\ b \in Nat /\ a * r <= e * (r - s) /\ b * r <= h * s
    BY <1>1, <1>2, DivBounds
  <1>4. e * (r - s) <= high * (r - s) /\ h * s <= high * s
    BY <1>1, ProductIsMonotonic
  <1>5. calculateNewEMA(e, h, s) = a + b
    BY DEF calculateNewEMA
  <1> HIDE DEF r, a, b
  <1>6. high * (r - s) + high * s = high * r
    BY <1>1
  <1>7. (a + b) * r = a * r + b * r
    BY <1>1, <1>3
  <1>8. a * r \in Nat /\ b * r \in Nat /\ high * r \in Nat
    BY <1>1, <1>3, ProductIsNat
  <1>9. (a + b) * r <= high * r + (r - 1)
    BY <1>1, <1>2, <1>3, <1>4, <1>6, <1>7, <1>8
  <1>10. a + b <= high
    BY <1>1, <1>3, <1>9, Cancel
  <1>11. QED
    BY <1>5, <1>10

\* What was lost before fades by "s" of it, which makes up for what is lost now.
LEMMA NewEMAIsNotBelow ==
    ASSUME NEW e \in Nat, NEW h \in Nat, NEW low \in Nat, NEW s \in Smoothings \union {0},
           low <= e + Drift, low <= h
    PROVE  low <= calculateNewEMA(e, h, s) + Drift
  <1> DEFINE r == RatePrecision
             a == (e * (r - s)) \div r
             b == (h * s) \div r
  <1>1. r \in Nat \ {0} /\ r - s \in Nat /\ s \in Nat /\ Drift \in Nat
    BY SettlementAssumption, PairPricesAssumption
  <1>2. e * (r - s) \in Nat /\ h * s \in Nat /\ low * s \in Nat /\ Drift * s \in Nat
    BY <1>1, ProductIsNat
  <1>3. /\ a \in Nat /\ b \in Nat
        /\ e * (r - s) <= a * r + (r - 1)
        /\ h * s <= b * r + (r - 1)
    BY <1>1, <1>2, DivBounds
  <1>4. calculateNewEMA(e, h, s) = a + b
    BY DEF calculateNewEMA
  <1>5. CASE s = 0
    <2>1. e * (r - s) = e * r
      BY <1>1, <1>5
    <2>2. e * r <= a * r + (r - 1)
      BY <1>3, <2>1
    <2>3. e <= a
      <3> HIDE DEF r, a
      <3>1. QED
        BY <1>1, <1>3, <2>2, Cancel
    <2>4. QED
      BY <1>1, <1>3, <1>4, <2>3
  <1>6. CASE s # 0
    <2>1. r - 1 <= Drift * s
      BY <1>6, PairPricesAssumption
    <2> HIDE DEF r, a, b
    <2>2. (low - Drift) * (r - s) <= e * (r - s)
      BY <1>1, ProductIsMonotonic
    <2>3. low * s <= h * s
      BY <1>1, ProductIsMonotonic
    <2>4. (low - Drift) * (r - s) = (low - Drift) * r - low * s + Drift * s
      BY <1>1
    <2>5. (a + b) * r = a * r + b * r
      BY <1>1, <1>3
    <2>6. a * r \in Nat /\ b * r \in Nat /\ (low - Drift) * r \in Int
      BY <1>1, <1>3, ProductIsNat
    <2>7. (low - Drift) * r <= (a + b) * r + (r - 1)
      BY <1>1, <1>2, <1>3, <2>1, <2>2, <2>3, <2>4, <2>5, <2>6
    <2>8. low - Drift <= a + b
      BY <1>1, <1>3, <2>7, Cancel
    <2>9. QED
      BY <1>1, <1>3, <1>4, <2>8
  <1>7. QED
    BY <1>5, <1>6

-----------------------------------------------------------------------------
(* The inductive invariant: a pair is listed after the pair its base token needs. *)

PairState == [lastClosingPrice : Nat, emaPrice : Nat, smoothingFactor : Smoothings \union {0},
              disabled : BOOLEAN, priceProvider : Providers, marketPrice : Nat, simulating : BOOLEAN]

ListedInOrder ==
    \A p \in listed : p[1] = commonBaseToken \/ <<commonBaseToken, p[1]>> \in listed

PricesIInv ==
    /\ PricesTypeOK
    /\ ListedInOrder
    /\ EmaFollowsPrices

LEMMA InitPricesIInv == PricesInit => PricesIInv
  BY PairPricesAssumption
  DEF PricesInit, PricesIInv, PricesTypeOK, ListedInOrder, EmaFollowsPrices, Unlisted, Pairs, Providers, ProviderKinds

LEMMA PairStateOf ==
    ASSUME PricesIInv, NEW p \in Pairs
    PROVE  /\ pair[p] \in PairState
           /\ range[p] \in [low : Nat, high : Nat]
           /\ pair[p].smoothingFactor \in Smoothings \union {0}
  BY DEF PricesIInv, PricesTypeOK, PairState

\* A setter that leaves the EMA, its range and the list alone.
LEMMA SetterKeepsIInv ==
    ASSUME PricesIInv, NEW p \in Pairs, NEW data \in PairState,
           data.emaPrice = pair[p].emaPrice,
           pair' = [pair EXCEPT ![p] = data], UNCHANGED <<listed, range>>
    PROVE  PricesIInv'
  <1>1. PricesTypeOK'
    BY DEF PricesIInv, PricesTypeOK, PairState
  <1>2. ListedInOrder'
    BY DEF PricesIInv, ListedInOrder
  <1>3. EmaFollowsPrices'
    <2> SUFFICES ASSUME NEW q \in listed
                 PROVE  pair'[q].emaPrice <= range[q].high /\ range[q].low <= pair'[q].emaPrice + Drift
      BY DEF EmaFollowsPrices
    <2>1. pair'[q].emaPrice = pair[q].emaPrice
      BY DEF PricesIInv, PricesTypeOK
    <2>2. QED
      BY <2>1 DEF PricesIInv, EmaFollowsPrices
  <1>4. QED
    BY <1>1, <1>2, <1>3 DEF PricesIInv

\* A step that gives a pair an EMA and its range.
LEMMA NewEmaKeepsIInv ==
    ASSUME PricesIInv, NEW p \in Pairs, NEW data \in PairState, NEW r \in [low : Nat, high : Nat],
           data.emaPrice <= r.high, r.low <= data.emaPrice + Drift,
           pair' = [pair EXCEPT ![p] = data], range' = [range EXCEPT ![p] = r],
           \/ UNCHANGED listed
           \/ /\ p[1] = commonBaseToken \/ <<commonBaseToken, p[1]>> \in listed
              /\ listed' = listed \union {p}
    PROVE  PricesIInv'
  <1>1. PricesTypeOK'
    BY DEF PricesIInv, PricesTypeOK, PairState
  <1>2. ListedInOrder'
    BY DEF PricesIInv, ListedInOrder
  <1>3. EmaFollowsPrices'
    <2> SUFFICES ASSUME NEW q \in listed'
                 PROVE  pair'[q].emaPrice <= range'[q].high /\ range'[q].low <= pair'[q].emaPrice + Drift
      BY DEF EmaFollowsPrices
    <2>1. CASE q = p
      BY <2>1 DEF PricesIInv, PricesTypeOK
    <2>2. CASE q # p
      BY <2>2 DEF PricesIInv, PricesTypeOK, EmaFollowsPrices
    <2>3. QED
      BY <2>1, <2>2
  <1>4. QED
    BY <1>1, <1>2, <1>3 DEF PricesIInv

-----------------------------------------------------------------------------
(* The setters. *)

LEMMA AddTokenPairKeepsIInv ==
    ASSUME PricesIInv, NEW p \in Pairs, NEW provider \in Providers, NEW price \in Nat,
           addTokenPair(p, provider, price)
    PROVE  PricesIInv'
  <1> DEFINE r == [low |-> price, high |-> price]
  <1>1. NewPair(provider, price) \in PairState /\ NewPair(provider, price).emaPrice = price
    BY PairPricesAssumption DEF NewPair, PairState
  <1>2. r \in [low : Nat, high : Nat] /\ r.low = price /\ r.high = price /\ Drift \in Nat
    BY PairPricesAssumption
  <1>3. NewPair(provider, price).emaPrice <= r.high /\ r.low <= NewPair(provider, price).emaPrice + Drift
    BY <1>1, <1>2
  <1>4. /\ pair' = [pair EXCEPT ![p] = NewPair(provider, price)]
        /\ range' = [range EXCEPT ![p] = r]
        /\ p[1] = commonBaseToken \/ <<commonBaseToken, p[1]>> \in listed
        /\ listed' = listed \union {p}
    BY DEF addTokenPair
  <1> HIDE DEF r
  <1>5. QED
    BY <1>1, <1>2, <1>3, <1>4, NewEmaKeepsIInv

LEMMA DisableKeepsIInv ==
    ASSUME PricesIInv, NEW p \in Pairs, disableTokenPair(p) \/ enableTokenPair(p)
    PROVE  PricesIInv'
  <1>1. PICK b \in BOOLEAN : /\ pair' = [pair EXCEPT ![p] = [pair[p] EXCEPT !.disabled = b]]
                             /\ UNCHANGED <<listed, range>>
    BY DEF disableTokenPair, enableTokenPair
  <1>2. /\ [pair[p] EXCEPT !.disabled = b] \in PairState
        /\ [pair[p] EXCEPT !.disabled = b].emaPrice = pair[p].emaPrice
    BY PairStateOf DEF PairState
  <1>3. QED
    BY <1>1, <1>2, SetterKeepsIInv

LEMMA SmoothingFactorKeepsIInv ==
    ASSUME PricesIInv, NEW p \in Pairs, NEW factor \in Smoothings \union {0}, setTokenPairSmoothingFactor(p, factor)
    PROVE  PricesIInv'
  <1>1. /\ pair' = [pair EXCEPT ![p] = [pair[p] EXCEPT !.smoothingFactor = factor]]
        /\ UNCHANGED <<listed, range>>
    BY DEF setTokenPairSmoothingFactor
  <1>2. /\ [pair[p] EXCEPT !.smoothingFactor = factor] \in PairState
        /\ [pair[p] EXCEPT !.smoothingFactor = factor].emaPrice = pair[p].emaPrice
    BY PairStateOf DEF PairState
  <1>3. QED
    BY <1>1, <1>2, SetterKeepsIInv

LEMMA EmaPriceKeepsIInv ==
    ASSUME PricesIInv, NEW p \in Pairs, NEW price \in Nat, setTokenPairEmaPrice(p, price)
    PROVE  PricesIInv'
  <1> DEFINE r == [low |-> price, high |-> price]
             data == [pair[p] EXCEPT !.emaPrice = price]
  <1>1. pair' = [pair EXCEPT ![p] = data] /\ range' = [range EXCEPT ![p] = r] /\ UNCHANGED listed
    BY DEF setTokenPairEmaPrice
  <1>2. data \in PairState /\ data.emaPrice = price
    BY PairStateOf DEF PairState
  <1>3. r \in [low : Nat, high : Nat] /\ r.low = price /\ r.high = price /\ Drift \in Nat
    BY PairPricesAssumption
  <1> HIDE DEF r, data
  <1>4. data.emaPrice <= r.high /\ r.low <= data.emaPrice + Drift
    BY <1>2, <1>3
  <1>5. QED
    BY <1>1, <1>2, <1>3, <1>4, NewEmaKeepsIInv

LEMMA PriceProviderKeepsIInv ==
    ASSUME PricesIInv, NEW p \in Pairs, NEW provider \in Providers, setPriceProvider(p, provider)
    PROVE  PricesIInv'
  <1>1. /\ pair' = [pair EXCEPT ![p] = [pair[p] EXCEPT !.priceProvider = provider]]
        /\ UNCHANGED <<listed, range>>
    BY DEF setPriceProvider
  <1>2. /\ [pair[p] EXCEPT !.priceProvider = provider] \in PairState
        /\ [pair[p] EXCEPT !.priceProvider = provider].emaPrice = pair[p].emaPrice
    BY PairStateOf DEF PairState
  <1>3. QED
    BY <1>1, <1>2, SetterKeepsIInv

LEMMA LastClosingPriceKeepsIInv ==
    ASSUME PricesIInv, NEW p \in Pairs, NEW price \in Nat, setLastClosingPrice(p, price)
    PROVE  PricesIInv'
  <1>1. /\ pair' = [pair EXCEPT ![p] = [pair[p] EXCEPT !.lastClosingPrice = price]]
        /\ UNCHANGED <<listed, range>>
    BY DEF setLastClosingPrice
  <1>2. /\ [pair[p] EXCEPT !.lastClosingPrice = price] \in PairState
        /\ [pair[p] EXCEPT !.lastClosingPrice = price].emaPrice = pair[p].emaPrice
    BY PairStateOf DEF PairState
  <1>3. QED
    BY <1>1, <1>2, SetterKeepsIInv

-----------------------------------------------------------------------------
(* The ticks. *)

LEMMA PeekIsNat ==
    ASSUME PricesIInv, NEW provider \in Providers, NEW answer \in OracleAnswers
    PROVE  peek(provider, answer).price \in Nat
  <1>1. provider.pair \in Pairs
    BY DEF Providers
  <1>2. fallbackPrice(provider) \in Nat
    BY <1>1, PairStateOf DEF fallbackPrice, PairState
  <1>3. answer \in [price : Nat, valid : BOOLEAN]
    BY PairPricesAssumption
  <1>4. failablePeek(provider, answer).price \in Nat
    BY <1>3 DEF failablePeek
  <1>5. RatePrecision \in Nat
    BY SettlementAssumption
  <1>6. QED
    BY <1>2, <1>4, <1>5 DEF peek

LEMMA OnSimulationStartKeepsIInv ==
    ASSUME PricesIInv, NEW p \in Pairs, NEW answer \in OracleAnswers, onSimulationStart(p, answer)
    PROVE  PricesIInv'
  <1> DEFINE market == peek(pair[p].priceProvider, answer).price
             data == [pair[p] EXCEPT !.marketPrice = market, !.simulating = TRUE]
  <1>1. pair' = [pair EXCEPT ![p] = data] /\ UNCHANGED <<listed, range>>
    BY PairStateOf DEF onSimulationStart, PairState, PricesIInv, PricesTypeOK
  <1>2. market \in Nat
    BY PairStateOf, PeekIsNat DEF PairState
  <1> HIDE DEF market
  <1>3. data \in PairState /\ data.emaPrice = pair[p].emaPrice
    BY <1>2, PairStateOf DEF PairState
  <1>4. QED
    BY <1>1, <1>3, SetterKeepsIInv

LEMMA OnSimulationFinishEmptyKeepsIInv ==
    ASSUME PricesIInv, NEW p \in Pairs, onSimulationFinishEmpty(p)
    PROVE  PricesIInv'
  <1> DEFINE data == [pair[p] EXCEPT !.simulating = FALSE, !.marketPrice = 0]
  <1>1. pair' = [pair EXCEPT ![p] = data] /\ UNCHANGED <<listed, range>>
    BY PairStateOf DEF onSimulationFinishEmpty, PairState, PricesIInv, PricesTypeOK
  <1>2. data \in PairState /\ data.emaPrice = pair[p].emaPrice
    BY PairStateOf DEF PairState
  <1>3. QED
    BY <1>1, <1>2, SetterKeepsIInv

LEMMA OrderPriceIsNat ==
    ASSUME NEW market \in Nat, NEW order \in Orders
    PROVE  getOrderPrice(market, order) \in Nat
  <1>1. order.price \in Nat /\ RatePrecision \in Nat \ {0}
    BY PairPricesAssumption, SettlementAssumption DEF Orders
  <1>2. order.price * market \in Nat
    BY <1>1, ProductIsNat
  <1>3. QED
    BY <1>1, <1>2, DivBounds DEF getOrderPrice, marketOrderSpotPrice

LEMMA OnSimulationFinishKeepsIInv ==
    ASSUME PricesIInv, NEW p \in Pairs, NEW buy \in Orders, NEW sell \in Orders,
           onSimulationFinish(p, buy, sell)
    PROVE  PricesIInv'
  <1> DEFINE emergent == average(getOrderPrice(pair[p].marketPrice, buy), getOrderPrice(pair[p].marketPrice, sell))
             ema == calculateNewEMA(pair[p].emaPrice, emergent, pair[p].smoothingFactor)
             low == IF emergent < range[p].low THEN emergent ELSE range[p].low
             high == IF emergent > range[p].high THEN emergent ELSE range[p].high
             data == [pair[p] EXCEPT !.lastClosingPrice = emergent, !.emaPrice = ema,
                                      !.simulating = FALSE, !.marketPrice = 0]
             r == [range[p] EXCEPT !.low = low, !.high = high]
  <1>1. p \in listed /\ UNCHANGED listed
    BY DEF onSimulationFinish
  <1>2. pair' = [pair EXCEPT ![p] = data] /\ range' = [range EXCEPT ![p] = r]
    BY PairStateOf DEF onSimulationFinish, PairState, PricesIInv, PricesTypeOK
  <1>3. /\ pair[p].emaPrice \in Nat /\ pair[p].marketPrice \in Nat
        /\ range[p].low \in Nat /\ range[p].high \in Nat
        /\ pair[p].smoothingFactor \in Smoothings \union {0}
    BY PairStateOf DEF PairState
  <1>4. pair[p].smoothingFactor \in 0 .. RatePrecision
    <2>1. 0 \in 0 .. RatePrecision
      BY SettlementAssumption
    <2>2. Smoothings \subseteq 0 .. RatePrecision
      BY PairPricesAssumption
    <2>3. QED
      BY <1>3, <2>1, <2>2
  <1>5. pair[p].emaPrice <= range[p].high /\ range[p].low <= pair[p].emaPrice + Drift
    BY <1>1 DEF PricesIInv, EmaFollowsPrices
  <1>6. emergent \in Nat
    BY <1>3, OrderPriceIsNat DEF average
  <1>7. ema \in Nat
    BY <1>3, <1>6, <1>4, NewEMAIsNat
  <1>8. Drift \in Nat
    BY PairPricesAssumption
  <1> HIDE DEF emergent
  <1>9. low \in Nat /\ high \in Nat /\ emergent <= high /\ low <= emergent
        /\ pair[p].emaPrice <= high /\ low <= pair[p].emaPrice + Drift
    BY <1>3, <1>5, <1>6, <1>8
  <1> HIDE DEF low, high
  <1>10. ema <= high
    BY <1>3, <1>6, <1>9, <1>4, NewEMAIsNotAbove
  <1>11. low <= ema + Drift
    BY <1>3, <1>6, <1>9, NewEMAIsNotBelow
  <1> HIDE DEF ema
  <1>12. data \in PairState /\ data.emaPrice = ema
    BY <1>6, <1>7, PairStateOf DEF PairState
  <1>13. r \in [low : Nat, high : Nat] /\ r.low = low /\ r.high = high
    BY <1>9, PairStateOf
  <1> HIDE DEF data, r
  <1>14. QED
    BY <1>1, <1>2, <1>10, <1>11, <1>12, <1>13, NewEmaKeepsIInv

LEMMA TickKeepsIInv ==
    ASSUME PricesIInv, NEW p \in Pairs, Tick(p)
    PROVE  PricesIInv'
  BY OnSimulationStartKeepsIInv, OnSimulationFinishEmptyKeepsIInv, OnSimulationFinishKeepsIInv DEF Tick

LEMMA NextPricesIInv == PricesIInv /\ [PricesNext]_priceVars => PricesIInv'
  <1> SUFFICES ASSUME PricesIInv, [PricesNext]_priceVars PROVE PricesIInv'
    OBVIOUS
  <1>1. Prices \subseteq Nat /\ Prices \union {0} \subseteq Nat
    BY PairPricesAssumption
  <1>2. ASSUME NEW p \in Pairs, Tick(p) PROVE PricesIInv'
    BY <1>2, TickKeepsIInv
  <1>3. CASE Govern
    <2>1. PICK p \in Pairs :
            \/ \E provider \in Providers, price \in Prices : addTokenPair(p, provider, price)
            \/ disableTokenPair(p)
            \/ enableTokenPair(p)
            \/ \E factor \in Smoothings : setTokenPairSmoothingFactor(p, factor)
            \/ \E price \in Prices \union {0} : setTokenPairEmaPrice(p, price)
            \/ \E provider \in Providers : setPriceProvider(p, provider)
            \/ \E price \in Prices : setLastClosingPrice(p, price)
      BY <1>3 DEF Govern
    <2>2. CASE \E provider \in Providers, price \in Prices : addTokenPair(p, provider, price)
      BY <1>1, <2>2, AddTokenPairKeepsIInv
    <2>3. CASE disableTokenPair(p) \/ enableTokenPair(p)
      BY <2>3, DisableKeepsIInv
    <2>4. CASE \E factor \in Smoothings : setTokenPairSmoothingFactor(p, factor)
      BY <2>4, SmoothingFactorKeepsIInv
    <2>5. CASE \E price \in Prices \union {0} : setTokenPairEmaPrice(p, price)
      BY <1>1, <2>5, EmaPriceKeepsIInv
    <2>6. CASE \E provider \in Providers : setPriceProvider(p, provider)
      BY <2>6, PriceProviderKeepsIInv
    <2>7. CASE \E price \in Prices : setLastClosingPrice(p, price)
      BY <1>1, <2>7, LastClosingPriceKeepsIInv
    <2>8. QED
      BY <2>1, <2>2, <2>3, <2>4, <2>5, <2>6, <2>7
  <1>4. CASE UNCHANGED priceVars
    BY <1>4 DEF priceVars, PricesIInv, PricesTypeOK, ListedInOrder, EmaFollowsPrices
  <1>5. QED
    BY <1>2, <1>3, <1>4 DEF PricesNext

-----------------------------------------------------------------------------
(* What follows of the conversions. *)

\* Through one pair or through two.
LEMMA ListedInOrderConverts == PricesIInv => EveryListedPairConverts
  <1> SUFFICES ASSUME PricesIInv, NEW p \in listed
               PROVE  /\ convertTokenToCommonBase(p[1], 1, p[2]) # NoConversion
                      /\ convertTokenToCommonBase(p[2], 1, p[1]) # NoConversion
    BY DEF EveryListedPairConverts
  <1>1. p \in Pairs /\ p = <<p[1], p[2]>> /\ p[1] \in Tokens /\ p[2] \in Tokens
    BY DEF PricesIInv, PricesTypeOK, Pairs
  <1>2. ASSUME NEW q \in Pairs, NEW n \in Nat
        PROVE  convertToBase(n, pair[q].emaPrice) \in Nat
    BY <1>2, PairStateOf, ProductIsNat, DivBounds, SettlementAssumption DEF convertToBase, PairState
  <1>3. \A n \in Nat : n # NoConversion
    BY DEF NoConversion
  <1>4. commonBaseToken \in Tokens
    BY PairPricesAssumption
  <1>5. \A token \in Tokens : <<commonBaseToken, token>> \in Pairs
    BY <1>4 DEF Pairs
  <1>6. convertTokenToCommonBase(p[1], 1, p[2]) # NoConversion
    <2>1. p[1] = commonBaseToken \/ <<commonBaseToken, p[1]>> \in listed
      BY DEF PricesIInv, ListedInOrder
    <2>2. convertToBase(1, pair[<<commonBaseToken, p[1]>>].emaPrice) \in Nat
      BY <1>1, <1>2, <1>5
    <2>3. QED
      BY <1>3, <2>1, <2>2 DEF convertTokenToCommonBase
  <1>7. convertTokenToCommonBase(p[2], 1, p[1]) # NoConversion
    <2>1. p[1] = commonBaseToken \/ <<commonBaseToken, p[1]>> \in listed
      BY DEF PricesIInv, ListedInOrder
    <2>2. <<p[1], p[2]>> \in listed
      BY <1>1
    <2>3. /\ convertToBase(1, pair[<<commonBaseToken, p[2]>>].emaPrice) \in Nat
          /\ convertToBase(1, pair[<<commonBaseToken, p[1]>>].emaPrice) \in Nat
      BY <1>1, <1>2, <1>5
    <2>4. convertToBase(convertToBase(1, pair[<<commonBaseToken, p[1]>>].emaPrice),
                        pair[<<p[1], p[2]>>].emaPrice) \in Nat
      BY <1>1, <1>2, <2>3
    <2>5. QED
      BY <1>3, <2>1, <2>2, <2>3, <2>4 DEF convertTokenToCommonBase
  <1>8. QED
    BY <1>6, <1>7

\* Whatever governance sets and however ticks end, the prices of the pairs are of
\* their types (TokenPairListing, onSimulationFinish).
THEOREM PricesTypeCorrect == PricesSpec => []PricesTypeOK
  <1>1. PricesIInv => PricesTypeOK
    BY DEF PricesIInv
  <1>2. QED
    BY InitPricesIInv, NextPricesIInv, <1>1, PTL DEF PricesSpec

\* An order of any pair that addTokenPair can list is converted by
\* convertTokenToCommonBase, in whatever order pairs are added.
THEOREM PairsConvert == PricesSpec => []EveryListedPairConverts
  BY InitPricesIInv, NextPricesIInv, ListedInOrderConverts, PTL DEF PricesSpec

\* After any number of ticks calculateNewEMA has taken the EMA no further than Drift
\* below the prices it was made of, and never above them.
THEOREM EmaStaysInRange == PricesSpec => []EmaFollowsPrices
  <1>1. PricesIInv => EmaFollowsPrices
    BY DEF PricesIInv
  <1>2. QED
    BY InitPricesIInv, NextPricesIInv, <1>1, PTL DEF PricesSpec

-----------------------------------------------------------------------------
(* What the scripts can ask of the setters. *)

PairContracts ==
    {"TokenPairEnabler", "TokenPairDisabler", "LastClosingPriceChanger", "PriceProviderChanger",
     "SmoothingFactorChanger", "EmaPriceChanger", "AddTokenPairChanger"}

SettingContracts ==
    {"MinBlocksForTickChanger", "MaxBlocksForTickChanger", "ExpectedOrdersForTickChanger",
     "MinOrderAmountChanger", "MaxOrderLifespanChanger", "BeneficiaryAddressChanger",
     "CommissionRateChanger", "CancelationPenaltyRateChanger", "ExpirationPenaltyRateChanger",
     "MinimumCommissionChanger", "MarketOrderSettingsChanger"}

Contracts == PairContracts \union SettingContracts

\* What any changer asks for makes sense for its setter.
IsGood(changer) ==
    /\ changer.contract \in {"PriceProviderChanger", "AddTokenPairChanger"} =>
           /\ changer.provider \in Providers
           /\ changer.provider.kind # "unity" => changer.provider.pair = changer.pair
    /\ changer.contract = "SmoothingFactorChanger" =>
           changer.value \in Smoothings \union {0} \/ changer.value > RatePrecision
    /\ changer.contract \in SettingContracts => changer.pair = NoPair

Changers ==
    {changer \in [contract : Contracts, target : {"dex", "commissionManager"}, pair : Pairs, value : Nat, upTo : Nat,
                  provider : Providers \union {NoProvider}, arguments : Nat] : IsGood(changer)}

-----------------------------------------------------------------------------
(* The changers there can be. *)

LEMMA NoPairIsPair == NoPair \in Pairs
  BY PairPricesAssumption DEF NoPair, Pairs

\* A changer that is not about a provider or a smoothing factor.
LEMMA PlainChangerIsGood ==
    ASSUME NEW contract \in Contracts, NEW target \in {"dex", "commissionManager"}, NEW p \in Pairs,
           NEW n \in Nat, NEW arguments \in Nat,
           contract \notin {"PriceProviderChanger", "AddTokenPairChanger", "SmoothingFactorChanger"},
           contract \in SettingContracts => p = NoPair
    PROVE  Changer(contract, target, p, n, arguments) \in Changers
  BY DEF Changer, Changers, IsGood

LEMMA ProviderChangerIsGood ==
    ASSUME NEW p \in Pairs, NEW provider \in Providers, provider.kind # "unity" => provider.pair = p
    PROVE  deployChangePriceProvider(p, provider) \in Changers
  <1> DEFINE changer == [contract |-> "PriceProviderChanger", target |-> "dex", pair |-> p, value |-> 0,
                         upTo |-> 0, provider |-> provider, arguments |-> 4]
  <1>1. deployChangePriceProvider(p, provider) = changer
    BY DEF deployChangePriceProvider, Changer
  <1>2. IsGood(changer)
    BY DEF IsGood, SettingContracts
  <1>3. changer \in Changers
    BY <1>2 DEF Changers, Contracts, PairContracts
  <1>4. QED
    BY <1>1, <1>3

LEMMA ProvidersOfScripts ==
    ASSUME NEW p \in Pairs
    PROVE  /\ deployPriceProviderLastClosingPrice(p) \in Providers
           /\ deployPriceProviderLastClosingPrice(p).pair = p
           /\ deployPriceProviderFallback(p) \in Providers
           /\ deployPriceProviderFallback(p).pair = p
           /\ deployMocStatePriceProvider(p) \in Providers
           /\ deployMocStatePriceProvider(p).pair = p
           /\ deployUnityPriceProvider \in Providers
           /\ deployUnityPriceProvider.kind = "unity"
  BY NoPairIsPair
  DEF deployPriceProviderLastClosingPrice, deployPriceProviderFallback, deployMocStatePriceProvider,
      deployUnityPriceProvider, Providers, ProviderKinds

\* addPair is the only script whose changer is not good, and it cannot be deployed.
LEMMA JobsAreGood ==
    ASSUME NEW s \in Scripts, CanDeployChanger(s)
    PROVE  Jobs[s].changer \in Changers
  <1> DEFINE w == Jobs[s].network
             n == Jobs[s].changer.value
  <1>1. PICK p \in Pairs : n \in Nat /\ Jobs[s] \in ScriptsOf(w, p, n)
    BY JobsAssumption
  <1> HIDE DEF w, n
  <1>2. CASE Jobs[s] \in {enablePair(w, p), disablePair(w, p), changeLastClosingPrice(w, p, n)}
    BY <1>1, <1>2, PlainChangerIsGood
    DEF Contracts, PairContracts, SettingContracts, enablePair, disablePair, changeLastClosingPrice, Script, deployTokenEnabler, deployTokenDisabler,
        deployLastClosingPriceChanger
  <1>3. CASE Jobs[s] \in {changeBeneficiaryAddress(w, n), changeCancelationPenaltyRate(w, n),
                          changeCommissionRate(w, n), changeExpectedOrdersForTick(w, n),
                          changeExpirationPenaltyRate(w, n)}
    BY <1>1, <1>3, NoPairIsPair, PlainChangerIsGood
    DEF Contracts, PairContracts, SettingContracts, changeBeneficiaryAddress, changeCancelationPenaltyRate, changeCommissionRate,
        changeExpectedOrdersForTick, changeExpirationPenaltyRate, Script, deployBeneficiaryAddressChanger,
        deployCancelationPenaltyRateChanger, deployCommissionRateChanger, deployExpectedOrdersForTickChanger,
        deployExpirationPenaltyRateChanger
  <1>4. CASE Jobs[s] \in {changeMaxBlocksForTick(w, n), changeMaxOrderLifespan(w, n),
                          changeMinBlocksForTick(w, n), changeMinOrderAmount(w, n)}
    BY <1>1, <1>4, NoPairIsPair, PlainChangerIsGood
    DEF Contracts, PairContracts, SettingContracts, changeMaxBlocksForTick, changeMaxOrderLifespan, changeMinBlocksForTick, changeMinOrderAmount, Script,
        deployMaxBlocksForTickChanger, deployMaxOrderLifespanChanger, deployMinBlocksForTickChanger,
        deployMinOrderAmountChanger
  <1>5. CASE Jobs[s] = addPair(w, p, n)
    <2>1. Jobs[s].changer.contract = "AddTokenPairChanger" /\ Jobs[s].changer.arguments = 5
      BY <1>5 DEF addPair, Script, deployAddTokenPairChanger, Changer
    <2>2. Parameters("AddTokenPairChanger") = 6
      BY DEF Parameters
    <2>3. QED
      BY <2>1, <2>2 DEF CanDeployChanger
  <1>6. CASE Jobs[s] \in {changePriceProviderLastClosingPrice(w, p), changePriceProviderFallback(w, p),
                          changePriceProviderMocBproBtc(w, p), changePriceProviderMocBproUsd(w, p),
                          changePriceProviderUnity(w, p)}
    BY <1>6, ProvidersOfScripts, ProviderChangerIsGood
    DEF changePriceProviderLastClosingPrice, changePriceProviderFallback, changePriceProviderMocBproBtc,
        changePriceProviderMocBproUsd, changePriceProviderUnity, ProviderScript, Script
  <1>7. QED
    BY <1>1, <1>2, <1>3, <1>4, <1>5, <1>6 DEF ScriptsOf

LEMMA PreparedIsGood == Prepared \subseteq Changers
  <1> SUFFICES ASSUME NEW changer \in Prepared PROVE changer \in Changers
    OBVIOUS
  <1> DEFINE n == changer.value
  <1>1. PICK p \in Pairs : \/ changer \in {AddTokenPairByHand(p, n), EmaPriceByHand(p, n)}
                           \/ changer \in {MinimumCommissionByHand(n), MarketOrderSettingsByHand(n, changer.upTo)}
                           \/ /\ changer = SmoothingFactorByHand(p, n)
                              /\ n \in Smoothings \union {0} \/ n > RatePrecision
    BY PreparedAssumption
  <1>2. n \in Nat /\ changer.upTo \in Nat
    BY PreparedAssumption
  <1> HIDE DEF n
  <1>3. CASE changer = AddTokenPairByHand(p, n)
    BY <1>2, <1>3, ProvidersOfScripts DEF Contracts, PairContracts, SettingContracts, AddTokenPairByHand, Changer, Changers, IsGood
  <1>4. CASE changer = EmaPriceByHand(p, n)
    BY <1>2, <1>4, PlainChangerIsGood DEF Contracts, PairContracts, SettingContracts, EmaPriceByHand
  <1>5. CASE changer = SmoothingFactorByHand(p, n) /\ (n \in Smoothings \union {0} \/ n > RatePrecision)
    BY <1>2, <1>5 DEF Contracts, PairContracts, SettingContracts, SmoothingFactorByHand, Changer, Changers, IsGood
  <1>6. CASE changer = MinimumCommissionByHand(n)
    BY <1>2, <1>6, NoPairIsPair, PlainChangerIsGood DEF Contracts, PairContracts, SettingContracts, MinimumCommissionByHand
  <1>7. CASE changer = MarketOrderSettingsByHand(n, changer.upTo)
    <2> DEFINE m == changer.upTo
    <2>1. changer = MarketOrderSettingsByHand(n, m) /\ m \in Nat
      BY <1>2, <1>7
    <2> HIDE DEF m
    <2>2. QED
      BY <1>2, <2>1, NoPairIsPair DEF Contracts, PairContracts, SettingContracts, MarketOrderSettingsByHand, Changer, Changers, IsGood
  <1>8. QED
    BY <1>1, <1>3, <1>4, <1>5, <1>6, <1>7

-----------------------------------------------------------------------------
(* What a change may do. *)

\* The setters leave each pair the provider it has or give it the one they are given.
LEMMA ProviderStays ==
    ASSUME PricesIInv, ProviderQuotesItsPair, NEW p \in Pairs, NEW n \in Nat,
           \/ disableTokenPair(p) \/ enableTokenPair(p)
           \/ setTokenPairSmoothingFactor(p, n) \/ setTokenPairEmaPrice(p, n) \/ setLastClosingPrice(p, n)
    PROVE  ProviderQuotesItsPair'
  <1>1. UNCHANGED listed
    BY DEF disableTokenPair, enableTokenPair, setTokenPairSmoothingFactor, setTokenPairEmaPrice, setLastClosingPrice
  <1>2. pair \in [Pairs -> PairState] /\ listed \subseteq Pairs
    BY DEF PricesIInv, PricesTypeOK, PairState
  <1>3. \A q \in Pairs : pair'[q].priceProvider = pair[q].priceProvider
    <2> USE <1>2 DEF PairState
    <2>1. CASE disableTokenPair(p) \/ enableTokenPair(p)
      BY <2>1 DEF disableTokenPair, enableTokenPair
    <2>2. CASE setTokenPairSmoothingFactor(p, n)
      BY <2>2 DEF setTokenPairSmoothingFactor
    <2>3. CASE setTokenPairEmaPrice(p, n)
      BY <2>3 DEF setTokenPairEmaPrice
    <2>4. CASE setLastClosingPrice(p, n)
      BY <2>4 DEF setLastClosingPrice
    <2>5. QED
      BY <2>1, <2>2, <2>3, <2>4
  <1>4. QED
    BY <1>1, <1>2, <1>3 DEF ProviderQuotesItsPair

LEMMA ProviderIsGiven ==
    ASSUME PricesIInv, ProviderQuotesItsPair, NEW p \in Pairs, NEW n \in Nat, NEW provider \in Providers,
           provider.kind # "unity" => provider.pair = p,
           setPriceProvider(p, provider) \/ addTokenPair(p, provider, n)
    PROVE  ProviderQuotesItsPair'
  <1>1. listed' \subseteq listed \union {p} /\ listed \subseteq Pairs
    BY DEF setPriceProvider, addTokenPair, PricesIInv, PricesTypeOK
  <1>2. pair'[p].priceProvider = provider
    BY DEF setPriceProvider, addTokenPair, NewPair, PricesIInv, PricesTypeOK
  <1>3. \A q \in Pairs \ {p} : pair'[q].priceProvider = pair[q].priceProvider
    BY DEF setPriceProvider, addTokenPair, PricesIInv, PricesTypeOK
  <1>4. QED
    BY <1>1, <1>2, <1>3 DEF ProviderQuotesItsPair

LEMMA TickKeepsProviders ==
    ASSUME PricesIInv, ProviderQuotesItsPair, NEW p \in Pairs, Tick(p)
    PROVE  ProviderQuotesItsPair'
  <1>1. pair \in [Pairs -> PairState] /\ listed \subseteq Pairs
    BY DEF PricesIInv, PricesTypeOK, PairState
  <1>2. \/ \E answer \in OracleAnswers : onSimulationStart(p, answer)
        \/ onSimulationFinishEmpty(p)
        \/ \E buy, sell \in Orders : onSimulationFinish(p, buy, sell)
    BY DEF Tick
  <1>3. UNCHANGED listed /\ \A q \in Pairs : pair'[q].priceProvider = pair[q].priceProvider
    <2> USE <1>1 DEF PairState
    <2>1. CASE \E answer \in OracleAnswers : onSimulationStart(p, answer)
      BY <2>1 DEF onSimulationStart
    <2>2. CASE onSimulationFinishEmpty(p)
      BY <2>2 DEF onSimulationFinishEmpty
    <2>3. CASE \E buy, sell \in Orders : onSimulationFinish(p, buy, sell)
      BY <2>3 DEF onSimulationFinish
    <2>4. QED
      BY <1>2, <2>1, <2>2, <2>3
  <1>4. QED
    BY <1>1, <1>3 DEF ProviderQuotesItsPair

\* One setting changes, under the condition its setter requires.
LEMMA SetterKeepsSettings ==
    ASSUME settings \in [Fields -> Nat], SettingsAreSound, NEW n \in Nat,
           \/ setMinBlocksForTick(n) \/ setMaxBlocksForTick(n) \/ setExpectedOrdersForTick(n)
           \/ setMinOrderAmount(n) \/ setMaxOrderLifespan(n) \/ setBeneficiaryAddress(n)
           \/ setCommissionRate(n) \/ setCancelationPenaltyRate(n) \/ setExpirationPenaltyRate(n)
           \/ setMinimumCommission(n) \/ \E m \in Nat : setMultiplyFactors(n, m)
    PROVE  settings' \in [Fields -> Nat] /\ SettingsAreSound' /\ UNCHANGED priceVars
  <1> USE SettlementAssumption DEF Fields, SettingsAreSound, AreSound, set
  <1>1. CASE setMinBlocksForTick(n)
    BY <1>1 DEF setMinBlocksForTick
  <1>2. CASE setMaxBlocksForTick(n)
    BY <1>2 DEF setMaxBlocksForTick
  <1>3. CASE setExpectedOrdersForTick(n)
    BY <1>3 DEF setExpectedOrdersForTick
  <1>4. CASE setMinOrderAmount(n)
    BY <1>4 DEF setMinOrderAmount
  <1>5. CASE setMaxOrderLifespan(n)
    BY <1>5 DEF setMaxOrderLifespan
  <1>6. CASE setBeneficiaryAddress(n)
    BY <1>6 DEF setBeneficiaryAddress
  <1>7. CASE setCommissionRate(n)
    BY <1>7 DEF setCommissionRate
  <1>8. CASE setCancelationPenaltyRate(n)
    BY <1>8 DEF setCancelationPenaltyRate
  <1>9. CASE setExpirationPenaltyRate(n)
    BY <1>9 DEF setExpirationPenaltyRate
  <1>10. CASE setMinimumCommission(n)
    BY <1>10 DEF setMinimumCommission
  <1>11. CASE \E m \in Nat : setMultiplyFactors(n, m)
    BY <1>11 DEF setMultiplyFactors
  <1>12. QED
    BY <1>1, <1>2, <1>3, <1>4, <1>5, <1>6, <1>7, <1>8, <1>9, <1>10, <1>11

Kept == PricesIInv /\ settings \in [Fields -> Nat] /\ SettingsAreSound /\ ProviderQuotesItsPair

LEMMA UnchangedKeeps == Kept /\ UNCHANGED <<priceVars, settings>> => Kept'
  BY DEF Kept, PricesIInv, PricesTypeOK, ListedInOrder, EmaFollowsPrices, priceVars, SettingsAreSound, AreSound,
         ProviderQuotesItsPair

LEMMA ExecuteKeeps ==
    ASSUME Kept, NEW changer \in Changers, Execute(changer)
    PROVE  Kept'
  <1> DEFINE p == changer.pair
             n == changer.value
             provider == changer.provider
  <1>1. p \in Pairs /\ n \in Nat /\ changer.upTo \in Nat /\ IsGood(changer)
    BY DEF Changers
  <1>2. ASSUME UNCHANGED settings PROVE settings' \in [Fields -> Nat] /\ SettingsAreSound'
    BY <1>2 DEF Kept, SettingsAreSound, AreSound
  <1>3. CASE /\ UNCHANGED settings
             /\ disableTokenPair(p) \/ enableTokenPair(p)
    BY <1>1, <1>2, <1>3, DisableKeepsIInv, ProviderStays DEF Kept
  <1>4. CASE UNCHANGED settings /\ setLastClosingPrice(p, n)
    BY <1>1, <1>2, <1>4, LastClosingPriceKeepsIInv, ProviderStays DEF Kept
  <1>5. CASE UNCHANGED settings /\ setTokenPairEmaPrice(p, n)
    BY <1>1, <1>2, <1>5, EmaPriceKeepsIInv, ProviderStays DEF Kept
  <1>6. CASE /\ UNCHANGED settings
             /\ changer.contract = "SmoothingFactorChanger"
             /\ setTokenPairSmoothingFactor(p, n)
    <2>1. n \in Smoothings \union {0}
      BY <1>1, <1>6, SettlementAssumption DEF IsGood, setTokenPairSmoothingFactor
    <2>2. QED
      BY <1>1, <1>2, <1>6, <2>1, SmoothingFactorKeepsIInv, ProviderStays DEF Kept
  <1>7. CASE /\ UNCHANGED settings
             /\ \/ changer.contract = "PriceProviderChanger" /\ setPriceProvider(p, provider)
                \/ changer.contract = "AddTokenPairChanger" /\ addTokenPair(p, provider, n)
    <2>1. provider \in Providers /\ (provider.kind # "unity" => provider.pair = p)
      BY <1>1, <1>7 DEF IsGood
    <2>2. PricesIInv'
      BY <1>1, <1>7, <2>1, PriceProviderKeepsIInv, AddTokenPairKeepsIInv DEF Kept
    <2>3. ProviderQuotesItsPair'
      BY <1>1, <1>7, <2>1, ProviderIsGiven DEF Kept
    <2>4. QED
      BY <1>2, <1>7, <2>2, <2>3 DEF Kept
  <1>8. CASE \/ setMinBlocksForTick(n) \/ setMaxBlocksForTick(n) \/ setExpectedOrdersForTick(n)
             \/ setMinOrderAmount(n) \/ setMaxOrderLifespan(n) \/ setBeneficiaryAddress(n)
             \/ setCommissionRate(n) \/ setCancelationPenaltyRate(n) \/ setExpirationPenaltyRate(n)
             \/ setMinimumCommission(n) \/ setMultiplyFactors(n, changer.upTo)
    <2>1. settings' \in [Fields -> Nat] /\ SettingsAreSound' /\ UNCHANGED priceVars
      BY <1>1, <1>8, SetterKeepsSettings DEF Kept
    <2>2. QED
      BY <2>1 DEF Kept, PricesIInv, PricesTypeOK, ListedInOrder, EmaFollowsPrices, priceVars, ProviderQuotesItsPair
  <1> HIDE DEF p, n, provider
  <1>9. QED
    BY <1>3, <1>4, <1>5, <1>6, <1>7, <1>8 DEF Execute, p, n, provider

-----------------------------------------------------------------------------
(* The steps of the scripts and the ticks. *)

Sent ==
    {change \in [changer : Changers, by : Scripts \union {"hand"}] :
        change.by \in Scripts => change.changer = Jobs[change.by].changer}

Places == {"idle", "provider", "changer", "executing", "mined", "refused", "completed", "failed", "abandoned"}

Effects == {"none", "kept", "replaced"}

\* What the steps of the scripts change besides prices and settings.
ScriptsType ==
    /\ state \in [Scripts -> Places]
    /\ effect \in [Scripts -> Effects]
    /\ asked \in 0 .. MaxSent
    /\ deployed \subseteq Changers
    /\ \A s \in Scripts : state[s] = "changer" => Jobs[s].changer \in deployed
    /\ sent \in Seq(Sent)

LEMMA InitKept == Init => Kept
  <1> SUFFICES ASSUME Init PROVE Kept
    OBVIOUS
  <1>1. PricePrecision \in Nat /\ Drift \in Nat
    BY SettlementAssumption, PairPricesAssumption
  <1>2. \A p \in Pairs : NewPair(deployPriceProviderLastClosingPrice(p), PricePrecision) \in PairState
    BY <1>1, ProvidersOfScripts, PairPricesAssumption DEF NewPair, PairState
  <1>3. Unlisted \in PairState
    BY PairPricesAssumption DEF Unlisted, PairState, Providers, ProviderKinds, Pairs
  <1>4. PricesTypeOK
    <2>1. pair \in [Pairs -> PairState]
      BY <1>2, <1>3 DEF Init, MigratedPairs
    <2>2. listed \subseteq Pairs /\ range \in [Pairs -> [low : Nat, high : Nat]]
      BY <1>1, ChangerScriptsAssumption DEF Init
    <2>3. QED
      BY <2>1, <2>2 DEF PricesTypeOK, PairState
  <1>5. ListedInOrder
    BY ChangerScriptsAssumption DEF Init, ListedInOrder
  <1>6. \A p \in listed : p \in Migrated /\ p \in Pairs
    BY ChangerScriptsAssumption DEF Init
  <1>7. EmaFollowsPrices
    BY <1>1, <1>6 DEF Init, MigratedPairs, NewPair, EmaFollowsPrices
  <1>8. ProviderQuotesItsPair
    BY <1>6, ProvidersOfScripts DEF Init, MigratedPairs, NewPair, ProviderQuotesItsPair
  <1>9. settings \in [Fields -> Nat] /\ SettingsAreSound
    BY ChangerScriptsAssumption DEF Init, SettingsAreSound
  <1>10. QED
    BY <1>4, <1>5, <1>7, <1>8, <1>9 DEF Kept, PricesIInv

LEMMA InitScriptsType == Init => ScriptsType
  BY ChangerScriptsAssumption, PreparedIsGood DEF Init, ScriptsType, Places, Effects, Sent

\* The change that is mined or refused is the first that was sent.
LEMMA AnswerKeepsType ==
    ASSUME ScriptsType, sent # <<>>, NEW outcome \in {"mined", "refused"}, Answer(outcome),
           effect' \in [Scripts -> Effects]
    PROVE  ScriptsType'
  <1>1. Head(sent) \in Sent /\ Tail(sent) \in Seq(Sent)
    BY DEF ScriptsType
  <1>2. /\ state' \in [Scripts -> Places]
        /\ \A s \in Scripts : state'[s] = "changer" => state[s] = "changer"
    BY DEF Answer, ScriptsType, Places
  <1>3. QED
    BY <1>1, <1>2 DEF Answer, ScriptsType

LEMMA ScriptKeepsType ==
    ASSUME ScriptsType, NEW s \in Scripts,
           DeployProvider(s) \/ DeployChanger(s) \/ executeChange(s) \/ Report(s) \/ GiveUp(s)
    PROVE  ScriptsType' /\ UNCHANGED <<priceVars, settings>>
  <1> USE DEF ScriptsType, Places
  <1>1. CASE DeployProvider(s)
    BY <1>1 DEF DeployProvider
  <1>2. CASE DeployChanger(s)
    BY <1>2, JobsAreGood DEF DeployChanger
  <1>3. CASE executeChange(s)
    <2>1. [changer |-> Jobs[s].changer, by |-> s] \in Sent
      BY <1>3 DEF executeChange, Sent
    <2>2. QED
      BY <1>3, <2>1, ChangerScriptsAssumption DEF executeChange
  <1>4. CASE GiveUp(s)
    BY <1>4 DEF GiveUp
  <1>5. CASE Report(s)
    BY <1>5 DEF Report
  <1>6. QED
    BY <1>1, <1>2, <1>3, <1>4, <1>5

\* The record of what became of the changes.
LEMMA MineKeepsEffects ==
    ASSUME ScriptsType, MineChange
    PROVE  effect' \in [Scripts -> Effects]
  BY DEF ScriptsType, MineChange, Effects

ScriptsIInv == Kept /\ ScriptsType

LEMMA NextScriptsIInv == ScriptsIInv /\ [Next]_vars => ScriptsIInv'
  <1> SUFFICES ASSUME Kept, ScriptsType, [Next]_vars PROVE Kept' /\ ScriptsType'
    BY DEF ScriptsIInv
  <1>1. ASSUME NEW s \in Scripts,
               DeployProvider(s) \/ DeployChanger(s) \/ executeChange(s) \/ Report(s) \/ GiveUp(s)
        PROVE  Kept' /\ ScriptsType'
    BY <1>1, ScriptKeepsType, UnchangedKeeps
  <1>2. ASSUME NEW changer \in deployed, ExecuteByHand(changer)
        PROVE  Kept' /\ ScriptsType'
    <2>1. [changer |-> changer, by |-> "hand"] \in Sent
      BY <1>2, ChangerScriptsAssumption DEF Sent, ScriptsType
    <2>2. ScriptsType'
      BY <1>2, <2>1, ChangerScriptsAssumption DEF ExecuteByHand, ScriptsType
    <2>3. UNCHANGED <<priceVars, settings>>
      BY <1>2 DEF ExecuteByHand
    <2>4. QED
      BY <2>2, <2>3, UnchangedKeeps
  <1>3. CASE MineChange
    <2>1. sent # <<>> /\ Execute(Head(sent).changer) /\ Answer("mined")
      BY <1>3 DEF MineChange
    <2>2. Head(sent) \in Sent
      BY <2>1 DEF ScriptsType
    <2>3. Head(sent).changer \in Changers
      BY <2>2 DEF Sent
    <2>4. effect' \in [Scripts -> Effects]
      BY <1>3, MineKeepsEffects
    <2>5. QED
      BY <2>1, <2>3, <2>4, ExecuteKeeps, AnswerKeepsType
  <1>4. CASE RefuseChange
    <2>1. sent # <<>> /\ Answer("refused") /\ UNCHANGED <<priceVars, settings, effect>>
      BY <1>4 DEF RefuseChange
    <2>2. effect' \in [Scripts -> Effects]
      BY <2>1 DEF ScriptsType
    <2>3. QED
      BY <2>1, <2>2, UnchangedKeeps, AnswerKeepsType
  <1>5. ASSUME NEW p \in Pairs, TickBetween(p)
        PROVE  Kept' /\ ScriptsType'
    <2>1. PricesIInv'
      BY <1>5, TickKeepsIInv DEF TickBetween, Kept
    <2>2. ProviderQuotesItsPair'
      BY <1>5, TickKeepsProviders DEF TickBetween, Kept
    <2>3. Kept'
      BY <1>5, <2>1, <2>2 DEF TickBetween, Kept, SettingsAreSound, AreSound
    <2>4. effect' \in [Scripts -> Effects]
      BY <1>5 DEF TickBetween, ScriptsType, Effects
    <2>5. QED
      BY <1>5, <2>3, <2>4 DEF TickBetween, ScriptsType
  <1>6. CASE UNCHANGED vars
    <2>1. UNCHANGED <<priceVars, settings>> /\ ScriptsType'
      BY <1>6 DEF vars, scriptVars, ScriptsType
    <2>2. QED
      BY <2>1, UnchangedKeeps
  <1>7. QED
    BY <1>1, <1>2, <1>3, <1>4, <1>5, <1>6 DEF Next, ScriptStep, Active

LEMMA Inductive == Spec => []ScriptsIInv
  <1>1. Init => ScriptsIInv
    BY InitKept, InitScriptsType DEF ScriptsIInv
  <1>2. QED
    BY <1>1, NextScriptsIInv, PTL DEF Spec

-----------------------------------------------------------------------------

\* The variables of the scripts and of the prices keep their types.
THEOREM ScriptsTypeCorrect == Spec => []TypeOK
  <1>1. ScriptsIInv => TypeOK
    BY DEF ScriptsIInv, Kept, PricesIInv, ScriptsType, Places, Effects, TypeOK
  <1>2. QED
    BY <1>1, Inductive, PTL

\* No order of scripts, repetitions and abandoned transactions gives the exchange
\* settings with which a tick or a penalty fails (ConfigurableTick, CommissionManager).
THEOREM SettingsStaySound == Spec => []SettingsAreSound
  <1>1. ScriptsIInv => SettingsAreSound
    BY DEF ScriptsIInv, Kept
  <1>2. QED
    BY <1>1, Inductive, PTL

\* The provider of each pair was deployed for it (changePriceProvider*.js).
THEOREM ProvidersQuoteTheirPairs == Spec => []ProviderQuotesItsPair
  <1>1. ScriptsIInv => ProviderQuotesItsPair
    BY DEF ScriptsIInv, Kept
  <1>2. QED
    BY <1>1, Inductive, PTL

\* With the provider of its own pair, a pair falls back on its own closing price:
\* it has a price unless that is 0 or the oracle vouches for 0 (PriceProviderFallback).
THEOREM PairsHaveAPrice == Spec => []AlwaysHasAPrice
  <1>1. ScriptsIInv => AlwaysHasAPrice
    <2> SUFFICES ASSUME ScriptsIInv, NEW p \in listed, NEW answer \in OracleAnswers,
                        pair[p].lastClosingPrice # 0,
                        ~(pair[p].priceProvider.kind = "external" /\ answer = [price |-> 0, valid |-> TRUE])
                 PROVE  peek(pair[p].priceProvider, answer).has
      BY DEF AlwaysHasAPrice
    <2> DEFINE provider == pair[p].priceProvider
    <2>1. answer \in [price : Nat, valid : BOOLEAN]
      BY PairPricesAssumption
    <2>2. provider.kind \in ProviderKinds
      BY DEF ScriptsIInv, Kept, PricesIInv, PricesTypeOK, Providers
    <2>3. provider.kind # "unity" => fallbackPrice(provider) # 0
      BY DEF ScriptsIInv, Kept, ProviderQuotesItsPair, fallbackPrice
    <2> HIDE DEF provider
    <2>4. CASE provider.kind \in {"unity", "lastClosing"}
      BY <2>4 DEF peek, provider
    <2>5. CASE provider.kind = "mocState"
      BY <2>1, <2>3, <2>5 DEF peek, failablePeek, provider
    <2>6. CASE provider.kind = "external"
      BY <2>1, <2>3, <2>6 DEF peek, failablePeek, provider
    <2>7. QED
      BY <2>2, <2>4, <2>5, <2>6 DEF ProviderKinds
  <1>2. QED
    BY <1>1, Inductive, PTL

\* Orders of every pair that governance adds can be converted (TokenPairConverter).
THEOREM GovernedPairsConvert == Spec => []EveryListedPairConverts
  <1>1. ScriptsIInv => EveryListedPairConverts
    BY ListedInOrderConverts DEF ScriptsIInv, Kept
  <1>2. QED
    BY <1>1, Inductive, PTL

\* The EMA of every pair stays between the prices it was made of, or Drift below them.
THEOREM GovernedEmaFollows == Spec => []EmaFollowsPrices
  <1>1. ScriptsIInv => EmaFollowsPrices
    BY DEF ScriptsIInv, Kept, PricesIInv
  <1>2. QED
    BY <1>1, Inductive, PTL

-----------------------------------------------------------------------------
(* What becomes of a change that was mined. *)

LEMMA ExecutedIsInForce ==
    ASSUME Kept, NEW changer \in Changers, Execute(changer)
    PROVE  InForce(changer)'
  <1> DEFINE p == changer.pair
             n == changer.value
  <1>1. p \in Pairs /\ changer.contract \in Contracts
    BY DEF Changers
  <1>2. pair \in [Pairs -> PairState] /\ settings \in [Fields -> Nat]
    BY DEF Kept, PricesIInv, PricesTypeOK, PairState
  <1>3. CASE changer.contract \in {"TokenPairEnabler", "TokenPairDisabler"}
    BY <1>1, <1>2, <1>3 DEF Execute, InForce, enableTokenPair, disableTokenPair, PairState
  <1>4. CASE changer.contract = "LastClosingPriceChanger"
    BY <1>1, <1>2, <1>4 DEF Execute, InForce, setLastClosingPrice, PairState
  <1>5. CASE changer.contract = "PriceProviderChanger"
    BY <1>1, <1>2, <1>5 DEF Execute, InForce, setPriceProvider, PairState
  <1>6. CASE changer.contract = "SmoothingFactorChanger"
    BY <1>1, <1>2, <1>6 DEF Execute, InForce, setTokenPairSmoothingFactor, PairState
  <1>7. CASE changer.contract = "EmaPriceChanger"
    BY <1>1, <1>2, <1>7 DEF Execute, InForce, setTokenPairEmaPrice, PairState
  <1>8. CASE changer.contract = "AddTokenPairChanger"
    BY <1>1, <1>2, <1>8 DEF Execute, InForce, addTokenPair, PairState
  <1>9. CASE changer.contract \in {"MinBlocksForTickChanger", "MaxBlocksForTickChanger",
                                   "ExpectedOrdersForTickChanger"}
    BY <1>1, <1>2, <1>9
    DEF Execute, InForce, FieldOf, Fields, set, setMinBlocksForTick, setMaxBlocksForTick, setExpectedOrdersForTick
  <1>10. CASE changer.contract \in {"MinOrderAmountChanger", "MaxOrderLifespanChanger",
                                    "BeneficiaryAddressChanger"}
    BY <1>1, <1>2, <1>10
    DEF Execute, InForce, FieldOf, Fields, set, setMinOrderAmount, setMaxOrderLifespan, setBeneficiaryAddress
  <1>11. CASE changer.contract \in {"CommissionRateChanger", "CancelationPenaltyRateChanger",
                                    "ExpirationPenaltyRateChanger"}
    BY <1>1, <1>2, <1>11
    DEF Execute, InForce, FieldOf, Fields, set, setCommissionRate, setCancelationPenaltyRate,
        setExpirationPenaltyRate
  <1>12. CASE changer.contract = "MinimumCommissionChanger"
    BY <1>1, <1>2, <1>12 DEF Execute, InForce, FieldOf, Fields, set, setMinimumCommission
  <1>13. CASE changer.contract = "MarketOrderSettingsChanger"
    <2>1. setMultiplyFactors(changer.value, changer.upTo)
      BY <1>13 DEF Execute
    <2>2. /\ settings'["minMultiplyFactor"] = changer.value
          /\ settings'["maxMultiplyFactor"] = changer.upTo
      BY <1>2, <2>1 DEF setMultiplyFactors, Fields
    <2>3. QED
      BY <1>13, <2>2 DEF InForce
  <1>14. QED
    BY <1>1, <1>3, <1>4, <1>5, <1>6, <1>7, <1>8, <1>9, <1>10, <1>11, <1>12, <1>13
    DEF Contracts, PairContracts, SettingContracts

\* A change is in force, of a pair that is listed if it is about a pair.
Stands(changer) ==
    /\ changer \in Changers
    /\ InForce(changer)
    /\ changer.contract \in PairContracts => changer.pair \in listed

LEMMA ExecutedStands ==
    ASSUME Kept, NEW changer \in Changers, Execute(changer)
    PROVE  Stands(changer)'
  <1>1. InForce(changer)'
    BY ExecutedIsInForce
  <1>2. CASE changer.contract \in PairContracts
    <2>1. changer.pair \in listed'
      BY <1>2
      DEF PairContracts, Execute, enableTokenPair, disableTokenPair, setLastClosingPrice, setPriceProvider,
          setTokenPairSmoothingFactor, setTokenPairEmaPrice, addTokenPair
    <2>2. QED
      BY <1>1, <2>1 DEF Stands
  <1>3. CASE changer.contract \notin PairContracts
    BY <1>1, <1>3 DEF Stands
  <1>4. QED
    BY <1>2, <1>3

-----------------------------------------------------------------------------
(* Changes about different things do not touch each other. *)

\* Of a listed pair, a change touches what it is about.
TouchesItsOwn(d, p) ==
    LET Other(contracts) == d.pair # p \/ d.contract \notin contracts
    IN  /\ Other({"TokenPairEnabler", "TokenPairDisabler"}) => pair'[p].disabled = pair[p].disabled
        /\ Other({"LastClosingPriceChanger"}) => pair'[p].lastClosingPrice = pair[p].lastClosingPrice
        /\ Other({"PriceProviderChanger"}) => pair'[p].priceProvider = pair[p].priceProvider
        /\ Other({"SmoothingFactorChanger"}) => pair'[p].smoothingFactor = pair[p].smoothingFactor
        /\ Other({"EmaPriceChanger"}) => pair'[p].emaPrice = pair[p].emaPrice

LEMMA PairSetterTouchesItsOwn ==
    ASSUME Kept, NEW d \in Changers, d.contract \in PairContracts, Execute(d), NEW p \in listed
    PROVE  TouchesItsOwn(d, p) /\ p \in listed' /\ UNCHANGED settings
  <1> DEFINE q == d.pair
             n == d.value
  <1>1. pair \in [Pairs -> PairState] /\ p \in Pairs /\ q \in Pairs
    BY DEF Kept, PricesIInv, PricesTypeOK, PairState, Changers
  <1> USE DEF TouchesItsOwn
  <1>2. CASE d.contract \in {"TokenPairEnabler", "TokenPairDisabler"}
    <2>1. \E b \in BOOLEAN : pair' = [pair EXCEPT ![q] = [pair[q] EXCEPT !.disabled = b]]
      BY <1>2 DEF Execute, enableTokenPair, disableTokenPair
    <2>2. UNCHANGED <<listed, settings>>
      BY <1>2 DEF Execute, enableTokenPair, disableTokenPair
    <2>3. QED
      BY <1>1, <1>2, <2>1, <2>2 DEF PairState
  <1>3. CASE d.contract = "LastClosingPriceChanger"
    <2>1. /\ pair' = [pair EXCEPT ![q] = [pair[q] EXCEPT !.lastClosingPrice = n]]
          /\ UNCHANGED <<listed, settings>>
      BY <1>3 DEF Execute, setLastClosingPrice
    <2>2. QED
      BY <1>1, <1>3, <2>1 DEF PairState
  <1>4. CASE d.contract = "PriceProviderChanger"
    <2>1. /\ pair' = [pair EXCEPT ![q] = [pair[q] EXCEPT !.priceProvider = d.provider]]
          /\ UNCHANGED <<listed, settings>>
      BY <1>4 DEF Execute, setPriceProvider
    <2>2. QED
      BY <1>1, <1>4, <2>1 DEF PairState
  <1>5. CASE d.contract = "SmoothingFactorChanger"
    <2>1. /\ pair' = [pair EXCEPT ![q] = [pair[q] EXCEPT !.smoothingFactor = n]]
          /\ UNCHANGED <<listed, settings>>
      BY <1>5 DEF Execute, setTokenPairSmoothingFactor
    <2>2. QED
      BY <1>1, <1>5, <2>1 DEF PairState
  <1>6. CASE d.contract = "EmaPriceChanger"
    <2>1. /\ pair' = [pair EXCEPT ![q] = [pair[q] EXCEPT !.emaPrice = n]]
          /\ UNCHANGED <<listed, settings>>
      BY <1>6 DEF Execute, setTokenPairEmaPrice
    <2>2. QED
      BY <1>1, <1>6, <2>1 DEF PairState
  <1>7. CASE d.contract = "AddTokenPairChanger"
    <2>1. /\ q \notin listed
          /\ listed' = listed \union {q}
          /\ pair' = [pair EXCEPT ![q] = NewPair(d.provider, n)]
          /\ UNCHANGED settings
      BY <1>7 DEF Execute, addTokenPair
    <2>2. p # q
      BY <2>1
    <2>3. pair'[p] = pair[p]
      BY <1>1, <2>1, <2>2
    <2>4. QED
      BY <2>1, <2>3
  <1>8. QED
    BY <1>2, <1>3, <1>4, <1>5, <1>6, <1>7 DEF PairContracts

\* The settings a change is about.
FieldsOf(contract) ==
    IF contract = "MarketOrderSettingsChanger" THEN {"minMultiplyFactor", "maxMultiplyFactor"}
    ELSE {FieldOf[contract]}

LEMMA FieldsAreTheirOwn ==
    ASSUME NEW c \in SettingContracts, NEW d \in SettingContracts, c # d
    PROVE  FieldsOf(c) \subseteq Fields \ FieldsOf(d)
  <1> USE DEF FieldsOf, FieldOf, Fields, SettingContracts
  <1>1. CASE c = "MarketOrderSettingsChanger"
    BY <1>1
  <1>2. CASE c \in {"MinBlocksForTickChanger", "MaxBlocksForTickChanger", "ExpectedOrdersForTickChanger"}
    BY <1>2
  <1>3. CASE c \in {"MinOrderAmountChanger", "MaxOrderLifespanChanger", "BeneficiaryAddressChanger"}
    BY <1>3
  <1>4. CASE c \in {"CommissionRateChanger", "CancelationPenaltyRateChanger", "ExpirationPenaltyRateChanger",
                    "MinimumCommissionChanger"}
    BY <1>4
  <1>5. QED
    BY <1>1, <1>2, <1>3, <1>4

LEMMA SettingSetterTouchesItsOwn ==
    ASSUME Kept, NEW d \in Changers, d.contract \in SettingContracts, Execute(d),
           NEW f \in Fields, f \notin FieldsOf(d.contract)
    PROVE  settings'[f] = settings[f] /\ UNCHANGED priceVars
  <1>1. settings \in [Fields -> Nat]
    BY DEF Kept
  <1> USE DEF FieldsOf, FieldOf, Execute, set
  <1>2. CASE d.contract = "MarketOrderSettingsChanger"
    <2>1. setMultiplyFactors(d.value, d.upTo)
      BY <1>2
    <2>2. QED
      BY <1>1, <1>2, <2>1 DEF setMultiplyFactors
  <1>3. CASE d.contract = "MinBlocksForTickChanger"
    BY <1>1, <1>3 DEF setMinBlocksForTick
  <1>4. CASE d.contract = "MaxBlocksForTickChanger"
    BY <1>1, <1>4 DEF setMaxBlocksForTick
  <1>5. CASE d.contract = "ExpectedOrdersForTickChanger"
    BY <1>1, <1>5 DEF setExpectedOrdersForTick
  <1>6. CASE d.contract = "MinOrderAmountChanger"
    BY <1>1, <1>6 DEF setMinOrderAmount
  <1>7. CASE d.contract = "MaxOrderLifespanChanger"
    BY <1>1, <1>7 DEF setMaxOrderLifespan
  <1>8. CASE d.contract = "BeneficiaryAddressChanger"
    BY <1>1, <1>8 DEF setBeneficiaryAddress
  <1>9. CASE d.contract = "CommissionRateChanger"
    BY <1>1, <1>9 DEF setCommissionRate
  <1>10. CASE d.contract = "CancelationPenaltyRateChanger"
    BY <1>1, <1>10 DEF setCancelationPenaltyRate
  <1>11. CASE d.contract = "ExpirationPenaltyRateChanger"
    BY <1>1, <1>11 DEF setExpirationPenaltyRate
  <1>12. CASE d.contract = "MinimumCommissionChanger"
    BY <1>1, <1>12 DEF setMinimumCommission
  <1>13. QED
    BY <1>2, <1>3, <1>4, <1>5, <1>6, <1>7, <1>8, <1>9, <1>10, <1>11, <1>12 DEF SettingContracts

\* What a change about a pair has set stays while nothing touches it.
LEMMA PairChangeStands ==
    ASSUME NEW c, Stands(c), c.contract \in PairContracts, c.pair \in listed',
           c.contract \in {"TokenPairEnabler", "TokenPairDisabler"} =>
               pair'[c.pair].disabled = pair[c.pair].disabled,
           c.contract = "LastClosingPriceChanger" =>
               pair'[c.pair].lastClosingPrice = pair[c.pair].lastClosingPrice,
           c.contract = "PriceProviderChanger" => pair'[c.pair].priceProvider = pair[c.pair].priceProvider,
           c.contract = "SmoothingFactorChanger" =>
               pair'[c.pair].smoothingFactor = pair[c.pair].smoothingFactor,
           c.contract = "EmaPriceChanger" => pair'[c.pair].emaPrice = pair[c.pair].emaPrice
    PROVE  Stands(c)'
  <1>1. c \in Changers /\ InForce(c)
    BY DEF Stands
  <1>2. InForce(c)'
    <2>1. CASE c.contract = "TokenPairEnabler"
      BY <1>1, <2>1 DEF InForce
    <2>2. CASE c.contract = "TokenPairDisabler"
      BY <1>1, <2>2 DEF InForce
    <2>3. CASE c.contract = "LastClosingPriceChanger"
      BY <1>1, <2>3 DEF InForce
    <2>4. CASE c.contract = "PriceProviderChanger"
      BY <1>1, <2>4 DEF InForce
    <2>5. CASE c.contract = "SmoothingFactorChanger"
      BY <1>1, <2>5 DEF InForce
    <2>6. CASE c.contract = "EmaPriceChanger"
      BY <1>1, <2>6 DEF InForce
    <2>7. CASE c.contract = "AddTokenPairChanger"
      BY <1>1, <2>7 DEF InForce
    <2>8. QED
      BY <2>1, <2>2, <2>3, <2>4, <2>5, <2>6, <2>7 DEF PairContracts
  <1>3. QED
    BY <1>1, <1>2 DEF Stands

LEMMA SettingChangeStands ==
    ASSUME NEW c, Stands(c), c.contract \in SettingContracts,
           \A f \in FieldsOf(c.contract) : settings'[f] = settings[f]
    PROVE  Stands(c)'
  <1>1. c \in Changers /\ InForce(c) /\ c.contract \notin PairContracts
    BY DEF Stands, SettingContracts, PairContracts
  <1>2. InForce(c)'
    <2>1. CASE c.contract = "MarketOrderSettingsChanger"
      BY <1>1, <2>1 DEF InForce, FieldsOf
    <2>2. CASE c.contract # "MarketOrderSettingsChanger"
      <3> DEFINE f == FieldOf[c.contract]
      <3>1. settings'[f] = settings[f]
        BY <2>2 DEF FieldsOf
      <3>2. settings[f] = c.value
        BY <1>1, <2>2 DEF InForce, PairContracts, SettingContracts
      <3> HIDE DEF f
      <3>3. settings'[f] = c.value
        BY <3>1, <3>2
      <3>4. QED
        BY <1>1, <2>2, <3>3 DEF InForce, PairContracts, SettingContracts, f
    <2>3. QED
      BY <2>1, <2>2
  <1>3. QED
    BY <1>1, <1>2 DEF Stands

LEMMA OtherChangeStands ==
    ASSUME Kept, NEW c, Stands(c), NEW d \in Changers, Execute(d), Concerns(c) # Concerns(d)
    PROVE  Stands(c)'
  <1>1. c \in Changers /\ c.contract \in Contracts /\ d.contract \in Contracts /\ IsGood(c) /\ IsGood(d)
    BY DEF Stands, Changers
  <1>2. CASE c.contract \in PairContracts
    <2>1. c.pair \in listed
      BY <1>2 DEF Stands
    <2>2. CASE d.contract \in PairContracts
      <3>1. TouchesItsOwn(d, c.pair) /\ c.pair \in listed'
        BY <2>1, <2>2, PairSetterTouchesItsOwn
      <3>2. d.pair # c.pair \/ d.contract # c.contract
        BY DEF Concerns
      <3>3. \/ d.pair # c.pair
            \/ c.contract \notin {"TokenPairEnabler", "TokenPairDisabler"}
            \/ d.contract \notin {"TokenPairEnabler", "TokenPairDisabler"}
        BY DEF Concerns
      <3>4. QED
        BY <1>2, <3>1, <3>2, <3>3, PairChangeStands DEF TouchesItsOwn
    <2>3. CASE d.contract \in SettingContracts
      <3>1. UNCHANGED priceVars
        <4>1. \E f \in Fields : f \notin FieldsOf(d.contract)
          BY <2>3 DEF Fields, FieldsOf, FieldOf, SettingContracts
        <4>2. QED
          BY <2>3, <4>1, SettingSetterTouchesItsOwn
      <3>2. QED
        BY <1>2, <2>1, <3>1, PairChangeStands DEF priceVars
    <2>4. QED
      BY <1>1, <2>2, <2>3 DEF Contracts
  <1>3. CASE c.contract \in SettingContracts
    <2>1. CASE d.contract \in PairContracts
      <3>1. UNCHANGED settings
        BY <2>1
        DEF Execute, PairContracts
      <3>2. QED
        BY <1>3, <3>1, SettingChangeStands
    <2>2. CASE d.contract \in SettingContracts
      <3>1. c.pair = d.pair
        BY <1>1, <1>3, <2>2 DEF IsGood
      <3>2. c.contract # d.contract
        BY <3>1 DEF Concerns
      <3>3. \A f \in FieldsOf(c.contract) : f \in Fields /\ f \notin FieldsOf(d.contract)
        BY <1>3, <2>2, <3>2, FieldsAreTheirOwn
      <3>4. \A f \in FieldsOf(c.contract) : settings'[f] = settings[f]
        BY <2>2, <3>3, SettingSetterTouchesItsOwn
      <3>5. QED
        BY <1>3, <3>4, SettingChangeStands
    <2>3. QED
      BY <1>1, <2>1, <2>2 DEF Contracts
  <1>4. QED
    BY <1>1, <1>2, <1>3 DEF Contracts

\* A tick sets no setting, and of what scripts set only the closing price.
LEMMA TickStands ==
    ASSUME Kept, NEW c, Stands(c), NEW p \in Pairs, Tick(p), UNCHANGED settings, ~ClosesAnew(c),
           c.contract # "EmaPriceChanger"
    PROVE  Stands(c)'
  <1>1. c \in Changers /\ c.contract \in Contracts
    BY DEF Stands, Changers
  <1>2. CASE c.contract \in SettingContracts
    BY <1>2, SettingChangeStands
  <1>3. CASE c.contract \in PairContracts
    <2>1. pair \in [Pairs -> PairState] /\ c.pair \in listed /\ c.pair \in Pairs
      BY <1>3 DEF Stands, Changers, Kept, PricesIInv, PricesTypeOK, PairState
    <2>2. \/ \E answer \in OracleAnswers : onSimulationStart(p, answer)
          \/ onSimulationFinishEmpty(p)
          \/ \E buy, sell \in Orders : onSimulationFinish(p, buy, sell)
      BY DEF Tick
    <2>3. /\ UNCHANGED listed
          /\ \A q \in Pairs : /\ pair'[q].disabled = pair[q].disabled
                              /\ pair'[q].priceProvider = pair[q].priceProvider
                              /\ pair'[q].smoothingFactor = pair[q].smoothingFactor
      <3> USE <2>1 DEF PairState
      <3>1. CASE \E answer \in OracleAnswers : onSimulationStart(p, answer)
        BY <3>1 DEF onSimulationStart
      <3>2. CASE onSimulationFinishEmpty(p)
        BY <3>2 DEF onSimulationFinishEmpty
      <3>3. CASE \E buy, sell \in Orders : onSimulationFinish(p, buy, sell)
        BY <3>3 DEF onSimulationFinish
      <3>4. QED
        BY <2>2, <3>1, <3>2, <3>3
    <2>4. c.contract = "LastClosingPriceChanger" =>
              pair'[c.pair].lastClosingPrice = pair[c.pair].lastClosingPrice
      BY DEF ClosesAnew
    <2>5. QED
      BY <1>3, <2>1, <2>3, <2>4, PairChangeStands
  <1>4. QED
    BY <1>1, <1>2, <1>3 DEF Contracts

LEMMA UnchangedStands ==
    ASSUME NEW c, Stands(c), UNCHANGED <<priceVars, settings>>
    PROVE  Stands(c)'
  <1>1. c.contract \in Contracts
    BY DEF Stands, Changers
  <1>2. CASE c.contract \in PairContracts
    BY <1>2, PairChangeStands DEF Stands, priceVars
  <1>3. CASE c.contract \in SettingContracts
    BY <1>3, SettingChangeStands
  <1>4. QED
    BY <1>1, <1>2, <1>3 DEF Contracts

\* No script sets the EMA.
LEMMA JobsAreNotAboutEma ==
    ASSUME NEW s \in Scripts
    PROVE  Jobs[s].changer.contract # "EmaPriceChanger"
  <1> DEFINE w == Jobs[s].network
             n == Jobs[s].changer.value
  <1>1. PICK p \in Pairs : Jobs[s] \in ScriptsOf(w, p, n)
    BY JobsAssumption
  <1> HIDE DEF w, n
  <1> USE DEF Script, Changer
  <1>2. CASE Jobs[s] \in {enablePair(w, p), disablePair(w, p), changeLastClosingPrice(w, p, n), addPair(w, p, n)}
    BY <1>2
    DEF enablePair, disablePair, changeLastClosingPrice, addPair, deployTokenEnabler, deployTokenDisabler,
        deployLastClosingPriceChanger, deployAddTokenPairChanger
  <1>3. CASE Jobs[s] \in {changeBeneficiaryAddress(w, n), changeCancelationPenaltyRate(w, n),
                          changeCommissionRate(w, n), changeExpectedOrdersForTick(w, n),
                          changeExpirationPenaltyRate(w, n)}
    BY <1>3
    DEF changeBeneficiaryAddress, changeCancelationPenaltyRate, changeCommissionRate,
        changeExpectedOrdersForTick, changeExpirationPenaltyRate, deployBeneficiaryAddressChanger,
        deployCancelationPenaltyRateChanger, deployCommissionRateChanger, deployExpectedOrdersForTickChanger,
        deployExpirationPenaltyRateChanger
  <1>4. CASE Jobs[s] \in {changeMaxBlocksForTick(w, n), changeMaxOrderLifespan(w, n),
                          changeMinBlocksForTick(w, n), changeMinOrderAmount(w, n)}
    BY <1>4
    DEF changeMaxBlocksForTick, changeMaxOrderLifespan, changeMinBlocksForTick, changeMinOrderAmount,
        deployMaxBlocksForTickChanger, deployMaxOrderLifespanChanger, deployMinBlocksForTickChanger,
        deployMinOrderAmountChanger
  <1>5. CASE Jobs[s] \in {changePriceProviderLastClosingPrice(w, p), changePriceProviderFallback(w, p),
                          changePriceProviderMocBproBtc(w, p), changePriceProviderMocBproUsd(w, p),
                          changePriceProviderUnity(w, p)}
    BY <1>5
    DEF changePriceProviderLastClosingPrice, changePriceProviderFallback, changePriceProviderMocBproBtc,
        changePriceProviderMocBproUsd, changePriceProviderUnity, ProviderScript, deployChangePriceProvider
  <1>6. QED
    BY <1>1, <1>2, <1>3, <1>4, <1>5 DEF ScriptsOf
-----------------------------------------------------------------------------
(* What scripts report. *)

\* A script waits for one change of its own at most, unless it has given up.
Awaited ==
    /\ \A i \in 1 .. Len(sent) : sent[i].by \in Scripts => state[sent[i].by] \in {"executing", "abandoned"}
    /\ \A i, j \in 1 .. Len(sent) : sent[i].by \in Scripts /\ sent[i].by = sent[j].by => i = j

\* A change has had its effect when and only when its script can hear of it.
Recorded ==
    \A s \in Scripts :
        /\ state[s] \notin {"mined", "completed", "abandoned"} => effect[s] = "none"
        /\ state[s] \in {"mined", "completed"} => effect[s] # "none"

KeptStand == \A s \in Scripts : effect[s] = "kept" => Stands(Jobs[s].changer)

ReportsIInv == Awaited /\ Recorded /\ KeptStand

LEMMA InitReports == Init => ReportsIInv
  BY DEF Init, ReportsIInv, Awaited, Recorded, KeptStand

\* The first change leaves the queue, where its script had no other.
LEMMA AnswerKeepsAwaited ==
    ASSUME ScriptsType, Awaited, sent # <<>>, NEW outcome \in {"mined", "refused"}, Answer(outcome)
    PROVE  Awaited'
  <1>1. /\ sent \in Seq(Sent) /\ sent' = Tail(sent)
        /\ state \in [Scripts -> Places]
    BY DEF ScriptsType, Answer
  <1>2. /\ Len(sent) \in Nat /\ Len(sent) > 0 /\ Head(sent) = sent[1]
        /\ Len(sent') = Len(sent) - 1
        /\ \A i \in 1 .. Len(sent') : sent'[i] = sent[i + 1]
    BY <1>1
  <1>3. ASSUME NEW i \in 1 .. Len(sent'), sent'[i].by \in Scripts
        PROVE  state'[sent'[i].by] \in {"executing", "abandoned"}
    <2>1. i + 1 \in 1 .. Len(sent) /\ 1 \in 1 .. Len(sent) /\ sent'[i] = sent[i + 1] /\ i + 1 # 1
      BY <1>2, <1>3
    <2>2. state[sent[i + 1].by] \in {"executing", "abandoned"}
      BY <1>3, <2>1 DEF Awaited
    <2>3. sent[i + 1].by # Head(sent).by
      BY <1>2, <1>3, <2>1 DEF Awaited
    <2>4. state'[sent[i + 1].by] = state[sent[i + 1].by]
      BY <1>1, <1>3, <2>1, <2>3 DEF Answer
    <2>5. QED
      BY <2>1, <2>2, <2>4
  <1>4. ASSUME NEW i \in 1 .. Len(sent'), NEW j \in 1 .. Len(sent'),
               sent'[i].by \in Scripts, sent'[i].by = sent'[j].by
        PROVE  i = j
    <2>1. /\ i + 1 \in 1 .. Len(sent) /\ j + 1 \in 1 .. Len(sent)
          /\ sent'[i] = sent[i + 1] /\ sent'[j] = sent[j + 1]
      BY <1>2, <1>4
    <2>2. i + 1 = j + 1
      BY <1>4, <2>1 DEF Awaited
    <2>3. QED
      BY <2>2
  <1>5. QED
    BY <1>3, <1>4 DEF Awaited

LEMMA AppendKeepsAwaited ==
    ASSUME ScriptsType, Awaited, NEW change \in Sent, sent' = Append(sent, change),
           change.by \in Scripts => /\ state[change.by] \notin {"executing", "abandoned"}
                                    /\ state'[change.by] \in {"executing", "abandoned"},
           \A s \in Scripts \ {change.by} : state'[s] = state[s]
    PROVE  Awaited'
  <1>1. /\ sent \in Seq(Sent) /\ Len(sent) \in Nat /\ Len(sent') = Len(sent) + 1
        /\ \A i \in 1 .. Len(sent) : sent'[i] = sent[i]
        /\ sent'[Len(sent) + 1] = change
    BY DEF ScriptsType
  <1>2. \A i \in 1 .. Len(sent) : change.by \in Scripts => sent[i].by # change.by
    BY DEF Awaited
  <1>3. ASSUME NEW i \in 1 .. Len(sent'), sent'[i].by \in Scripts
        PROVE  state'[sent'[i].by] \in {"executing", "abandoned"}
    <2>1. CASE i = Len(sent) + 1
      BY <1>1, <1>3, <2>1
    <2>2. CASE i \in 1 .. Len(sent)
      <3>1. sent'[i] = sent[i] /\ sent[i].by # change.by
        BY <1>1, <1>2, <1>3, <2>2
      <3>2. state[sent[i].by] \in {"executing", "abandoned"}
        BY <1>3, <2>2, <3>1 DEF Awaited
      <3>3. QED
        BY <1>3, <3>1, <3>2
    <2>3. QED
      BY <1>1, <2>1, <2>2
  <1>4. ASSUME NEW i \in 1 .. Len(sent'), NEW j \in 1 .. Len(sent'),
               sent'[i].by \in Scripts, sent'[i].by = sent'[j].by
        PROVE  i = j
    <2>1. CASE i \in 1 .. Len(sent) /\ j \in 1 .. Len(sent)
      BY <1>1, <1>4, <2>1 DEF Awaited
    <2>2. CASE i = Len(sent) + 1 /\ j \in 1 .. Len(sent)
      BY <1>1, <1>2, <1>4, <2>2
    <2>3. CASE i \in 1 .. Len(sent) /\ j = Len(sent) + 1
      BY <1>1, <1>2, <1>4, <2>3
    <2>4. QED
      BY <1>1, <2>1, <2>2, <2>3
  <1>5. QED
    BY <1>3, <1>4 DEF Awaited

\* A step of the script alone.
LEMMA ScriptKeepsReports ==
    ASSUME ScriptsIInv, ReportsIInv, NEW s \in Scripts,
           DeployProvider(s) \/ DeployChanger(s) \/ executeChange(s) \/ Report(s) \/ GiveUp(s)
    PROVE  ReportsIInv'
  <1>1. state \in [Scripts -> Places] /\ ScriptsType
    BY DEF ScriptsIInv, ScriptsType
  <1>2. UNCHANGED <<effect, priceVars, settings>>
    BY DEF DeployProvider, DeployChanger, executeChange, Report, GiveUp
  <1>3. KeptStand'
    <2>1. ASSUME NEW r \in Scripts, effect'[r] = "kept" PROVE Stands(Jobs[r].changer)'
      <3>1. Stands(Jobs[r].changer)
        BY <1>2, <2>1 DEF ReportsIInv, KeptStand
      <3>2. QED
        BY <1>2, <3>1, UnchangedStands
    <2>2. QED
      BY <2>1 DEF KeptStand
  <1>4. Awaited'
    <2>1. CASE executeChange(s)
      <3> DEFINE change == [changer |-> Jobs[s].changer, by |-> s]
      <3>1. Jobs[s].changer \in Changers
        BY <2>1 DEF executeChange, ScriptsIInv, ScriptsType
      <3>2. change \in Sent
        BY <3>1 DEF Sent
      <3>3. sent' = Append(sent, change) /\ change.by = s
        BY <2>1 DEF executeChange
      <3>4. state[s] = "changer" /\ state'[s] = "executing" /\ \A r \in Scripts \ {s} : state'[r] = state[r]
        BY <1>1, <2>1 DEF executeChange
      <3> HIDE DEF change
      <3>5. QED
        BY <1>1, <3>2, <3>3, <3>4, AppendKeepsAwaited DEF ReportsIInv
    <2>2. CASE DeployProvider(s) \/ DeployChanger(s) \/ Report(s) \/ GiveUp(s)
      <3>1. UNCHANGED sent
        BY <2>2 DEF DeployProvider, DeployChanger, Report, GiveUp
      <3>2. \A r \in Scripts : state[r] \in {"executing", "abandoned"} => state'[r] \in {"executing", "abandoned"}
        BY <1>1, <2>2 DEF DeployProvider, DeployChanger, Report, GiveUp
      <3>3. QED
        BY <3>1, <3>2 DEF ReportsIInv, Awaited
    <2>3. QED
      BY <2>1, <2>2
  <1>5. Recorded'
    <2>1. \A r \in Scripts \ {s} : state'[r] = state[r]
      BY <1>1 DEF DeployProvider, DeployChanger, executeChange, Report, GiveUp
    <2>2. /\ state'[s] \notin {"mined", "completed", "abandoned"} =>
                 state[s] \notin {"mined", "completed", "abandoned"}
          /\ state'[s] \in {"mined", "completed"} => state[s] \in {"mined", "completed"}
      <3>1. CASE DeployProvider(s)
        BY <1>1, <3>1 DEF DeployProvider
      <3>2. CASE DeployChanger(s)
        BY <1>1, <3>2 DEF DeployChanger
      <3>3. CASE executeChange(s)
        BY <1>1, <3>3 DEF executeChange
      <3>4. CASE Report(s)
        BY <1>1, <3>4 DEF Report
      <3>5. CASE GiveUp(s)
        BY <1>1, <3>5 DEF GiveUp
      <3>6. QED
        BY <3>1, <3>2, <3>3, <3>4, <3>5
    <2>3. ASSUME NEW r \in Scripts
          PROVE  /\ state'[r] \notin {"mined", "completed", "abandoned"} => effect'[r] = "none"
                 /\ state'[r] \in {"mined", "completed"} => effect'[r] # "none"
      BY <1>2, <2>1, <2>2 DEF ReportsIInv, Recorded
    <2>4. QED
      BY <2>3 DEF Recorded
  <1>6. QED
    BY <1>3, <1>4, <1>5 DEF ReportsIInv

LEMMA MineKeepsReports ==
    ASSUME ScriptsIInv, ReportsIInv, MineChange
    PROVE  ReportsIInv'
  <1>0. PICK d, by : d = Head(sent).changer /\ by = Head(sent).by
    OBVIOUS
  <1>1. sent # <<>> /\ Execute(d) /\ Answer("mined") /\ sent \in Seq(Sent) /\ Kept /\ ScriptsType
    BY <1>0 DEF MineChange, ScriptsIInv, ScriptsType
  <1>2. Head(sent) \in Sent /\ Head(sent) = sent[1] /\ 1 \in 1 .. Len(sent)
    BY <1>1
  <1>3. d \in Changers /\ by \in Scripts \union {"hand"} /\ (by \in Scripts => d = Jobs[by].changer)
    BY <1>0, <1>2 DEF Sent
  <1>4. by \in Scripts => state[by] \in {"executing", "abandoned"}
    BY <1>0, <1>2 DEF ReportsIInv, Awaited
  <1>5. /\ effect \in [Scripts -> Effects] /\ state \in [Scripts -> Places]
        /\ effect' \in [Scripts -> Effects]
    BY MineKeepsEffects DEF ScriptsIInv, ScriptsType
  <1>6. ASSUME NEW s \in Scripts, s # by
        PROVE  /\ state'[s] = state[s]
               /\ (effect'[s] = "none") <=> (effect[s] = "none")
               /\ effect'[s] = "kept" => /\ effect[s] = "kept"
                                         /\ Concerns(Jobs[s].changer) # Concerns(d)
    BY <1>0, <1>1, <1>5, <1>6 DEF MineChange, Answer
  <1>7. ASSUME by \in Scripts
        PROVE  /\ effect'[by] = "kept"
               /\ state'[by] \in {"mined", "abandoned"}
    BY <1>0, <1>1, <1>4, <1>5, <1>7 DEF MineChange, Answer
  <1>8. Awaited'
    BY <1>1, AnswerKeepsAwaited DEF ReportsIInv
  <1>9. Recorded'
    <2>1. ASSUME NEW s \in Scripts
          PROVE  /\ state'[s] \notin {"mined", "completed", "abandoned"} => effect'[s] = "none"
                 /\ state'[s] \in {"mined", "completed"} => effect'[s] # "none"
      <3>1. CASE s = by
        BY <1>7, <3>1
      <3>2. CASE s # by
        BY <1>6, <3>2 DEF ReportsIInv, Recorded
      <3>3. QED
        BY <3>1, <3>2
    <2>2. QED
      BY <2>1 DEF Recorded
  <1>10. KeptStand'
    <2>1. ASSUME NEW s \in Scripts, effect'[s] = "kept" PROVE Stands(Jobs[s].changer)'
      <3>1. CASE s = by
        <4>1. Stands(d)'
          BY <1>1, <1>3, ExecutedStands
        <4>2. QED
          BY <1>3, <3>1, <4>1
      <3>2. CASE s # by
        <4>1. Stands(Jobs[s].changer) /\ Concerns(Jobs[s].changer) # Concerns(d)
          BY <1>6, <2>1, <3>2 DEF ReportsIInv, KeptStand
        <4>2. QED
          BY <1>1, <1>3, <4>1, OtherChangeStands
      <3>3. QED
        BY <3>1, <3>2
    <2>2. QED
      BY <2>1 DEF KeptStand
  <1>11. QED
    BY <1>8, <1>9, <1>10 DEF ReportsIInv

LEMMA RefuseKeepsReports ==
    ASSUME ScriptsIInv, ReportsIInv, RefuseChange
    PROVE  ReportsIInv'
  <1>1. /\ sent # <<>> /\ Answer("refused") /\ UNCHANGED <<priceVars, settings, effect>>
        /\ state \in [Scripts -> Places] /\ ScriptsType
    BY DEF RefuseChange, ScriptsIInv, ScriptsType
  <1>2. Awaited'
    BY <1>1, AnswerKeepsAwaited DEF ReportsIInv
  <1>3. Recorded'
    <2>1. ASSUME NEW s \in Scripts
          PROVE  /\ state'[s] \notin {"mined", "completed", "abandoned"} => effect'[s] = "none"
                 /\ state'[s] \in {"mined", "completed"} => effect'[s] # "none"
      <3>1. state'[s] = state[s] \/ (state[s] = "executing" /\ state'[s] = "refused")
        <4>1. PICK by : by = Head(sent).by
          OBVIOUS
        <4>2. CASE by \in Scripts /\ state[by] = "executing"
          <5>1. state' = [state EXCEPT ![by] = "refused"]
            BY <1>1, <4>1, <4>2 DEF Answer
          <5>2. QED
            BY <1>1, <4>2, <5>1
        <4>3. CASE ~(by \in Scripts /\ state[by] = "executing")
          BY <1>1, <4>1, <4>3 DEF Answer
        <4>4. QED
          BY <4>2, <4>3
      <3>2. effect'[s] = effect[s] /\ (state[s] = "executing" => effect[s] = "none")
        BY <1>1 DEF ReportsIInv, Recorded
      <3>3. CASE state'[s] = state[s]
        BY <3>2, <3>3 DEF ReportsIInv, Recorded
      <3>4. CASE state[s] = "executing" /\ state'[s] = "refused"
        BY <3>2, <3>4
      <3>5. QED
        BY <3>1, <3>3, <3>4
    <2>2. QED
      BY <2>1 DEF Recorded
  <1>4. KeptStand'
    <2>1. ASSUME NEW r \in Scripts, effect'[r] = "kept" PROVE Stands(Jobs[r].changer)'
      <3>1. Stands(Jobs[r].changer)
        BY <1>1, <2>1 DEF ReportsIInv, KeptStand
      <3>2. QED
        BY <1>1, <3>1, UnchangedStands
    <2>2. QED
      BY <2>1 DEF KeptStand
  <1>5. QED
    BY <1>2, <1>3, <1>4 DEF ReportsIInv

LEMMA TickKeepsReports ==
    ASSUME ScriptsIInv, ReportsIInv, NEW p \in Pairs, TickBetween(p)
    PROVE  ReportsIInv'
  <1>1. /\ Tick(p) /\ UNCHANGED <<settings, state, sent>>
        /\ effect \in [Scripts -> Effects] /\ Kept
    BY DEF TickBetween, ScriptsIInv, ScriptsType
  <1>2. ASSUME NEW s \in Scripts
        PROVE  /\ (effect'[s] = "none") <=> (effect[s] = "none")
               /\ effect'[s] = "kept" => effect[s] = "kept" /\ ~ClosesAnew(Jobs[s].changer)
    BY <1>1 DEF TickBetween
  <1>3. Awaited'
    BY <1>1 DEF ReportsIInv, Awaited
  <1>4. Recorded'
    BY <1>1, <1>2 DEF ReportsIInv, Recorded
  <1>5. KeptStand'
    <2>1. ASSUME NEW r \in Scripts, effect'[r] = "kept" PROVE Stands(Jobs[r].changer)'
      <3>1. Stands(Jobs[r].changer) /\ ~ClosesAnew(Jobs[r].changer)
        BY <1>2, <2>1 DEF ReportsIInv, KeptStand
      <3>2. QED
        BY <1>1, <3>1, TickStands, JobsAreNotAboutEma
    <2>2. QED
      BY <2>1 DEF KeptStand
  <1>6. QED
    BY <1>3, <1>4, <1>5 DEF ReportsIInv

LEMMA NextReports == ScriptsIInv /\ ReportsIInv /\ [Next]_vars => ReportsIInv'
  <1> SUFFICES ASSUME ScriptsIInv, ReportsIInv, [Next]_vars PROVE ReportsIInv'
    OBVIOUS
  <1>1. ASSUME NEW s \in Scripts,
               DeployProvider(s) \/ DeployChanger(s) \/ executeChange(s) \/ Report(s) \/ GiveUp(s)
        PROVE  ReportsIInv'
    BY <1>1, ScriptKeepsReports
  <1>2. ASSUME UNCHANGED <<priceVars, settings, state, effect>>, Awaited'
        PROVE  ReportsIInv'
    <2>1. ASSUME NEW r \in Scripts, effect'[r] = "kept" PROVE Stands(Jobs[r].changer)'
      <3>1. Stands(Jobs[r].changer)
        BY <1>2, <2>1 DEF ReportsIInv, KeptStand
      <3>2. QED
        BY <1>2, <3>1, UnchangedStands
    <2>2. KeptStand'
      BY <2>1 DEF KeptStand
    <2>3. Recorded'
      BY <1>2 DEF ReportsIInv, Recorded
    <2>4. QED
      BY <1>2, <2>2, <2>3 DEF ReportsIInv
  <1>3. ASSUME NEW changer \in deployed, ExecuteByHand(changer)
        PROVE  ReportsIInv'
    <2> DEFINE change == [changer |-> changer, by |-> "hand"]
    <2>1. /\ change \in Sent /\ change.by \notin Scripts
      BY ChangerScriptsAssumption DEF Sent, ScriptsIInv, ScriptsType
    <2>2. sent' = Append(sent, change) /\ UNCHANGED <<priceVars, settings, state, effect>>
      BY <1>3 DEF ExecuteByHand
    <2> HIDE DEF change
    <2>3. Awaited'
      BY <2>1, <2>2, AppendKeepsAwaited DEF ReportsIInv, ScriptsIInv
    <2>4. QED
      BY <1>2, <2>2, <2>3
  <1>4. ASSUME MineChange \/ RefuseChange \/ \E p \in Pairs : TickBetween(p)
        PROVE  ReportsIInv'
    BY <1>4, MineKeepsReports, RefuseKeepsReports, TickKeepsReports
  <1>5. CASE UNCHANGED vars
    <2>1. Awaited' /\ UNCHANGED <<priceVars, settings, state, effect>>
      BY <1>5 DEF vars, scriptVars, ReportsIInv, Awaited
    <2>2. QED
      BY <1>2, <2>1
  <1>6. QED
    BY <1>1, <1>3, <1>4, <1>5 DEF Next, ScriptStep, Active

\* Between the receipt of a change and the report of its script, any other scripts,
\* repeated changes and ticks run: a script that says "Completed" (executeChange,
\* awaited by every script) has had its own change, which nothing but a change of the
\* same thing or another closing price has undone; one whose change was refused has
\* changed nothing.
THEOREM ReportsStayTrue == Spec => []ReportsAreTrue
  <1>1. Init => ScriptsIInv /\ ReportsIInv
    BY InitKept, InitScriptsType, InitReports DEF ScriptsIInv
  <1>2. ScriptsIInv /\ ReportsIInv /\ [Next]_vars => (ScriptsIInv /\ ReportsIInv)'
    BY NextScriptsIInv, NextReports
  <1>3. ReportsIInv => ReportsAreTrue
    BY DEF ReportsIInv, Recorded, KeptStand, Stands, ReportsAreTrue
  <1>4. QED
    BY <1>1, <1>2, <1>3, PTL DEF Spec
=============================================================================
