----------------------------- MODULE PairPrices -----------------------------
(***************************************************************************)
(* The pairs the exchange lists and their prices: TokenPairListing,        *)
(* TokenPairConverter, the price providers, and what a tick does to the    *)
(* closing price and to the EMA (onSimulationStart, onSimulationFinish).   *)
(* A pair is <<base token, secondary token>>.                              *)
(*                                                                         *)
(* Here governance may call every setter at any time; ChangerScripts is    *)
(* about the changes that its scripts can bring about.                     *)
(***************************************************************************)
EXTENDS Settlement, Integers

CONSTANTS
    Tokens,
    commonBaseToken,    \* the token every amount can be converted to
    Prices,             \* prices of limit orders, and prices governance sets
    Factors,            \* multiply factors of market orders
    Smoothings,         \* smoothing factors of the EMA, relative to RatePrecision
    SMOOTHING_FACTOR,   \* the one a pair is added with
    OracleAnswers,      \* what the sources of prices outside the exchange may say
    Drift               \* how far roundings may take an EMA below its prices

ASSUME PairPricesAssumption ==
    /\ commonBaseToken \in Tokens
    /\ Prices \subseteq Nat \ {0}
    /\ Factors \subseteq Nat
    /\ Smoothings \subseteq 0 .. RatePrecision
    /\ SMOOTHING_FACTOR \in Smoothings
    /\ OracleAnswers \subseteq [price : Nat, valid : BOOLEAN]
    /\ Drift \in Nat
    /\ \A s \in Smoothings : s = 0 \/ Drift * s >= RatePrecision - 1

Pairs == Tokens \X Tokens

ProviderKinds == {"unity", "lastClosing", "external", "mocState"}

\* A price provider: its contract, and the pair it was deployed for, which a
\* UnityPriceProvider does not know.
Providers == [kind : ProviderKinds, pair : Pairs]

VARIABLES
    listed,    \* tokenPairAddresses
    pair,      \* MoCExchangeLib.Pair, as far as prices are concerned
    range      \* history: the prices each EMA was made of

priceVars == <<listed, pair, range>>

Unlisted ==
    [lastClosingPrice |-> 0, emaPrice |-> 0, smoothingFactor |-> 0, disabled |-> FALSE,
     priceProvider |-> [kind |-> "unity", pair |-> <<commonBaseToken, commonBaseToken>>],
     marketPrice |-> 0, simulating |-> FALSE]

PricesInit ==
    /\ listed = {}
    /\ pair = [p \in Pairs |-> Unlisted]
    /\ range = [p \in Pairs |-> [low |-> 0, high |-> 0]]

-----------------------------------------------------------------------------
(* Listing. *)

NewPair(provider, initialPrice) ==
    [lastClosingPrice |-> initialPrice, emaPrice |-> initialPrice, smoothingFactor |-> SMOOTHING_FACTOR,
     disabled |-> FALSE, priceProvider |-> provider, marketPrice |-> 0, simulating |-> FALSE]

\* MUTANT of addTokenPair: any base token will do.
addAnyTokenPair(p, provider, initialPrice) ==
    /\ p \notin listed /\ <<p[2], p[1]>> \notin listed
    /\ p[1] # p[2]
    /\ initialPrice > 0
    /\ listed' = listed \union {p}
    /\ pair' = [pair EXCEPT ![p] = NewPair(provider, initialPrice)]
    /\ range' = [range EXCEPT ![p] = [low |-> initialPrice, high |-> initialPrice]]

\* The base is the common token or is listed against it; neither the pair nor its
\* inverse is listed.  The price precision, which the code does not require to be
\* above 0, is the one of all pairs.
addTokenPair(p, provider, initialPrice) ==
    /\ p[1] = commonBaseToken \/ <<commonBaseToken, p[1]>> \in listed
    /\ p \notin listed /\ <<p[2], p[1]>> \notin listed
    /\ p[1] # p[2]
    /\ initialPrice > 0
    /\ listed' = listed \union {p}
    /\ pair' = [pair EXCEPT ![p] = NewPair(provider, initialPrice)]
    /\ range' = [range EXCEPT ![p] = [low |-> initialPrice, high |-> initialPrice]]

\* whenTickIsNotRunning: what follows the simulation is part of its last action below.
disableTokenPair(p) ==
    /\ p \in listed
    /\ ~pair[p].simulating
    /\ ~pair[p].disabled
    /\ pair' = [pair EXCEPT ![p].disabled = TRUE]
    /\ UNCHANGED <<listed, range>>

enableTokenPair(p) ==
    /\ p \in listed
    /\ ~pair[p].simulating
    /\ pair[p].disabled
    /\ pair' = [pair EXCEPT ![p].disabled = FALSE]
    /\ UNCHANGED <<listed, range>>

setTokenPairSmoothingFactor(p, factor) ==
    /\ p \in listed
    /\ factor <= RatePrecision
    /\ pair' = [pair EXCEPT ![p].smoothingFactor = factor]
    /\ UNCHANGED <<listed, range>>

\* The EMA starts again from the given price.
setTokenPairEmaPrice(p, price) ==
    /\ p \in listed
    /\ pair' = [pair EXCEPT ![p].emaPrice = price]
    /\ range' = [range EXCEPT ![p] = [low |-> price, high |-> price]]
    /\ UNCHANGED listed

setPriceProvider(p, provider) ==
    /\ p \in listed
    /\ pair' = [pair EXCEPT ![p].priceProvider = provider]
    /\ UNCHANGED <<listed, range>>

setLastClosingPrice(p, price) ==
    /\ price > 0
    /\ p \in listed
    /\ pair' = [pair EXCEPT ![p].lastClosingPrice = price]
    /\ UNCHANGED <<listed, range>>

-----------------------------------------------------------------------------
(* Conversion. *)

\* ~uint256(0)
NoConversion == -1

\* The amount of a token in the common token: through the pair of both, or through
\* baseToken, the other token of the pair the order is for.
convertTokenToCommonBase(token, amount, baseToken) ==
    LET Direct(base, secondary, n) == convertToBase(n, pair[<<base, secondary>>].emaPrice)
    IN  IF token = commonBaseToken THEN amount
        ELSE IF <<commonBaseToken, token>> \in listed THEN Direct(commonBaseToken, token, amount)
        ELSE IF <<commonBaseToken, baseToken>> \in listed /\ <<baseToken, token>> \in listed
             THEN Direct(baseToken, token, Direct(commonBaseToken, baseToken, amount))
        ELSE NoConversion

-----------------------------------------------------------------------------
(* Price providers. *)

\* getLastClosingPrice, 0 for a pair that is not listed.
fallbackPrice(provider) == pair[provider.pair].lastClosingPrice

\* The external oracle decides itself whether its answer is valid; the providers of
\* MocState take an answer of 0 for none.
failablePeek(provider, answer) ==
    IF provider.kind = "mocState" THEN [answer EXCEPT !.valid = @ /\ answer.price # 0] ELSE answer

\* MUTANT of peek: answers as the oracle does.
peekOracle(provider, answer) ==
    LET asked == failablePeek(provider, answer)
        price == IF asked.valid THEN asked.price ELSE fallbackPrice(provider)
    IN  CASE provider.kind = "unity"       -> [price |-> RatePrecision, has |-> TRUE]
          [] provider.kind = "lastClosing" -> [price |-> fallbackPrice(provider), has |-> TRUE]
          [] OTHER                         -> [price |-> price, has |-> asked.valid]

peek(provider, answer) ==
    LET asked == failablePeek(provider, answer)
        price == IF asked.valid THEN asked.price ELSE fallbackPrice(provider)
    IN  CASE provider.kind = "unity"       -> [price |-> RatePrecision, has |-> TRUE]
          [] provider.kind = "lastClosing" -> [price |-> fallbackPrice(provider), has |-> TRUE]
          [] OTHER                         -> [price |-> price, has |-> price # 0]

-----------------------------------------------------------------------------
(* Ticks. *)

\* MUTANT of calculateNewEMA: weighs the old value with the whole.
calculateHeavyEMA(oldEMA, newValue, smoothing) ==
    (oldEMA * RatePrecision) \div RatePrecision + (newValue * smoothing) \div RatePrecision

\* Both products are rounded down.
calculateNewEMA(oldEMA, newValue, smoothing) ==
    (oldEMA * (RatePrecision - smoothing)) \div RatePrecision + (newValue * smoothing) \div RatePrecision

Orders ==
    [orderType : {"LIMIT_ORDER"}, price : Prices] \union [orderType : {"MARKET_ORDER"}, price : Factors]

\* The market price is asked for once; the whole tick uses the answer.
onSimulationStart(p, answer) ==
    /\ p \in listed
    /\ ~pair[p].simulating
    /\ peek(pair[p].priceProvider, answer).has
    /\ pair' = [pair EXCEPT ![p].marketPrice = peek(pair[p].priceProvider, answer).price,
                            ![p].simulating = TRUE]
    /\ UNCHANGED <<listed, range>>

\* What follows the simulation in a tick reads and sets no price, and ends with the
\* page memory deleted: it is part of the two actions below.

\* No orders match.
onSimulationFinishEmpty(p) ==
    /\ p \in listed
    /\ pair[p].simulating
    /\ pair' = [pair EXCEPT ![p].simulating = FALSE, ![p].marketPrice = 0]
    /\ UNCHANGED <<listed, range>>

\* The emergent price is the mean of the prices of the last two orders that match.
onSimulationFinish(p, buy, sell) ==
    LET buyPrice  == getOrderPrice(pair[p].marketPrice, buy)
        sellPrice == getOrderPrice(pair[p].marketPrice, sell)
        emergent  == average(buyPrice, sellPrice)
    IN  /\ p \in listed
        /\ pair[p].simulating
        /\ buyPrice >= sellPrice
        /\ pair' = [pair EXCEPT
               ![p].lastClosingPrice = emergent,
               ![p].emaPrice = calculateNewEMA(@, emergent, pair[p].smoothingFactor),
               ![p].simulating = FALSE,
               ![p].marketPrice = 0]
        /\ range' = [range EXCEPT
               ![p].low = IF emergent < @ THEN emergent ELSE @,
               ![p].high = IF emergent > @ THEN emergent ELSE @]
        /\ UNCHANGED listed

Tick(p) ==
    \/ \E answer \in OracleAnswers : onSimulationStart(p, answer)
    \/ onSimulationFinishEmpty(p)
    \/ \E buy, sell \in Orders : onSimulationFinish(p, buy, sell)

Govern ==
    \E p \in Pairs :
        \/ \E provider \in Providers, price \in Prices : addTokenPair(p, provider, price)
        \/ disableTokenPair(p)
        \/ enableTokenPair(p)
        \/ \E factor \in Smoothings : setTokenPairSmoothingFactor(p, factor)
        \/ \E price \in Prices \union {0} : setTokenPairEmaPrice(p, price)
        \/ \E provider \in Providers : setPriceProvider(p, provider)
        \/ \E price \in Prices : setLastClosingPrice(p, price)

PricesNext == (\E p \in Pairs : Tick(p)) \/ Govern

PricesSpec == PricesInit /\ [][PricesNext]_priceVars

-----------------------------------------------------------------------------

PricesTypeOK ==
    /\ listed \subseteq Pairs
    /\ pair \in [Pairs -> [lastClosingPrice : Nat, emaPrice : Nat, smoothingFactor : Smoothings \union {0},
                           disabled : BOOLEAN, priceProvider : Providers, marketPrice : Nat,
                           simulating : BOOLEAN]]
    /\ range \in [Pairs -> [low : Nat, high : Nat]]

\* An order of any listed pair can be converted to the common token, whichever of
\* the two tokens it locks, through one or two EMAs: otherwise its minimum amount
\* and its fee would be computed from the largest number there is.
EveryListedPairConverts ==
    \A p \in listed :
        /\ convertTokenToCommonBase(p[1], 1, p[2]) # NoConversion
        /\ convertTokenToCommonBase(p[2], 1, p[1]) # NoConversion

\* After any number of ticks the EMA, through which fees and minimum amounts are
\* converted, is between the prices it was made of, but for the roundings of its
\* two weights: these only lower it, and never by more than Drift in all, however
\* many ticks there are.
EmaFollowsPrices ==
    \A p \in listed :
        /\ pair[p].emaPrice <= range[p].high
        /\ range[p].low <= pair[p].emaPrice + Drift
=============================================================================
