-------------------------- MODULE MCChangerScripts --------------------------
(***************************************************************************)
(* ChangerScripts with scripts of every kind, one that the contracts       *)
(* refuse where they can, and the changers that are deployed by hand.  A   *)
(* behaviour has MaxEvents ticks and changes in all: one change between    *)
(* two ticks, two beside one, or ticks alone, of the pair most scripts are *)
(* about.                                                                  *)
(***************************************************************************)
EXTENDS ChangerScripts

CONSTANTS
    doc, wrbtc, bpro,
    MaxEvents    \* bound of the ticks that are started and the changes that are sent, together

VARIABLES
    family,    \* what a behaviour is about: settings and pairs share no state
    ticks      \* how many ticks were started, for their bound

docWrbtc == <<doc, wrbtc>>
wrbtcBpro == <<wrbtc, bpro>>
docBpro == <<doc, bpro>>
bproDoc == <<bpro, doc>>

MCMigrated == {docWrbtc, wrbtcBpro}

\* bproDoc is refused: nothing converts bpro to doc before docBpro, its inverse.
MCPrepared ==
    {AddTokenPairByHand(docBpro, 3), AddTokenPairByHand(bproDoc, 3),
     EmaPriceByHand(docWrbtc, 0), SmoothingFactorByHand(docWrbtc, 0),
     MinimumCommissionByHand(0), MarketOrderSettingsByHand(2, 1)}
MCOracleAnswers == {[price |-> 2, valid |-> TRUE], [price |-> 0, valid |-> TRUE], [price |-> 0, valid |-> FALSE]}

MCJobs == [
    enable       |-> enablePair("development", docWrbtc),
    disable      |-> disablePair("development", docWrbtc),
    beneficiary  |-> changeBeneficiaryAddress("development", 2),
    nobody       |-> changeBeneficiaryAddress("development", 0),
    tooMuch      |-> changeCommissionRate("development", RatePrecision + 1),
    tooFew       |-> changeExpectedOrdersForTick("development", 1),
    cancelation  |-> changeCancelationPenaltyRate("development", RatePrecision),
    commission   |-> changeCommissionRate("development", 0),
    expected     |-> changeExpectedOrdersForTick("development", 3),
    expiration   |-> changeExpirationPenaltyRate("development", RatePrecision),
    maxBlocks    |-> changeMaxBlocksForTick("development", 1),
    minBlocks    |-> changeMinBlocksForTick("development", 2),
    lifespan     |-> changeMaxOrderLifespan("development", 0),
    minAmount    |-> changeMinOrderAmount("development", 0),
    closing      |-> changeLastClosingPrice("development", docWrbtc, 3),
    add          |-> addPair("development", docBpro, 1),
    fallback     |-> changePriceProviderFallback("development", docWrbtc),
    usd          |-> changePriceProviderMocBproUsd("development", docWrbtc),
    ownPrice     |-> changePriceProviderLastClosingPrice("development", docWrbtc),
    unity        |-> changePriceProviderUnity("development", docWrbtc),
    testnet      |-> changeMinOrderAmount("rskTestnet", 0)]

MCSettings ==
    [minBlocksForTick |-> 1, maxBlocksForTick |-> 2, expectedOrdersForTick |-> 2,
     minOrderAmount |-> 1, maxOrderLifespan |-> 1, minMultiplyFactor |-> 1, maxMultiplyFactor |-> 2,
     beneficiaryAddress |-> 1, commissionRate |-> 1, minimumCommission |-> 1,
     cancelationPenaltyRate |-> 1, expirationPenaltyRate |-> 1]

Started(p) == ~pair[p].simulating /\ pair'[p].simulating

Belongs(changer) == (changer.pair = NoPair) <=> (family = "settings")

MCInit == Init /\ ticks = 0 /\ family \in {"settings", "pairs"}

MCNext ==
    \/ /\ ScriptStep
       /\ ticks + asked' <= MaxEvents
       /\ \A s \in Scripts : state'[s] # state[s] => Belongs(Jobs[s].changer)
       /\ asked' # asked => Belongs(sent'[Len(sent')].changer)
       /\ UNCHANGED <<ticks, family>>
    \/ /\ family = "pairs"
       /\ TickBetween(docWrbtc)
       /\ ticks' = IF Started(docWrbtc) THEN ticks + 1 ELSE ticks
       /\ ticks' + asked <= MaxEvents
       /\ UNCHANGED family

MCSpec == MCInit /\ [][MCNext]_<<vars, ticks, family>>
=============================================================================
