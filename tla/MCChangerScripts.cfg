\* Two scripts of any two kinds side by side, among two pairs that governance adds
\* and their ticks.
SPECIFICATION MCSpec
CONSTANTS
    doc = doc
    wrbtc = wrbtc
    bpro = bpro
    Tokens = {doc, wrbtc, bpro}
    commonBaseToken = doc
    Prices = {1, 3}
    Factors = {1}
    Smoothings = {1}
    SMOOTHING_FACTOR = 1
    PricePrecision = 2
    RatePrecision = 2
    Drift = 1
    OracleAnswers <- MCOracleAnswers
    Migrated <- MCMigrated
    Prepared <- MCPrepared
    InitialSettings <- MCSettings
    MaxEvents = 3
    Jobs <- MCJobs
    MaxRun = 2
    MaxSent = 2
INVARIANTS
    SettingsAreSound
    ProviderQuotesItsPair
    AlwaysHasAPrice
    EveryListedPairConverts
    EmaFollowsPrices
    ReportsAreTrue
CHECK_DEADLOCK FALSE
