\* The four networks, two transactions or runs that go wrong, and one more
\* address than the owner: six mints, in two batches.
SPECIFICATION FairSpec
CONSTANTS
    MAX_PENDING_TXS = 4
    Networks = {"development", "coverage", "rskTestnet", "rskMainnet"}
    Addresses = {owner, user}
    owner = owner
    user = user
    MaxTrouble = 2
INVARIANTS
    PendingIsBounded
    SomeoneCanUpgrade
    GovernedBeforeTrading
    
PROPERTY MigrationCompletes
