----------------------------- MODULE Deployment -----------------------------
(***************************************************************************)
(* The migration that deploys the exchange (migrations/2_deploy_contracts  *)
(* and its utils): a script of transactions of one account.  The script    *)
(* awaits a transaction, or a batch of them sent together, before it sends *)
(* the next; a transaction of a batch is mined in any order, reverts, or   *)
(* is lost, and the script may be interrupted anywhere.  A script that     *)
(* stops is run again from the start, and deploys everything again         *)
(* (FORCE_DEPLOY, REUPLOAD, truffle migrate --reset), except what the      *)
(* network already has.                                                    *)
(*                                                                         *)
(* A transaction is a tuple: its kind and what it is about.                *)
(***************************************************************************)
EXTENDS Naturals, FiniteSets, SequencesExt

CONSTANTS
    MAX_PENDING_TXS,    \* the most transactions that are sent together
    Networks,           \* the networks of config.json the script is run for
    Addresses,          \* addressesToHaveBalance, and the owner
    MaxTrouble          \* bound of the lost transactions and interruptions

Proxies == {"Governor", "Stopper", "CommissionManager", "MoCDecentralizedExchange", "MoCDexFake"}

\* What an owner decides with: the changes to execute, and when to stop the exchange.
Governing == {"Governor", "Stopper"}

\* config.json, and deployFakes which the script adds to it.
Config == [
    development |-> [deployGovernance |-> TRUE, haveToAddTokenPairs |-> TRUE,
                     existingTokens |-> FALSE, deployFakes |-> TRUE],
    coverage    |-> [deployGovernance |-> TRUE, haveToAddTokenPairs |-> FALSE,
                     existingTokens |-> FALSE, deployFakes |-> TRUE],
    rskTestnet  |-> [deployGovernance |-> FALSE, haveToAddTokenPairs |-> FALSE,
                     existingTokens |-> TRUE, deployFakes |-> FALSE],
    rskMainnet  |-> [deployGovernance |-> FALSE, haveToAddTokenPairs |-> FALSE,
                     existingTokens |-> TRUE, deployFakes |-> FALSE]]

ASSUME DeploymentAssumption ==
    /\ MAX_PENDING_TXS \in Nat \ {0}
    /\ Networks \subseteq DOMAIN Config
    /\ IsFiniteSet(Addresses)
    /\ MaxTrouble \in Nat

VARIABLES
    config,     \* the configuration of the network
    script,     \* the batches that are still to be sent, in order
    pending,    \* transactions sent and not mined yet
    status,     \* "running", "stopped" or "done"
    chain,      \* what the contracts of this run hold
    past,       \* history: who ruled the proxies of the earlier runs
    trouble     \* how many transactions were lost or runs interrupted

vars == <<config, script, pending, status, chain, past, trouble>>

-----------------------------------------------------------------------------
(* The script. *)

Sequentially(actions) == [i \in DOMAIN actions |-> {actions[i]}]

When(condition, batches) == IF condition THEN batches ELSE <<>>

\* MUTANT of executeBatched: sends everything together.
executeAtOnce(actions) == <<Range(actions)>>

\* Consecutive chunks of at most MAX_PENDING_TXS actions; the promise of a chunk is
\* all of its actions, and the next one starts when it is fulfilled.
executeBatched(actions) ==
    LET Chunks == (Len(actions) + MAX_PENDING_TXS - 1) \div MAX_PENDING_TXS
    IN  [c \in 1 .. Chunks |->
            {actions[i] : i \in {j \in DOMAIN actions : (j - 1) \div MAX_PENDING_TXS = c - 1}}]

deploy(name) == <<"deploy", name>>

\* The proxies of zos: the implementations are pushed before a proxy is created.
createDexProxy(name) == <<"create", name>>
addAndPush(name) == <<"push", name>>
setAdmin(name) == <<"setAdmin", name>>

tokensAndLibraries(c) ==
    executeBatched(
        <<deploy("MoCExchangeLib"), deploy("TickState"), deploy("SafeTransfer")>> \o
        When(~c.existingTokens,
             <<deploy("BproToken"), deploy("WRBTC"), deploy("DocToken"), deploy("TestToken")>>))

\* MUTANT of deployGovernanceContracts: gives the proxies to the admin before the
\* delegator that owns it is initialized.
deployGovernanceHurried ==
    Sequentially(<<addAndPush("Governor"), addAndPush("Stopper"),
                   createDexProxy("Governor"), createDexProxy("Stopper"),
                   deploy("ProxyAdmin"), deploy("UpgradeDelegator"),
                   <<"transferOwnership", "ProxyAdmin">>,
                   setAdmin("Governor"), setAdmin("Stopper"),
                   <<"initialize", "UpgradeDelegator">> >>)

deployGovernanceContracts ==
    Sequentially(<<addAndPush("Governor"), addAndPush("Stopper"),
                   createDexProxy("Governor"), createDexProxy("Stopper"),
                   deploy("ProxyAdmin"), deploy("UpgradeDelegator"),
                   <<"initialize", "UpgradeDelegator">>,
                   <<"transferOwnership", "ProxyAdmin">>,
                   setAdmin("Governor"), setAdmin("Stopper")>>)

getGovernanceContracts(c) == When(c.deployGovernance, deployGovernanceContracts)

feeManager ==
    Sequentially(<<addAndPush("CommissionManager"), createDexProxy("CommissionManager"),
                   setAdmin("CommissionManager")>>)

\* MUTANT of exchange: leaves the proxy of the fake exchange to the deployer.
exchangeAndOwnFake(c) ==
    Sequentially(<<addAndPush("MoCDecentralizedExchange")>>) \o
    When(c.deployFakes, Sequentially(<<addAndPush("MoCDexFake")>>)) \o
    Sequentially(<<createDexProxy("MoCDecentralizedExchange"), setAdmin("MoCDecentralizedExchange")>>) \o
    When(c.deployFakes, Sequentially(<<createDexProxy("MoCDexFake")>>))

exchange(c) ==
    Sequentially(<<addAndPush("MoCDecentralizedExchange")>>) \o
    When(c.deployFakes, Sequentially(<<addAndPush("MoCDexFake")>>)) \o
    Sequentially(<<createDexProxy("MoCDecentralizedExchange"), setAdmin("MoCDecentralizedExchange")>>) \o
    When(c.deployFakes, Sequentially(<<createDexProxy("MoCDexFake"), setAdmin("MoCDexFake")>>))

transferFeeManager == Sequentially(<< <<"transferOwnership", "CommissionManager">> >>)

\* MUTANT of tokenPairsToAdd: a pair whose base is listed after it.
tokenPairsUnordered ==
    << <<"DocToken", "BproToken">>, <<"DocToken", "TestToken">>, <<"WRBTC", "BproToken">>,
       <<"DocToken", "WRBTC">>, <<"WRBTC", "TestToken">> >>

\* Base and secondary token of each pair, in the order they are added.
tokenPairsToAdd ==
    << <<"DocToken", "BproToken">>, <<"DocToken", "TestToken">>, <<"DocToken", "WRBTC">>,
       <<"WRBTC", "BproToken">>, <<"WRBTC", "TestToken">> >>

deployPriceProvider(pair) == <<"provider", pair>>

priceProviders == Sequentially([i \in DOMAIN tokenPairsToAdd |-> deployPriceProvider(tokenPairsToAdd[i])])

addTokenPairs == Sequentially(<<deploy("AddTokenPairChanger"), <<"executeChange", "AddTokenPairChanger">> >>)

fakes ==
    Sequentially(<<deploy("ERC20WithBlacklist"), deploy("TickStateFake"),
                   <<"initialize", "TickStateFake">>, deploy("MocStateFake")>>)

mintForAll ==
    LET addresses == SetToSeq(Addresses)
        mintFor(a) == << <<"mint", "BproToken", a>>, <<"mint", "DocToken", a>>, <<"mint", "TestToken", a>> >>
    IN  executeBatched(FlattenSeq([i \in DOMAIN addresses |-> mintFor(addresses[i])]))

\* MUTANT of migration: adds the token pairs before the exchange owns the fee manager.
migrationPairsFirst(c) ==
    tokensAndLibraries(c) \o getGovernanceContracts(c) \o feeManager \o exchange(c) \o
    priceProviders \o When(c.haveToAddTokenPairs, addTokenPairs) \o transferFeeManager \o
    When(c.deployFakes, fakes) \o When(~c.existingTokens, mintForAll)

migration(c) ==
    tokensAndLibraries(c) \o getGovernanceContracts(c) \o feeManager \o exchange(c) \o
    transferFeeManager \o priceProviders \o When(c.haveToAddTokenPairs, addTokenPairs) \o
    When(c.deployFakes, fakes) \o When(~c.existingTokens, mintForAll)

-----------------------------------------------------------------------------
(* The chain. *)

\* What a run starts from: nothing, or the tokens and the governance of the network.
Fresh(c) ==
    [contracts |->          \* contracts that are deployed
         (IF c.existingTokens THEN {"BproToken", "WRBTC", "DocToken", "TestToken"} ELSE {}) \union
         (IF c.deployGovernance THEN {} ELSE {"Governor", "Stopper", "ProxyAdmin", "UpgradeDelegator"}),
     implementations |-> {},        \* implementations pushed, for the proxies
     adminOf |->                    \* who may upgrade each proxy
         [p \in Proxies |-> IF ~c.deployGovernance /\ p \in Governing THEN "ProxyAdmin" ELSE "nobody"],
     ownerOf |->                    \* who owns the Governor and the Stopper
         [g \in Governing |-> IF c.deployGovernance THEN "nobody" ELSE "network"],
     adminOwner |-> IF c.deployGovernance THEN "deployer" ELSE "UpgradeDelegator",
     delegatorReady |-> ~c.deployGovernance,    \* the delegator is initialized
     feeManagerOwner |-> "deployer",
     providers |-> {},              \* pairs whose price provider is deployed
     listed |-> {},                 \* pairs of the exchange
     minted |-> {}]                 \* tokens minted, by address

\* addTokenPair accepts the i-th pair after those before it.
AcceptsPair(i) ==
    LET Before == {tokenPairsToAdd[j] : j \in 1 .. i - 1}
        base == tokenPairsToAdd[i][1]
        secondary == tokenPairsToAdd[i][2]
    IN  /\ base = "DocToken" \/ <<"DocToken", base>> \in Before
        /\ <<base, secondary>> \notin Before /\ <<secondary, base>> \notin Before
        /\ base # secondary

\* The checks of the contracts, and of zos, on a transaction.
Accepts(tx) ==
    LET Deployed(names) == names \subseteq chain.contracts
    IN  CASE tx[1] = "push"     -> tx[2] \in {"MoCDecentralizedExchange", "MoCDexFake"} =>
                                       Deployed({"MoCExchangeLib", "TickState"})
          [] tx[1] = "create"   -> /\ tx[2] \in chain.implementations
                                   /\ tx[2] \in Governing \/ Deployed(Governing)
          [] tx[1] = "setAdmin" -> chain.adminOf[tx[2]] = "deployer" /\ Deployed({"ProxyAdmin"})
          [] tx = <<"transferOwnership", "ProxyAdmin">> ->
                 chain.adminOwner = "deployer" /\ Deployed({"ProxyAdmin", "UpgradeDelegator"})
          [] tx = <<"transferOwnership", "CommissionManager">> ->
                 chain.feeManagerOwner = "deployer" /\ Deployed({"CommissionManager", "MoCDecentralizedExchange"})
          [] tx[1] = "provider" -> Deployed({"MoCDecentralizedExchange"})
          [] tx[1] = "executeChange" ->
                 /\ Deployed({"Governor", "MoCDecentralizedExchange", "AddTokenPairChanger"})
                 /\ chain.ownerOf["Governor"] = "deployer"
                 /\ \A i \in DOMAIN tokenPairsToAdd : AcceptsPair(i)
          [] tx[1] \in {"mint", "initialize"} -> Deployed({tx[2]})
          [] OTHER -> TRUE

-----------------------------------------------------------------------------
(* The runs. *)

Init ==
    /\ config \in {Config[n] : n \in Networks}
    /\ script = migration(config)
    /\ pending = {}
    /\ status = "running"
    /\ chain = Fresh(config)
    /\ past = {}
    /\ trouble = 0

\* What was sent is mined: the script sends the next batch, or ends.
SendBatch ==
    /\ status = "running"
    /\ pending = {}
    /\ script # <<>>
    /\ pending' = Head(script)
    /\ script' = Tail(script)
    /\ UNCHANGED <<config, status, chain, past, trouble>>

Finish ==
    /\ status = "running"
    /\ pending = {}
    /\ script = <<>>
    /\ status' = "done"
    /\ UNCHANGED <<config, script, pending, chain, past, trouble>>

Mined(tx) ==
    /\ tx \in pending
    /\ Accepts(tx)
    /\ pending' = pending \ {tx}
    /\ UNCHANGED <<config, script, status, past, trouble>>

MineDeploy(tx) ==
    /\ tx[1] = "deploy"
    /\ Mined(tx)
    /\ chain' = [chain EXCEPT !.contracts = @ \union {tx[2]}]

MinePush(tx) ==
    /\ tx[1] = "push"
    /\ Mined(tx)
    /\ chain' = [chain EXCEPT !.implementations = @ \union {tx[2]}]

\* The account that creates a proxy administers it; that of the Governor or of the
\* Stopper is initialized with the same account as its owner, and no transaction of
\* the script gives them to anybody else.
MineCreate(tx) ==
    /\ tx[1] = "create"
    /\ Mined(tx)
    /\ chain' = [chain EXCEPT !.contracts = @ \union {tx[2]}, !.adminOf[tx[2]] = "deployer",
                              !.ownerOf = [g \in Governing |-> IF g = tx[2] THEN "deployer" ELSE @[g]]]

MineSetAdmin(tx) ==
    /\ tx[1] = "setAdmin"
    /\ Mined(tx)
    /\ chain' = [chain EXCEPT !.adminOf[tx[2]] = "ProxyAdmin"]

\* The UpgradeDelegator learns its governor and its admin; the fake tick state its pair.
MineInitialize(tx) ==
    /\ tx[1] = "initialize"
    /\ Mined(tx)
    /\ chain' = [chain EXCEPT !.delegatorReady = @ \/ tx[2] = "UpgradeDelegator"]

MineTransferProxyAdmin(tx) ==
    /\ tx = <<"transferOwnership", "ProxyAdmin">>
    /\ Mined(tx)
    /\ chain' = [chain EXCEPT !.adminOwner = "UpgradeDelegator"]

MineTransferFeeManager(tx) ==
    /\ tx = <<"transferOwnership", "CommissionManager">>
    /\ Mined(tx)
    /\ chain' = [chain EXCEPT !.feeManagerOwner = "MoCDecentralizedExchange"]

MinePriceProvider(tx) ==
    /\ tx[1] = "provider"
    /\ Mined(tx)
    /\ chain' = [chain EXCEPT !.providers = @ \union {tx[2]}]

\* AddTokenPairChanger.execute, run by the governor: every pair is added, or none.
MineAddTokenPairs(tx) ==
    /\ tx[1] = "executeChange"
    /\ Mined(tx)
    /\ chain' = [chain EXCEPT !.listed = Range(tokenPairsToAdd)]

MineMint(tx) ==
    /\ tx[1] = "mint"
    /\ Mined(tx)
    /\ chain' = [chain EXCEPT !.minted = @ \union {<<tx[2], tx[3]>>}]

Mine ==
    \E tx \in pending :
        \/ MineDeploy(tx)
        \/ MinePush(tx)
        \/ MineCreate(tx)
        \/ MineSetAdmin(tx)
        \/ MineInitialize(tx)
        \/ MineTransferProxyAdmin(tx)
        \/ MineTransferFeeManager(tx)
        \/ MinePriceProvider(tx)
        \/ MineAddTokenPairs(tx)
        \/ MineMint(tx)

\* A transaction is refused, or it is lost on its way.  The promise of its batch is
\* rejected and the script stops; the others of the batch stay pending and may
\* still be mined.
Fail ==
    \E tx \in pending :
        /\ IF Accepts(tx) THEN trouble < MaxTrouble /\ trouble' = trouble + 1 ELSE trouble' = trouble
        /\ pending' = pending \ {tx}
        /\ status' = "stopped"
        /\ UNCHANGED <<config, script, chain, past>>

\* The process ends while it waits, or between two transactions.
Interrupt ==
    /\ status = "running"
    /\ trouble < MaxTrouble
    /\ trouble' = trouble + 1
    /\ status' = "stopped"
    /\ UNCHANGED <<config, script, pending, chain, past>>

Rule == [admins |-> chain.adminOf, owner |-> chain.adminOwner, ready |-> chain.delegatorReady]

\* The script is run again, when nothing of its last run is pending.
Rerun ==
    /\ status = "stopped"
    /\ pending = {}
    /\ status' = "running"
    /\ script' = migration(config)
    /\ chain' = Fresh(config)
    /\ past' = past \union {Rule}
    /\ UNCHANGED <<config, pending, trouble>>

Done == status = "done" /\ UNCHANGED vars

Next == SendBatch \/ Finish \/ Mine \/ Fail \/ Interrupt \/ Rerun \/ Done

Spec == Init /\ [][Next]_vars

\* What is sent is mined or refused in the end, the script goes on when it is, and
\* whoever runs it runs it again when it stops.
FairSpec ==
    /\ Spec
    /\ WF_vars(SendBatch \/ Finish)
    /\ WF_vars(Mine \/ Fail)
    /\ WF_vars(Rerun)

-----------------------------------------------------------------------------

TypeOK ==
    /\ config \in Range(Config)
    /\ \A i \in DOMAIN script : script[i] # {} /\ IsFiniteSet(script[i])
    /\ status \in {"running", "stopped", "done"}
    /\ chain.adminOf \in [Proxies -> {"nobody", "deployer", "ProxyAdmin"}]
    /\ chain.ownerOf \in [Governing -> {"nobody", "deployer", "network"}]
    /\ chain.adminOwner \in {"deployer", "UpgradeDelegator"}
    /\ chain.feeManagerOwner \in {"deployer", "MoCDecentralizedExchange"}
    /\ chain.listed \union chain.providers \subseteq Range(tokenPairsToAdd)
    /\ trouble \in 0 .. MaxTrouble

\* However the transactions of a batch are mined, at most MAX_PENDING_TXS of the
\* account are in flight: a node of RSK drops those above ("we gotta take care not to
\* have over 4 pending transactions for an address").
PendingIsBounded == Cardinality(pending) <= MAX_PENDING_TXS

\* Wherever a run stops, every proxy it has created, and every one an earlier run
\* has, can be upgraded by somebody: by the deployer, or through a ProxyAdmin whose
\* owner is the deployer or an initialized UpgradeDelegator.
SomeoneCanUpgrade ==
    \A rule \in past \union {Rule} : \A p \in Proxies :
        rule.admins[p] = "ProxyAdmin" =>
            rule.owner = "deployer" \/ (rule.owner = "UpgradeDelegator" /\ rule.ready)

\* The code of p is replaced by a change that the owner of the Governor has it execute,
\* and nobody, the deployer of p included, can replace it past the Governor.
Governed(p) ==
    /\ chain.adminOf[p] = "ProxyAdmin" /\ chain.adminOwner = "UpgradeDelegator" /\ chain.delegatorReady
    /\ chain.ownerOf["Governor"] # "nobody"

\* From the moment users find pairs to trade, their orders can be matched, canceled
\* and expired (the exchange owns the manager that charges the commissions), every
\* pair has its own price provider, and the code that holds the tokens is replaced
\* through the Governor only, like any other change.  Who decides on changes is the
\* owner of the Governor, on the network that lists pairs the deployer itself.
GovernedBeforeTrading ==
    chain.listed # {} =>
        /\ chain.feeManagerOwner = "MoCDecentralizedExchange"
        /\ chain.listed \subseteq chain.providers
        /\ \A p \in {"CommissionManager", "MoCDecentralizedExchange"} : Governed(p)
        /\ chain.ownerOf["Governor"] = "deployer"

\* What a run that ends leaves to the deployer are the Governor and the Stopper, where
\* it deployed them, and nothing where the network had them: no proxy, the ProxyAdmin
\* or the fee manager is its own any more.  Every address has its tokens.
DeployerKeepsOnlyGovernance ==
    status = "done" =>
        /\ \A p \in Proxies \cap chain.contracts : Governed(p)
        /\ chain.feeManagerOwner = "MoCDecentralizedExchange"
        /\ \A g \in Governing : chain.ownerOf[g] = (IF config.deployGovernance THEN "deployer" ELSE "network")
        /\ config.existingTokens \/ Cardinality(chain.minted) = 3 * Cardinality(Addresses)

\* If transactions are lost only finitely often, the migration ends: no step of the
\* script is always refused, and no failure blocks its next run.
MigrationCompletes == <>(status = "done")
=============================================================================
