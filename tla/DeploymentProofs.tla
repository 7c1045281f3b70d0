--------------------------- MODULE DeploymentProofs ---------------------------
(***************************************************************************)
(* The migration, for every set of networks and addresses, every bound of  *)
(* the transactions in flight and any number of runs that fail: the nodes  *)
(* accept what is sent together, every proxy can be upgraded wherever a    *)
(* run stops, and governance rules what users find.                        *)
(***************************************************************************)
EXTENDS Deployment, Lemmas, TLAPS

-----------------------------------------------------------------------------
(* Scripts. *)

Tokens == {"BproToken", "DocToken", "TestToken"}

Contracts ==
    {"MoCExchangeLib", "TickState", "SafeTransfer", "BproToken", "WRBTC", "DocToken", "TestToken",
     "ProxyAdmin", "UpgradeDelegator", "AddTokenPairChanger", "ERC20WithBlacklist", "TickStateFake",
     "MocStateFake"}

\* What a script sends: no proxy is deployed without zos.
Transactions ==
    {<<"deploy", name>> : name \in Contracts} \union
    {<<kind, p>> : kind \in {"push", "create", "setAdmin"}, p \in Proxies} \union
    {<<"initialize", name>> : name \in {"UpgradeDelegator", "TickStateFake"}} \union
    {<<"transferOwnership", name>> : name \in {"ProxyAdmin", "CommissionManager"}} \union
    {<<"provider", pair>> : pair \in Range(tokenPairsToAdd)} \union
    { <<"executeChange", "AddTokenPairChanger">> } \union
    {<<"mint", token, a>> : token \in Tokens, a \in Addresses}

\* All that a script sends.
Sent(s) == {tx \in Transactions : \E i \in DOMAIN s : tx \in s[i]}

\* a must be done before b is sent.
First(a, b) ==
    \/ a[1] = "create" /\ b = <<"setAdmin", a[2]>>
    \/ a = <<"initialize", "UpgradeDelegator">> /\ b = <<"transferOwnership", "ProxyAdmin">>
    \/ a[1] \in {"create", "setAdmin", "transferOwnership", "provider"} /\ b[1] = "executeChange"

\* A list of batches that a node accepts, in a good order.
Good(s) ==
    /\ s \in Seq(SUBSET Transactions)
    /\ \A i \in DOMAIN s : s[i] # {} /\ IsFiniteSet(s[i]) /\ Cardinality(s[i]) <= MAX_PENDING_TXS
    /\ \A i, j \in DOMAIN s : \A a \in s[i], b \in s[j] : First(a, b) => i < j

\* A list of batches after another one.
LEMMA GoodConcat ==
    ASSUME NEW s, NEW t, Good(s), Good(t), \A a \in Sent(t), b \in Sent(s) : ~First(a, b)
    PROVE  Good(s \o t) /\ Sent(s \o t) = Sent(s) \union Sent(t)
  <1> DEFINE u == s \o t
  <1>1. s \in Seq(SUBSET Transactions) /\ t \in Seq(SUBSET Transactions)
    BY DEF Good
  <1>2. /\ u \in Seq(SUBSET Transactions) /\ Len(u) = Len(s) + Len(t)
        /\ \A i \in DOMAIN u : u[i] = IF i <= Len(s) THEN s[i] ELSE t[i - Len(s)]
    BY <1>1
  <1>3. DOMAIN s = 1 .. Len(s) /\ DOMAIN t = 1 .. Len(t) /\ DOMAIN u = 1 .. Len(s) + Len(t) /\ Len(s) \in Nat /\ Len(t) \in Nat
    BY <1>1, <1>2
  <1> HIDE DEF u
  <1>4. ASSUME NEW i \in DOMAIN u
        PROVE  \/ i \in DOMAIN s /\ u[i] = s[i]
               \/ i \notin DOMAIN s /\ i - Len(s) \in DOMAIN t /\ u[i] = t[i - Len(s)]
    BY <1>2, <1>3
  <1>5. \A i \in DOMAIN s : i \in DOMAIN u /\ u[i] = s[i]
    BY <1>2, <1>3
  <1>6. \A i \in DOMAIN t : i + Len(s) \in DOMAIN u /\ u[i + Len(s)] = t[i]
    BY <1>2, <1>3
  <1>7. Sent(u) = Sent(s) \union Sent(t)
    BY <1>4, <1>5, <1>6 DEF Sent
  <1>8. \A i \in DOMAIN u : u[i] # {} /\ IsFiniteSet(u[i]) /\ Cardinality(u[i]) <= MAX_PENDING_TXS
    BY <1>4 DEF Good
  <1>9. ASSUME NEW i \in DOMAIN u, NEW j \in DOMAIN u, NEW a \in u[i], NEW b \in u[j], First(a, b)
        PROVE  i < j
    <2>1. a \in Transactions /\ b \in Transactions
      <3>1. u[i] \in SUBSET Transactions /\ u[j] \in SUBSET Transactions
        BY <1>2
      <3> QED
        BY <3>1
    <2>2. CASE i \in DOMAIN s /\ j \in DOMAIN s
      BY <1>4, <1>9, <2>2 DEF Good
    <2>3. CASE i \in DOMAIN s /\ j \notin DOMAIN s
      BY <1>3, <2>3
    <2>4. CASE i \notin DOMAIN s /\ j \in DOMAIN s
      <3>1. a \in Sent(t)
        BY <1>4, <2>1, <2>4 DEF Sent
      <3>2. b \in Sent(s)
        BY <1>4, <2>1, <2>4 DEF Sent
      <3> QED
        BY <1>9, <3>1, <3>2
    <2>5. CASE i \notin DOMAIN s /\ j \notin DOMAIN s
      <3> DEFINE m == i - Len(s)
                 n == j - Len(s)
      <3>1. m \in DOMAIN t /\ n \in DOMAIN t /\ a \in t[m] /\ b \in t[n]
        BY <1>4, <2>5
      <3>2. m < n
        BY <1>9, <3>1 DEF Good
      <3> QED
        BY <1>3, <3>2
    <2> QED
      BY <2>2, <2>3, <2>4, <2>5
  <1> QED
    BY <1>2, <1>7, <1>8, <1>9 DEF Good, u

\* No batches.
LEMMA GoodEmpty == Good(<<>>) /\ Sent(<<>>) = {}
  BY DEF Good, Sent

\* Batches that a configuration asks for.
LEMMA GoodWhen ==
    ASSUME NEW condition \in BOOLEAN, NEW s, Good(s)
    PROVE  Good(When(condition, s)) /\ Sent(When(condition, s)) = IF condition THEN Sent(s) ELSE {}
  BY GoodEmpty DEF When

\* Transactions that are sent one by one.
LEMMA SequentiallyIs ==
    ASSUME NEW actions \in Seq(Transactions),
           \A i, j \in DOMAIN actions : First(actions[i], actions[j]) => i < j
    PROVE  Good(Sequentially(actions)) /\ Sent(Sequentially(actions)) = Range(actions)
  <1> DEFINE s == Sequentially(actions)
  <1>1. DOMAIN actions = 1 .. Len(actions) /\ Len(actions) \in Nat /\ \A i \in DOMAIN actions : actions[i] \in Transactions
    OBVIOUS
  <1>2. DOMAIN s = DOMAIN actions /\ \A i \in DOMAIN s : s[i] = {actions[i]}
    BY DEF Sequentially
  <1>3. s \in Seq(SUBSET Transactions)
    BY <1>1 DEF Sequentially
  <1>4. \A x : IsFiniteSet({x}) /\ Cardinality({x}) = 1
    BY FS_Singleton
  <1> HIDE DEF s
  <1>5. 1 <= MAX_PENDING_TXS
    BY DeploymentAssumption
  <1>6. Good(s)
    <2>1. \A i \in DOMAIN s : s[i] # {} /\ IsFiniteSet(s[i]) /\ Cardinality(s[i]) <= MAX_PENDING_TXS
      <3> SUFFICES ASSUME NEW i \in DOMAIN s
                   PROVE  s[i] # {} /\ IsFiniteSet(s[i]) /\ Cardinality(s[i]) <= MAX_PENDING_TXS
        OBVIOUS
      <3>1. s[i] = {actions[i]}
        BY <1>2
      <3>2. IsFiniteSet({actions[i]}) /\ Cardinality({actions[i]}) = 1
        BY <1>4
      <3> QED
        BY <1>5, <3>1, <3>2
    <2>2. \A i, j \in DOMAIN s : \A a \in s[i], b \in s[j] : First(a, b) => i < j
      <3> SUFFICES ASSUME NEW i \in DOMAIN s, NEW j \in DOMAIN s, NEW a \in s[i], NEW b \in s[j], First(a, b)
                   PROVE  i < j
        OBVIOUS
      <3>1. a = actions[i] /\ b = actions[j] /\ i \in DOMAIN actions /\ j \in DOMAIN actions
        BY <1>2
      <3> QED
        BY <3>1
    <2> QED
      BY <1>3, <2>1, <2>2 DEF Good
  <1>7. Sent(s) = Range(actions)
    BY <1>1, <1>2 DEF Sent, Range
  <1> QED
    BY <1>6, <1>7 DEF s

\* The chunks of executeBatched.
LEMMA BatchedIs ==
    ASSUME NEW actions \in Seq(Transactions),
           \A i, j \in DOMAIN actions : ~First(actions[i], actions[j])
    PROVE  Good(executeBatched(actions)) /\ Sent(executeBatched(actions)) = Range(actions)
  <1> DEFINE L == Len(actions)
             m == MAX_PENDING_TXS
             Chunks == (L + m - 1) \div m
             Of(c) == {j \in DOMAIN actions : (j - 1) \div m = c - 1}
             s == executeBatched(actions)
  <1>1. L \in Nat /\ m \in Nat \ {0} /\ DOMAIN actions = 1 .. L /\ \A i \in DOMAIN actions : actions[i] \in Transactions
    BY DeploymentAssumption
  <1>2. L + m - 1 \in Nat
    BY <1>1
  <1>3. Chunks \in Nat /\ Chunks * m <= L + m - 1 /\ L + m - 1 < (Chunks + 1) * m
    BY <1>1, <1>2, DivBounds
  <1>4. s = [c \in 1 .. Chunks |-> {actions[i] : i \in Of(c)}]
    BY DEF executeBatched
  <1>5. \A j \in DOMAIN actions :
            /\ (j - 1) \div m \in Nat /\ ((j - 1) \div m) * m <= j - 1 /\ j - 1 < ((j - 1) \div m + 1) * m
    <2> SUFFICES ASSUME NEW j \in DOMAIN actions
                 PROVE  /\ (j - 1) \div m \in Nat /\ ((j - 1) \div m) * m <= j - 1
                        /\ j - 1 < ((j - 1) \div m + 1) * m
      OBVIOUS
    <2>1. j - 1 \in Nat
      BY <1>1
    <2> QED
      BY <1>1, <2>1, DivBounds
  <1> HIDE DEF s, Chunks, L, m
  <1>6. DOMAIN s = 1 .. Chunks /\ \A c \in DOMAIN s : s[c] = {actions[i] : i \in Of(c)}
    BY <1>4
  <1>7. s \in Seq(SUBSET Transactions)
    BY <1>1, <1>3, <1>4
  <1>8. ASSUME NEW c \in 1 .. Chunks
        PROVE  /\ s[c] # {} /\ IsFiniteSet(s[c]) /\ Cardinality(s[c]) <= m
    <2> DEFINE low == (c - 1) * m
    <2>1. c \in Nat /\ c - 1 \in Nat /\ low \in Nat /\ c * m \in Nat /\ c * m = low + m
      BY <1>1, <1>3, ProductIsNat
    <2>2. c * m <= Chunks * m
      BY <1>1, <1>3, <2>1, ProductIsMonotonic
    <2>3. Chunks * m \in Nat
      BY <1>1, <1>3, ProductIsNat
    <2> HIDE DEF low
    <2>4. low + 1 <= L
      BY <1>1, <1>2, <1>3, <2>1, <2>2, <2>3
    <2>5. low + 1 \in Of(c)
      <3>1. low + 1 \in DOMAIN actions
        BY <1>1, <2>1, <2>4
      <3>2. low \div m = c - 1
        <4> DEFINE q == low \div m
        <4>1. q \in Nat /\ q * m <= low /\ low < (q + 1) * m
          BY <1>1, <2>1, DivBounds
        <4> HIDE DEF q
        <4>2. q < c
          <5>1. q * m < c * m
            BY <1>1, <2>1, <4>1, ProductIsNat
          <5> QED
            BY <1>1, <2>1, <4>1, <5>1, Cancel
        <4>3. c - 1 < q + 1
          <5>1. (c - 1) * m < (q + 1) * m
            BY <4>1 DEF low
          <5> QED
            BY <1>1, <2>1, <4>1, <5>1, Cancel
        <4> QED
          BY <2>1, <4>1, <4>2, <4>3 DEF q
      <3>3. (low + 1) - 1 = low
        BY <2>1
      <3> QED
        BY <3>1, <3>2, <3>3
    <2>6. Of(c) \subseteq low + 1 .. low + m
      <3> SUFFICES ASSUME NEW j \in Of(c) PROVE j \in low + 1 .. low + m
        OBVIOUS
      <3>1. j \in DOMAIN actions /\ (j - 1) \div m = c - 1
        OBVIOUS
      <3>2. (c - 1) * m <= j - 1 /\ j - 1 < (c - 1 + 1) * m
        BY <1>5, <3>1
      <3>3. c - 1 + 1 = c
        BY <2>1
      <3>4. j - 1 < c * m /\ low <= j - 1
        BY <3>2, <3>3 DEF low
      <3> QED
        BY <1>1, <2>1, <3>1, <3>4
    <2>7. IsFiniteSet(low + 1 .. low + m) /\ Cardinality(low + 1 .. low + m) = m
      <3>1. low + 1 \in Int /\ low + m \in Int /\ ~(low + 1 > low + m) /\ (low + m) - (low + 1) + 1 = m
        BY <1>1, <2>1
      <3>2. Cardinality(low + 1 .. low + m) = IF low + 1 > low + m THEN 0 ELSE (low + m) - (low + 1) + 1
        BY <3>1, FS_Interval
      <3> QED
        BY <3>1, <3>2, FS_Interval
    <2>8. IsFiniteSet(Of(c)) /\ Cardinality(Of(c)) <= Cardinality(low + 1 .. low + m)
      BY <2>6, <2>7, FS_Subset
    <2> DEFINE f == [i \in Of(c) |-> actions[i]]
    <2>9. s[c] = {actions[i] : i \in Of(c)}
      BY <1>6
    <2>10. f \in Surjection(Of(c), s[c])
      BY <2>9 DEF Surjection
    <2>11. IsFiniteSet(s[c]) /\ Cardinality(s[c]) <= Cardinality(Of(c))
      BY <2>8, <2>10, FS_Surjection
    <2>12. Cardinality(s[c]) \in Nat /\ Cardinality(Of(c)) \in Nat
      BY <2>8, <2>11, FS_CardinalityType
    <2>13. s[c] # {}
      BY <2>5, <2>9
    <2>14. Cardinality(Of(c)) <= m
      BY <2>7, <2>8
    <2> HIDE DEF Of
    <2> QED
      BY <1>1, <2>11, <2>12, <2>13, <2>14
  <1>9. \A c \in DOMAIN s : s[c] \subseteq Range(actions)
    BY <1>6 DEF Range
  <1>10. ASSUME NEW tx \in Range(actions)
         PROVE  \E c \in DOMAIN s : tx \in s[c]
    <2>1. PICK j \in DOMAIN actions : tx = actions[j]
      BY DEF Range
    <2> DEFINE q == (j - 1) \div m
    <2>2. q \in Nat /\ q * m <= j - 1 /\ j <= L /\ j \in Nat
      BY <1>1, <1>5
    <2> HIDE DEF q
    <2>3. q * m \in Nat /\ (Chunks + 1) * m \in Nat /\ (q + 1) * m \in Nat /\ (q + 1) * m = q * m + m
      BY <1>1, <1>3, <2>2, ProductIsNat
    <2>4. (q + 1) * m < (Chunks + 1) * m
      BY <1>1, <1>2, <1>3, <2>2, <2>3
    <2>5. q + 1 < Chunks + 1
      BY <1>1, <1>3, <2>2, <2>4, Cancel
    <2>6. q + 1 \in DOMAIN s
      BY <1>3, <1>6, <2>2, <2>5
    <2>7. (q + 1) - 1 = q
      BY <2>2
    <2>8. j \in Of(q + 1)
      BY <2>1, <2>7 DEF q
    <2>9. tx \in s[q + 1]
      BY <1>6, <2>1, <2>6, <2>8
    <2> QED
      BY <2>6, <2>9
  <1>11. Range(actions) \subseteq Transactions
    BY <1>1 DEF Range
  <1>12. Sent(s) = Range(actions)
    BY <1>9, <1>10, <1>11 DEF Sent
  <1>13. \A i, j \in DOMAIN s : \A a \in s[i], b \in s[j] : ~First(a, b)
    <2>1. \A a, b \in Range(actions) : ~First(a, b)
      BY DEF Range
    <2> QED
      BY <1>9, <2>1
  <1>14. Good(s)
    BY <1>6, <1>7, <1>8, <1>13 DEF Good, m
  <1> QED
    BY <1>12, <1>14 DEF s

-----------------------------------------------------------------------------
(* The parts of the migration. *)

\* The libraries and the tokens, in batches.
LEMMA TokensAndLibraries ==
    ASSUME NEW c, c.existingTokens \in BOOLEAN
    PROVE  /\ Good(tokensAndLibraries(c))
           /\ \A tx \in Sent(tokensAndLibraries(c)) : tx[1] = "deploy"
  <1> DEFINE libraries == <<deploy("MoCExchangeLib"), deploy("TickState"), deploy("SafeTransfer")>>
             tokens == <<deploy("BproToken"), deploy("WRBTC"), deploy("DocToken"), deploy("TestToken")>>
             D == {<<"deploy", name>> : name \in Contracts}
             actions == libraries \o When(~c.existingTokens, tokens)
  <1>1. libraries \in Seq(D) /\ tokens \in Seq(D) /\ <<>> \in Seq(D)
    BY DEF deploy, Contracts
  <1>2. When(~c.existingTokens, tokens) \in Seq(D)
    BY <1>1 DEF When
  <1> HIDE DEF libraries, tokens, D
  <1>3. actions \in Seq(D)
    BY <1>1, <1>2
  <1>4. D \subseteq Transactions
    BY DEF D, Transactions
  <1> HIDE DEF actions
  <1>5. actions \in Seq(Transactions) /\ \A i \in DOMAIN actions : actions[i] \in D
    BY <1>3, <1>4
  <1>6. \A tx \in D : tx[1] = "deploy"
    BY DEF D
  <1>7. \A i, j \in DOMAIN actions : ~First(actions[i], actions[j])
    BY <1>5, <1>6 DEF First
  <1>8. Good(executeBatched(actions)) /\ Sent(executeBatched(actions)) = Range(actions)
    BY <1>5, <1>7, BatchedIs
  <1>9. tokensAndLibraries(c) = executeBatched(actions)
    BY DEF tokensAndLibraries, actions, libraries, tokens
  <1> QED
    BY <1>5, <1>6, <1>8, <1>9 DEF Range

\* The contracts of the governance, where the network has none.
LEMMA GovernanceContracts ==
    /\ Good(deployGovernanceContracts)
    /\ Sent(deployGovernanceContracts) =
           {<<"push", "Governor">>, <<"push", "Stopper">>, <<"create", "Governor">>, <<"create", "Stopper">>,
            <<"deploy", "ProxyAdmin">>, <<"deploy", "UpgradeDelegator">>, <<"initialize", "UpgradeDelegator">>,
            <<"transferOwnership", "ProxyAdmin">>, <<"setAdmin", "Governor">>, <<"setAdmin", "Stopper">>}
  <1> DEFINE actions == <<addAndPush("Governor"), addAndPush("Stopper"),
                   createDexProxy("Governor"), createDexProxy("Stopper"),
                   deploy("ProxyAdmin"), deploy("UpgradeDelegator"),
                   <<"initialize", "UpgradeDelegator">>,
                   <<"transferOwnership", "ProxyAdmin">>,
                   setAdmin("Governor"), setAdmin("Stopper")>>
  <1>1. actions \in Seq(Transactions)
    BY DEF addAndPush, createDexProxy, deploy, setAdmin, Transactions, Contracts, Proxies
  <1>2. DOMAIN actions = 1 .. 10
    OBVIOUS
  <1>3. /\ actions[1] = <<"push", "Governor">> /\ actions[2] = <<"push", "Stopper">>
        /\ actions[3] = <<"create", "Governor">> /\ actions[4] = <<"create", "Stopper">>
        /\ actions[5] = <<"deploy", "ProxyAdmin">> /\ actions[6] = <<"deploy", "UpgradeDelegator">>
        /\ actions[7] = <<"initialize", "UpgradeDelegator">> /\ actions[8] = <<"transferOwnership", "ProxyAdmin">>
        /\ actions[9] = <<"setAdmin", "Governor">> /\ actions[10] = <<"setAdmin", "Stopper">>
    BY DEF addAndPush, createDexProxy, deploy, setAdmin
  <1>4. deployGovernanceContracts = Sequentially(actions)
    BY DEF deployGovernanceContracts
  <1> HIDE DEF actions
  <1>5. ASSUME NEW i \in DOMAIN actions, NEW j \in DOMAIN actions, First(actions[i], actions[j])
        PROVE  i < j
    <2>1. CASE i \in {1, 2, 5, 6, 8, 9, 10}
      BY <1>2, <1>3, <1>5, <2>1 DEF First
    <2>2. CASE i \in {3, 4, 7}
      BY <1>2, <1>3, <1>5, <2>2 DEF First
    <2> QED
      BY <1>2, <2>1, <2>2
  <1>6. Range(actions) = {actions[1], actions[2], actions[3], actions[4], actions[5], actions[6], actions[7],
                          actions[8], actions[9], actions[10]}
    BY <1>2 DEF Range
  <1> QED
    BY <1>1, <1>3, <1>4, <1>5, <1>6, SequentiallyIs

\* The fee manager and its proxy.
LEMMA FeeManager ==
    /\ Good(feeManager)
    /\ Sent(feeManager) = {<<"push", "CommissionManager">>, <<"create", "CommissionManager">>,
                           <<"setAdmin", "CommissionManager">>}
  <1> DEFINE actions == <<addAndPush("CommissionManager"), createDexProxy("CommissionManager"),
                          setAdmin("CommissionManager")>>
  <1>1. actions \in Seq(Transactions)
    BY DEF addAndPush, createDexProxy, setAdmin, Transactions, Proxies
  <1>2. DOMAIN actions = 1 .. 3
    OBVIOUS
  <1>3. /\ actions[1] = <<"push", "CommissionManager">> /\ actions[2] = <<"create", "CommissionManager">>
        /\ actions[3] = <<"setAdmin", "CommissionManager">>
    BY DEF addAndPush, createDexProxy, setAdmin
  <1>4. feeManager = Sequentially(actions)
    BY DEF feeManager
  <1> HIDE DEF actions
  <1>5. ASSUME NEW i \in DOMAIN actions, NEW j \in DOMAIN actions, First(actions[i], actions[j])
        PROVE  i < j
    BY <1>2, <1>3, <1>5 DEF First
  <1>6. Range(actions) = {actions[1], actions[2], actions[3]}
    BY <1>2 DEF Range
  <1> QED
    BY <1>1, <1>3, <1>4, <1>5, <1>6, SequentiallyIs

\* One transaction.
LEMMA OneTransaction ==
    ASSUME NEW tx \in Transactions, ~First(tx, tx)
    PROVE  Good(Sequentially(<<tx>>)) /\ Sent(Sequentially(<<tx>>)) = {tx}
  <1> DEFINE actions == <<tx>>
  <1>1. actions \in Seq(Transactions) /\ DOMAIN actions = 1 .. 1 /\ actions[1] = tx
    OBVIOUS
  <1> HIDE DEF actions
  <1>2. \A i, j \in DOMAIN actions : First(actions[i], actions[j]) => i < j
    BY <1>1
  <1>3. Range(actions) = {tx}
    BY <1>1 DEF Range
  <1>4. Good(Sequentially(actions)) /\ Sent(Sequentially(actions)) = Range(actions)
    BY <1>1, <1>2, SequentiallyIs
  <1> QED
    BY <1>3, <1>4 DEF actions

\* Two transactions, in their order.
LEMMA TwoTransactions ==
    ASSUME NEW a \in Transactions, NEW b \in Transactions, ~First(a, a), ~First(b, b), ~First(b, a)
    PROVE  Good(Sequentially(<<a, b>>)) /\ Sent(Sequentially(<<a, b>>)) = {a, b}
  <1> DEFINE actions == <<a, b>>
  <1>1. actions \in Seq(Transactions) /\ DOMAIN actions = 1 .. 2 /\ actions[1] = a /\ actions[2] = b
    OBVIOUS
  <1> HIDE DEF actions
  <1>2. \A i, j \in DOMAIN actions : First(actions[i], actions[j]) => i < j
    BY <1>1
  <1>3. Range(actions) = {a, b}
    BY <1>1 DEF Range
  <1>4. Good(Sequentially(actions)) /\ Sent(Sequentially(actions)) = Range(actions)
    BY <1>1, <1>2, SequentiallyIs
  <1> QED
    BY <1>3, <1>4 DEF actions

\* The proxy of an exchange.
ExchangeProxy(name) == {<<"create", name>>, <<"setAdmin", name>>}

\* The exchange, and the fake one of the test networks.
LEMMA ExchangeIs ==
    ASSUME NEW c, c.deployFakes \in BOOLEAN
    PROVE  /\ Good(exchange(c))
           /\ Sent(exchange(c)) =
                  { <<"push", "MoCDecentralizedExchange">> } \union ExchangeProxy("MoCDecentralizedExchange") \union
                  (IF c.deployFakes THEN { <<"push", "MoCDexFake">> } \union ExchangeProxy("MoCDexFake") ELSE {})
  <1> DEFINE dex == "MoCDecentralizedExchange"
             fake == "MoCDexFake"
             s1 == Sequentially(<<addAndPush(dex)>>)
             s2 == When(c.deployFakes, Sequentially(<<addAndPush(fake)>>))
             s3 == Sequentially(<<createDexProxy(dex), setAdmin(dex)>>)
             s4 == When(c.deployFakes, Sequentially(<<createDexProxy(fake), setAdmin(fake)>>))
             S2 == IF c.deployFakes THEN { <<"push", fake>> } ELSE {}
             S4 == IF c.deployFakes THEN ExchangeProxy(fake) ELSE {}
  <1>1. \A name \in {dex, fake} :
            /\ <<"push", name>> \in Transactions /\ <<"create", name>> \in Transactions
            /\ <<"setAdmin", name>> \in Transactions
    BY DEF Transactions, Proxies
  <1>2. ASSUME NEW name \in {dex, fake}
        PROVE  /\ ~First(<<"push", name>>, <<"push", name>>)
               /\ ~First(<<"create", name>>, <<"create", name>>)
               /\ ~First(<<"setAdmin", name>>, <<"setAdmin", name>>)
               /\ ~First(<<"setAdmin", name>>, <<"create", name>>)
    BY DEF First
  <1>3. ASSUME NEW name \in {dex, fake}
        PROVE  /\ Good(Sequentially(<<addAndPush(name)>>))
               /\ Sent(Sequentially(<<addAndPush(name)>>)) = { <<"push", name>> }
    BY <1>1, <1>2, OneTransaction DEF addAndPush
  <1>4. ASSUME NEW name \in {dex, fake}
        PROVE  /\ Good(Sequentially(<<createDexProxy(name), setAdmin(name)>>))
               /\ Sent(Sequentially(<<createDexProxy(name), setAdmin(name)>>)) = ExchangeProxy(name)
    BY <1>1, <1>2, TwoTransactions DEF createDexProxy, setAdmin, ExchangeProxy
  <1>5. Good(s1) /\ Sent(s1) = { <<"push", dex>> }
    BY <1>3
  <1>6. Good(s2) /\ Sent(s2) = S2
    BY <1>3, GoodWhen
  <1>7. Good(s3) /\ Sent(s3) = ExchangeProxy(dex)
    BY <1>4
  <1>8. Good(s4) /\ Sent(s4) = S4
    BY <1>4, GoodWhen
  <1>9. exchange(c) = ((s1 \o s2) \o s3) \o s4
    BY DEF exchange
  <1> HIDE DEF s1, s2, s3, s4
  <1>10. Good(s1 \o s2) /\ Sent(s1 \o s2) = { <<"push", dex>> } \union S2
    <2>1. \A a \in S2, b \in { <<"push", dex>> } : ~First(a, b)
      BY DEF First
    <2> QED
      BY <1>5, <1>6, <2>1, GoodConcat
  <1>11. Good((s1 \o s2) \o s3) /\ Sent((s1 \o s2) \o s3) = { <<"push", dex>> } \union S2 \union ExchangeProxy(dex)
    <2>1. \A a \in ExchangeProxy(dex), b \in { <<"push", dex>> } \union S2 : ~First(a, b)
      BY DEF First, ExchangeProxy
    <2> QED
      BY <1>7, <1>10, <2>1, GoodConcat
  <1>12. /\ Good(((s1 \o s2) \o s3) \o s4)
         /\ Sent(((s1 \o s2) \o s3) \o s4) = { <<"push", dex>> } \union S2 \union ExchangeProxy(dex) \union S4
    <2>1. \A a \in S4, b \in { <<"push", dex>> } \union S2 \union ExchangeProxy(dex) : ~First(a, b)
      BY DEF First, ExchangeProxy
    <2> QED
      BY <1>8, <1>11, <2>1, GoodConcat
  <1>13. { <<"push", dex>> } \union S2 \union ExchangeProxy(dex) \union S4 =
            { <<"push", dex>> } \union ExchangeProxy(dex) \union
                  (IF c.deployFakes THEN { <<"push", fake>> } \union ExchangeProxy(fake) ELSE {})
    OBVIOUS
  <1> QED
    BY <1>9, <1>12, <1>13

\* The fee manager is given to the exchange.
LEMMA TransferFeeManager ==
    Good(transferFeeManager) /\ Sent(transferFeeManager) = { <<"transferOwnership", "CommissionManager">> }
  <1> DEFINE tx == <<"transferOwnership", "CommissionManager">>
  <1>1. tx \in Transactions
    BY DEF Transactions
  <1>2. ~First(tx, tx)
    BY DEF First
  <1> QED
    BY <1>1, <1>2, OneTransaction DEF transferFeeManager

\* One provider for each pair.
LEMMA PriceProviders ==
    Good(priceProviders) /\ Sent(priceProviders) = {<<"provider", pair>> : pair \in Range(tokenPairsToAdd)}
  <1> DEFINE actions == [i \in DOMAIN tokenPairsToAdd |-> <<"provider", tokenPairsToAdd[i]>>]
             P == {<<"provider", pair>> : pair \in Range(tokenPairsToAdd)}
  <1>1. DOMAIN tokenPairsToAdd = 1 .. 5
    BY DEF tokenPairsToAdd
  <1>2. \A i \in DOMAIN tokenPairsToAdd : tokenPairsToAdd[i] \in Range(tokenPairsToAdd)
    BY DEF Range
  <1>3. DOMAIN actions = 1 .. 5 /\ \A i \in 1 .. 5 : actions[i] = <<"provider", tokenPairsToAdd[i]>> /\ actions[i] \in P
    BY <1>1, <1>2
  <1>4. actions \in Seq(P)
    BY <1>1, <1>2
  <1>5. P \subseteq Transactions
    BY DEF Transactions
  <1>6. priceProviders = Sequentially(actions)
    BY DEF priceProviders, deployPriceProvider
  <1>7. Range(actions) = P
    <2>1. \A tx \in P : \E i \in 1 .. 5 : actions[i] = tx
      BY <1>1, <1>3 DEF Range
    <2> QED
      BY <1>3, <2>1 DEF Range
  <1>8. \A tx \in P : tx[1] = "provider"
    OBVIOUS
  <1> HIDE DEF actions, P
  <1>9. actions \in Seq(Transactions)
    BY <1>4, <1>5
  <1>10. \A i, j \in DOMAIN actions : ~First(actions[i], actions[j])
    BY <1>3, <1>8 DEF First
  <1>11. Good(priceProviders) /\ Sent(priceProviders) = P
    BY <1>6, <1>7, <1>9, <1>10, SequentiallyIs
  <1> QED
    BY <1>11 DEF P

\* The changer that adds the pairs, and its execution.
LEMMA AddTokenPairs ==
    /\ Good(addTokenPairs)
    /\ Sent(addTokenPairs) = {<<"deploy", "AddTokenPairChanger">>, <<"executeChange", "AddTokenPairChanger">>}
  <1> DEFINE a == <<"deploy", "AddTokenPairChanger">>
             b == <<"executeChange", "AddTokenPairChanger">>
  <1>1. a \in Transactions /\ b \in Transactions
    BY DEF Transactions, Contracts
  <1>2. ~First(a, a) /\ ~First(b, b) /\ ~First(b, a)
    BY DEF First
  <1> QED
    BY <1>1, <1>2, TwoTransactions DEF addTokenPairs, deploy

\* The contracts of the tests.
LEMMA Fakes ==
    /\ Good(fakes)
    /\ Sent(fakes) = {<<"deploy", "ERC20WithBlacklist">>, <<"deploy", "TickStateFake">>,
                      <<"initialize", "TickStateFake">>, <<"deploy", "MocStateFake">>}
  <1> DEFINE actions == <<deploy("ERC20WithBlacklist"), deploy("TickStateFake"),
                          <<"initialize", "TickStateFake">>, deploy("MocStateFake")>>
  <1>1. actions \in Seq(Transactions)
    BY DEF deploy, Transactions, Contracts
  <1>2. DOMAIN actions = 1 .. 4
    OBVIOUS
  <1>3. /\ actions[1] = <<"deploy", "ERC20WithBlacklist">> /\ actions[2] = <<"deploy", "TickStateFake">>
        /\ actions[3] = <<"initialize", "TickStateFake">> /\ actions[4] = <<"deploy", "MocStateFake">>
    BY DEF deploy
  <1>4. fakes = Sequentially(actions)
    BY DEF fakes
  <1> HIDE DEF actions
  <1>5. \A i, j \in DOMAIN actions : ~First(actions[i], actions[j])
    BY <1>2, <1>3 DEF First
  <1>6. Range(actions) = {actions[1], actions[2], actions[3], actions[4]}
    BY <1>2 DEF Range
  <1> QED
    BY <1>1, <1>3, <1>4, <1>5, <1>6, SequentiallyIs

-----------------------------------------------------------------------------
(* The mints: a sequence of the addresses, and the sequences of each flattened. *)

\* A finite set can be put in a sequence that has all of it.
LEMMA SetToSeqHasAll ==
    ASSUME NEW S, IsFiniteSet(S)
    PROVE  SetToSeq(S) \in Seq(S) /\ Range(SetToSeq(S)) = S
  <1> DEFINE n == Cardinality(S)
             s == SetToSeq(S)
  <1>1. n \in Nat /\ ExistsBijection(1 .. n, S)
    BY FS_CardinalityType
  <1>2. PICK f : f \in [1 .. n -> S] /\ IsInjective(f)
    BY <1>1 DEF ExistsBijection, Bijection, Injection
  <1>3. s \in [1 .. n -> S] /\ IsInjective(s)
    BY <1>2 DEF SetToSeq
  <1> HIDE DEF s
  <1>4. s \in Seq(S) /\ DOMAIN s = 1 .. n
    BY <1>1, <1>3
  <1>5. ASSUME NEW x \in S, x \notin Range(s)
        PROVE  FALSE
    <2>1. s \in Injection(1 .. n, S \ {x})
      BY <1>3, <1>4, <1>5 DEF Injection, Range, IsInjective
    <2>2. IsFiniteSet(S \ {x}) /\ Cardinality(S \ {x}) = n - 1
      BY FS_RemoveElement
    <2>3. Cardinality(1 .. n) <= n - 1
      BY <2>1, <2>2, FS_Injection
    <2>4. Cardinality(1 .. n) = IF 1 > n THEN 0 ELSE n - 1 + 1
      BY <1>1, FS_Interval
    <2> HIDE DEF n
    <2> QED
      BY <1>1, <2>3, <2>4
  <1>6. Range(s) \subseteq S
    BY <1>3 DEF Range
  <1> QED
    BY <1>4, <1>5, <1>6 DEF s

\* Sequences put one after the other.
LEMMA FlattenIs ==
    ASSUME NEW T, NEW seqs \in Seq(Seq(T))
    PROVE  /\ FlattenSeq(seqs) \in Seq(T)
           /\ \A x : x \in Range(FlattenSeq(seqs)) <=> \E i \in DOMAIN seqs : x \in Range(seqs[i])
  <1> DEFINE N == Len(seqs)
  <1>1. N \in Nat /\ DOMAIN seqs = 1 .. N /\ \A i \in 1 .. N : seqs[i] \in Seq(T)
    OBVIOUS
  <1>2. CASE N = 0
    <2>1. FlattenSeq(seqs) = seqs
      BY <1>2 DEF FlattenSeq
    <2>2. seqs = <<>>
      BY <1>2
    <2> QED
      BY <2>1, <2>2 DEF Range
  <1>3. CASE N # 0
    <2> DEFINE Eq(f) == f = [i \in 1 .. N |-> IF i = 1 THEN seqs[i] ELSE f[i - 1] \o seqs[i]]
               flatten == CHOOSE f : Eq(f)
               step == [x \in Nat \X Seq(T) |-> IF x[1] \in 1 .. N THEN x[2] \o seqs[x[1]] ELSE <<>>]
    <2>1. FlattenSeq(seqs) = flatten[N]
      BY <1>3 DEF FlattenSeq
    <2>2. PICK g \in [0 .. N -> Seq(T)] : Recurses(g, N, <<>>, step)
      <3>1. step \in [Nat \X Seq(T) -> Seq(T)] /\ <<>> \in Seq(T)
        BY <1>1
      <3> HIDE DEF step
      <3> QED
        BY <1>1, <3>1, RecursionExists
    <2>3. ASSUME NEW i \in 1 .. N
          PROVE  i - 1 \in 0 .. N /\ g[i - 1] \in Seq(T) /\ g[i] = g[i - 1] \o seqs[i]
      <3>1. i - 1 \in 0 .. N /\ i \in 0 .. N /\ i # 0 /\ i \in Nat
        BY <1>1
      <3>2. g[i - 1] \in Seq(T)
        BY <2>2, <3>1
      <3>3. g[i] = step[<<i, g[i - 1]>>]
        BY <2>2, <3>1 DEF Recurses
      <3>4. step[<<i, g[i - 1]>>] = g[i - 1] \o seqs[i]
        BY <3>1, <3>2
      <3> QED
        BY <3>1, <3>2, <3>3, <3>4
    <2>4. 0 \in 0 .. N /\ g[0] = <<>>
      <3>1. 0 \in 0 .. N
        BY <1>1
      <3>2. g[0] = IF 0 = 0 THEN <<>> ELSE step[<<0, g[0 - 1]>>]
        BY <2>2, <3>1 DEF Recurses
      <3> HIDE DEF step
      <3> QED
        BY <3>1, <3>2
    <2> DEFINE h == [i \in 1 .. N |-> g[i]]
    <2>5. Eq(h)
      <3>1. \A i \in 1 .. N : h[i] = IF i = 1 THEN seqs[i] ELSE h[i - 1] \o seqs[i]
        <4> SUFFICES ASSUME NEW i \in 1 .. N
                     PROVE  h[i] = IF i = 1 THEN seqs[i] ELSE h[i - 1] \o seqs[i]
          OBVIOUS
        <4>1. CASE i = 1
          <5>1. g[i - 1] = <<>>
            BY <2>4, <4>1
          <5>2. <<>> \o seqs[i] = seqs[i]
            BY <1>1
          <5> QED
            BY <2>3, <4>1, <5>1, <5>2
        <4>2. CASE i # 1
          <5>1. i - 1 \in 1 .. N
            BY <1>1, <4>2
          <5>2. h[i - 1] = g[i - 1]
            BY <5>1
          <5> QED
            BY <2>3, <4>2, <5>2
        <4> QED
          BY <4>1, <4>2
      <3>2. h = [i \in 1 .. N |-> h[i]]
        OBVIOUS
      <3> HIDE DEF h
      <3> QED
        BY <3>1, <3>2
    <2>6. Eq(flatten)
      BY <2>5
    <2> HIDE DEF flatten, h
    <2>7. \A i \in 1 .. N : flatten[i] = IF i = 1 THEN seqs[i] ELSE flatten[i - 1] \o seqs[i]
      BY <2>6
    <2> DEFINE S == {k \in Nat : k \in 1 .. N =>
                        /\ flatten[k] \in Seq(T)
                        /\ \A x : x \in Range(flatten[k]) <=> \E i \in 1 .. k : x \in Range(seqs[i])}
    <2>8. 0 \in S
      OBVIOUS
    <2>9. ASSUME NEW k \in Nat, k \in S
          PROVE  k + 1 \in S
      <3> SUFFICES ASSUME k + 1 \in 1 .. N
                   PROVE  /\ flatten[k + 1] \in Seq(T)
                          /\ \A x : x \in Range(flatten[k + 1]) <=> \E i \in 1 .. k + 1 : x \in Range(seqs[i])
        OBVIOUS
      <3>1. seqs[k + 1] \in Seq(T)
        BY <1>1
      <3>2. CASE k = 0
        <4>1. flatten[k + 1] = seqs[k + 1]
          BY <2>7, <3>2
        <4>2. \A i : i \in 1 .. k + 1 <=> i = k + 1
          BY <3>2
        <4>3. flatten[k + 1] \in Seq(T)
          BY <3>1, <4>1
        <4>4. ASSUME NEW x
              PROVE  x \in Range(flatten[k + 1]) <=> \E i \in 1 .. k + 1 : x \in Range(seqs[i])
          <5>1. (\E i \in 1 .. k + 1 : x \in Range(seqs[i])) <=> x \in Range(seqs[k + 1])
            BY <4>2
          <5> QED
            BY <4>1, <5>1
        <4> QED
          BY <4>3, <4>4
      <3>3. CASE k # 0
        <4>1. k \in 1 .. N /\ k + 1 # 1 /\ (k + 1) - 1 = k
          BY <1>1, <3>3
        <4>2. flatten[k + 1] = flatten[k] \o seqs[k + 1]
          BY <2>7, <4>1
        <4>3. flatten[k] \in Seq(T) /\ \A x : x \in Range(flatten[k]) <=> \E i \in 1 .. k : x \in Range(seqs[i])
          BY <2>9, <4>1
        <4> DEFINE a == flatten[k]
                   b == seqs[k + 1]
        <4>4. a \o b \in Seq(T) /\ \A x : x \in Range(a \o b) <=> x \in Range(a) \/ x \in Range(b)
          <5>1. a \in Seq(T) /\ b \in Seq(T)
            BY <3>1, <4>3
          <5> DEFINE c == a \o b
          <5> HIDE DEF a, b
          <5>2. /\ DOMAIN a = 1 .. Len(a) /\ DOMAIN b = 1 .. Len(b) /\ Len(a) \in Nat /\ Len(b) \in Nat
                /\ DOMAIN c = 1 .. Len(a) + Len(b) /\ c \in Seq(T)
                /\ \A i \in 1 .. Len(a) + Len(b) : c[i] = IF i <= Len(a) THEN a[i] ELSE b[i - Len(a)]
            BY <5>1
          <5> HIDE DEF c
          <5>3. \A i \in DOMAIN a : i \in DOMAIN c /\ c[i] = a[i]
            BY <5>2
          <5>4. ASSUME NEW i \in DOMAIN b
                PROVE  i + Len(a) \in DOMAIN c /\ c[i + Len(a)] = b[i]
            <6>1. i \in Nat /\ i + Len(a) \in 1 .. Len(a) + Len(b) /\ ~(i + Len(a) <= Len(a)) /\ (i + Len(a)) - Len(a) = i
              BY <5>2
            <6> QED
              BY <5>2, <6>1
          <5>5. ASSUME NEW i \in DOMAIN c
                PROVE  \/ i \in DOMAIN a /\ c[i] = a[i]
                       \/ i - Len(a) \in DOMAIN b /\ c[i] = b[i - Len(a)]
            BY <5>2
          <5>6. \A x : x \in Range(c) <=> x \in Range(a) \/ x \in Range(b)
            BY <5>3, <5>4, <5>5 DEF Range
          <5> QED
            BY <5>2, <5>6 DEF c
        <4>5. \A i : i \in 1 .. k + 1 <=> i \in 1 .. k \/ i = k + 1
          OBVIOUS
        <4> QED
          BY <4>2, <4>3, <4>4, <4>5
      <3> QED
        BY <3>2, <3>3
    <2> HIDE DEF S
    <2>10. N \in S
      BY <1>1, <2>8, <2>9, NaturalInduction
    <2>11. N \in 1 .. N
      BY <1>1, <1>3
    <2> QED
      BY <1>1, <2>1, <2>10, <2>11 DEF S
  <1> QED
    BY <1>2, <1>3

\* Three tokens for each address, in batches.
LEMMA MintForAll ==
    /\ Good(mintForAll)
    /\ Sent(mintForAll) = {<<"mint", token, a>> : token \in Tokens, a \in Addresses}
  <1> DEFINE addresses == SetToSeq(Addresses)
             mintFor(a) == << <<"mint", "BproToken", a>>, <<"mint", "DocToken", a>>, <<"mint", "TestToken", a>> >>
             seqs == [i \in DOMAIN addresses |-> mintFor(addresses[i])]
             actions == FlattenSeq(seqs)
             M == {<<"mint", token, a>> : token \in Tokens, a \in Addresses}
  <1>1. addresses \in Seq(Addresses) /\ Range(addresses) = Addresses
    BY DeploymentAssumption, SetToSeqHasAll
  <1>2. \A a \in Addresses : mintFor(a) \in Seq(M) /\ \A token \in Tokens : <<"mint", token, a>> \in Range(mintFor(a))
    <2> SUFFICES ASSUME NEW a \in Addresses
                 PROVE  mintFor(a) \in Seq(M) /\ \A token \in Tokens : <<"mint", token, a>> \in Range(mintFor(a))
      OBVIOUS
    <2>1. <<"mint", "BproToken", a>> \in M /\ <<"mint", "DocToken", a>> \in M /\ <<"mint", "TestToken", a>> \in M
      BY DEF Tokens
    <2>2. mintFor(a) \in Seq(M)
      BY <2>1
    <2>3. DOMAIN mintFor(a) = 1 .. 3
      OBVIOUS
    <2>4. Range(mintFor(a)) = { <<"mint", "BproToken", a>>, <<"mint", "DocToken", a>>, <<"mint", "TestToken", a>> }
      BY <2>3 DEF Range
    <2> QED
      BY <2>2, <2>4 DEF Tokens
  <1>20. \A a \in Addresses : \A token \in Tokens : <<"mint", token, a>> \in Range(mintFor(a))
    <2> HIDE DEF mintFor, M
    <2> QED
      BY <1>2
  <1>3. mintForAll = executeBatched(actions)
    BY DEF mintForAll
  <1> HIDE DEF addresses, mintFor
  <1>4. seqs \in Seq(Seq(M)) /\ DOMAIN seqs = DOMAIN addresses
    BY <1>1, <1>2
  <1>5. ASSUME NEW i \in DOMAIN seqs
        PROVE  addresses[i] \in Addresses /\ seqs[i] = mintFor(addresses[i])
    BY <1>1, <1>4
  <1> HIDE DEF seqs
  <1>6. actions \in Seq(M) /\ \A x : x \in Range(actions) <=> \E i \in DOMAIN seqs : x \in Range(seqs[i])
    <2> HIDE DEF M
    <2> QED
      BY <1>4, FlattenIs
  <1>7. ASSUME NEW token \in Tokens, NEW a \in Addresses
        PROVE  <<"mint", token, a>> \in Range(actions)
    <2>1. PICK i \in DOMAIN addresses : addresses[i] = a
      BY <1>1 DEF Range
    <2>3. <<"mint", token, a>> \in Range(mintFor(a))
      BY <1>20
    <2> QED
      BY <1>4, <1>5, <1>6, <2>1, <2>3
  <1> HIDE DEF actions
  <1>8. Range(actions) = M
    <2>1. Range(actions) \subseteq M
      <3> HIDE DEF M
      <3> QED
        BY <1>6 DEF Range
    <2>2. M \subseteq Range(actions)
      BY <1>7
    <2> QED
      BY <2>1, <2>2
  <1>9. M \subseteq Transactions /\ \A tx \in M : tx[1] = "mint"
    BY DEF Transactions
  <1> HIDE DEF M
  <1>10. actions \in Seq(Transactions) /\ \A i, j \in DOMAIN actions : ~First(actions[i], actions[j])
    BY <1>6, <1>9 DEF First
  <1>11. Good(mintForAll) /\ Sent(mintForAll) = M
    BY <1>3, <1>8, <1>10, BatchedIs
  <1> QED
    BY <1>11 DEF M

-----------------------------------------------------------------------------
(* The migration. *)

ConfigTypes ==
    [deployGovernance : BOOLEAN, haveToAddTokenPairs : BOOLEAN, existingTokens : BOOLEAN, deployFakes : BOOLEAN]

\* The configurations of the networks.
LEMMA ConfigIs == Range(Config) \subseteq ConfigTypes
  <1>1. DOMAIN Config = {"development", "coverage", "rskTestnet", "rskMainnet"}
    BY DEF Config
  <1>2. /\ Config.development \in ConfigTypes /\ Config.coverage \in ConfigTypes
        /\ Config.rskTestnet \in ConfigTypes /\ Config.rskMainnet \in ConfigTypes
    BY DEF Config, ConfigTypes
  <1> QED
    BY <1>1, <1>2 DEF Range

\* Nothing is missing from the script s of the configuration c.
Complete(c, s) ==
    /\ c.deployGovernance => /\ <<"initialize", "UpgradeDelegator">> \in Sent(s)
                             /\ <<"transferOwnership", "ProxyAdmin">> \in Sent(s)
                             /\ <<"create", "Governor">> \in Sent(s) /\ <<"create", "Stopper">> \in Sent(s)
    /\ ~c.deployGovernance => <<"create", "Governor">> \notin Sent(s) /\ <<"create", "Stopper">> \notin Sent(s)
    /\ <<"transferOwnership", "ProxyAdmin">> \in Sent(s) => <<"initialize", "UpgradeDelegator">> \in Sent(s)
    /\ <<"transferOwnership", "CommissionManager">> \in Sent(s)
    /\ \A p \in {"CommissionManager", "MoCDecentralizedExchange"} : <<"create", p>> \in Sent(s)
    /\ \A p \in Proxies : <<"create", p>> \in Sent(s) => <<"setAdmin", p>> \in Sent(s)
    /\ \A pair \in Range(tokenPairsToAdd) : <<"provider", pair>> \in Sent(s)
    /\ ~c.existingTokens => \A token \in Tokens, a \in Addresses : <<"mint", token, a>> \in Sent(s)

\* The whole migration, on every network: its batches are small enough and in order,
\* and nothing is missing.
LEMMA MigrationIs ==
    ASSUME NEW c \in ConfigTypes
    PROVE  Good(migration(c)) /\ Complete(c, migration(c))
  <1> DEFINE s1 == tokensAndLibraries(c)
             s2 == getGovernanceContracts(c)
             s3 == feeManager
             s4 == exchange(c)
             s5 == transferFeeManager
             s6 == priceProviders
             s7 == When(c.haveToAddTokenPairs, addTokenPairs)
             s8 == When(c.deployFakes, fakes)
             s9 == When(~c.existingTokens, mintForAll)
             u2 == s1 \o s2
             u3 == u2 \o s3
             u4 == u3 \o s4
             u5 == u4 \o s5
             u6 == u5 \o s6
             u7 == u6 \o s7
             u8 == u7 \o s8
             u9 == u8 \o s9
             Gov == {<<"push", "Governor">>, <<"push", "Stopper">>, <<"create", "Governor">>, <<"create", "Stopper">>,
                     <<"deploy", "ProxyAdmin">>, <<"deploy", "UpgradeDelegator">>, <<"initialize", "UpgradeDelegator">>,
                     <<"transferOwnership", "ProxyAdmin">>, <<"setAdmin", "Governor">>, <<"setAdmin", "Stopper">>}
             Fee == {<<"push", "CommissionManager">>, <<"create", "CommissionManager">>,
                     <<"setAdmin", "CommissionManager">>}
             Dex == {<<"push", "MoCDecentralizedExchange">>, <<"create", "MoCDecentralizedExchange">>,
                     <<"setAdmin", "MoCDecentralizedExchange">>}
             Fake == {<<"push", "MoCDexFake">>, <<"create", "MoCDexFake">>, <<"setAdmin", "MoCDexFake">>}
  <1>1. /\ c.deployGovernance \in BOOLEAN /\ c.haveToAddTokenPairs \in BOOLEAN
        /\ c.existingTokens \in BOOLEAN /\ (~c.existingTokens) \in BOOLEAN /\ c.deployFakes \in BOOLEAN
    BY DEF ConfigTypes
  <1>2. Good(s1) /\ \A b \in Sent(s1) : b[1] = "deploy"
    BY <1>1, TokensAndLibraries
  <1>3. Good(s2) /\ Sent(s2) = IF c.deployGovernance THEN Gov ELSE {}
    BY <1>1, GovernanceContracts, GoodWhen DEF getGovernanceContracts
  <1>4. Good(s3) /\ Sent(s3) = Fee
    BY FeeManager
  <1>5. Good(s4) /\ Sent(s4) = IF c.deployFakes THEN Dex \union Fake ELSE Dex
    <2>1. c.deployFakes \in BOOLEAN
      BY <1>1
    <2>2. /\ Good(exchange(c))
          /\ Sent(exchange(c)) =
                  { <<"push", "MoCDecentralizedExchange">> } \union ExchangeProxy("MoCDecentralizedExchange") \union
                  (IF c.deployFakes THEN { <<"push", "MoCDexFake">> } \union ExchangeProxy("MoCDexFake") ELSE {})
      BY <2>1, ExchangeIs
    <2>3. /\ Dex = { <<"push", "MoCDecentralizedExchange">> } \union ExchangeProxy("MoCDecentralizedExchange")
          /\ Fake = { <<"push", "MoCDexFake">> } \union ExchangeProxy("MoCDexFake")
      BY DEF ExchangeProxy
    <2> HIDE DEF Dex, Fake
    <2> QED
      BY <2>2, <2>3
  <1>6. Good(s5) /\ Sent(s5) = { <<"transferOwnership", "CommissionManager">> }
    BY TransferFeeManager
  <1>7. Good(s6) /\ Sent(s6) = {<<"provider", pair>> : pair \in Range(tokenPairsToAdd)}
    BY PriceProviders
  <1>8. /\ Good(s7)
        /\ Sent(s7) \subseteq {<<"deploy", "AddTokenPairChanger">>, <<"executeChange", "AddTokenPairChanger">>}
    <2>1. Sent(s7) = IF c.haveToAddTokenPairs THEN Sent(addTokenPairs) ELSE {}
      BY <1>1, AddTokenPairs, GoodWhen
    <2> QED
      BY <1>1, <2>1, AddTokenPairs, GoodWhen
  <1>9. /\ Good(s8)
        /\ Sent(s8) \subseteq {<<"deploy", "ERC20WithBlacklist">>, <<"deploy", "TickStateFake">>,
                               <<"initialize", "TickStateFake">>, <<"deploy", "MocStateFake">>}
    <2>1. Sent(s8) = IF c.deployFakes THEN Sent(fakes) ELSE {}
      BY <1>1, Fakes, GoodWhen
    <2> QED
      BY <1>1, <2>1, Fakes, GoodWhen
  <1>10. /\ Good(s9)
         /\ Sent(s9) = IF ~c.existingTokens THEN Sent(mintForAll) ELSE {}
    BY <1>1, MintForAll, GoodWhen
  <1>11. \A a \in Sent(mintForAll) : a[1] = "mint"
    BY MintForAll
  <1>12. migration(c) = u9
    BY DEF migration
  <1> HIDE DEF s1, s2, s3, s4, s5, s6, s7, s8, s9
  <1>13. Good(u2) /\ Sent(u2) = Sent(s1) \union Sent(s2)
    <2>1. \A a \in Sent(s2), b \in Sent(s1) : ~First(a, b)
      BY <1>2 DEF First
    <2> QED
      BY <1>2, <1>3, <2>1, GoodConcat
  <1> HIDE DEF u2
  <1>14. Good(u3) /\ Sent(u3) = Sent(u2) \union Sent(s3)
    <2>1. \A a \in Fee, b \in Sent(s1) \union Gov : ~First(a, b)
      BY <1>2 DEF First
    <2>2. \A a \in Sent(s3), b \in Sent(u2) : ~First(a, b)
      BY <1>3, <1>4, <1>13, <2>1
    <2> QED
      BY <1>4, <1>13, <2>2, GoodConcat
  <1> HIDE DEF u3
  <1>15. Good(u4) /\ Sent(u4) = Sent(u3) \union Sent(s4)
    <2>1. \A a \in Dex \union Fake, b \in Sent(s1) \union Gov \union Fee : ~First(a, b)
      BY <1>2 DEF First
    <2> HIDE DEF Dex, Fake, Gov, Fee
    <2>2. Sent(s4) \subseteq Dex \union Fake /\ Sent(u3) \subseteq Sent(s1) \union Gov \union Fee
      BY <1>3, <1>4, <1>5, <1>13, <1>14
    <2>3. \A a \in Sent(s4), b \in Sent(u3) : ~First(a, b)
      BY <2>1, <2>2
    <2> QED
      BY <1>5, <1>14, <2>3, GoodConcat
  <1> HIDE DEF u4
  <1> DEFINE Early == Sent(s1) \union Gov \union Fee \union Dex \union Fake
  <1>16. Sent(u4) \subseteq Early
    <2> HIDE DEF Dex, Fake, Gov, Fee
    <2> QED
      BY <1>3, <1>4, <1>5, <1>13, <1>14, <1>15
  <1>17. \A b \in Early : b[1] # "executeChange"
    BY <1>2
  <1> HIDE DEF Dex, Fake, Gov, Fee, Early
  \* Of the rest only the pairs come after anything else.
  <1>18. ASSUME NEW a, a[1] \notin {"create"}, a # <<"initialize", "UpgradeDelegator">>, NEW b, b[1] # "executeChange"
         PROVE  ~First(a, b)
    BY <1>18 DEF First
  <1>19. Good(u5) /\ Sent(u5) = Sent(u4) \union Sent(s5)
    <2>1. \A a \in Sent(s5) : a[1] # "create" /\ a # <<"initialize", "UpgradeDelegator">>
      BY <1>6
    <2>2. \A b \in Sent(u4) : b[1] # "executeChange"
      BY <1>16, <1>17
    <2>3. \A a \in Sent(s5), b \in Sent(u4) : ~First(a, b)
      BY <1>18, <2>1, <2>2
    <2> QED
      BY <1>6, <1>15, <2>3, GoodConcat
  <1> HIDE DEF u5
  <1>20. \A b \in Sent(u5) : b[1] # "executeChange"
    BY <1>6, <1>16, <1>17, <1>19
  <1>21. Good(u6) /\ Sent(u6) = Sent(u5) \union Sent(s6)
    <2>1. \A a \in Sent(s6) : a[1] = "provider"
      BY <1>7
    <2>2. \A a \in Sent(s6), b \in Sent(u5) : ~First(a, b)
      BY <1>20, <2>1 DEF First
    <2> QED
      BY <1>7, <1>19, <2>2, GoodConcat
  <1> HIDE DEF u6
  <1>22. \A b \in Sent(u6) : b[1] # "executeChange"
    BY <1>7, <1>20, <1>21
  <1>23. Good(u7) /\ Sent(u7) = Sent(u6) \union Sent(s7)
    <2>1. \A a \in Sent(s7), b \in Sent(u6) : ~First(a, b)
      BY <1>8, <1>22 DEF First
    <2> QED
      BY <1>8, <1>21, <2>1, GoodConcat
  <1> HIDE DEF u7
  \* The fakes and the mints come before nothing.
  <1>24. Good(u8) /\ Sent(u8) = Sent(u7) \union Sent(s8)
    <2>1. \A a \in Sent(s8), b \in Sent(u7) : ~First(a, b)
      BY <1>9 DEF First
    <2> QED
      BY <1>9, <1>23, <2>1, GoodConcat
  <1> HIDE DEF u8
  <1>25. Good(u9) /\ Sent(u9) = Sent(u8) \union Sent(s9)
    <2>1. \A a \in Sent(s9), b \in Sent(u8) : ~First(a, b)
      BY <1>10, <1>11 DEF First
    <2> QED
      BY <1>10, <1>24, <2>1, GoodConcat
  <1> HIDE DEF u9
  <1>26. Sent(u9) = Sent(s1) \union Sent(s2) \union Sent(s3) \union Sent(s4) \union Sent(s5) \union Sent(s6)
                    \union Sent(s7) \union Sent(s8) \union Sent(s9)
    BY <1>13, <1>14, <1>15, <1>19, <1>21, <1>23, <1>24, <1>25
  <1>27. \A p : <<"create", p>> \in Sent(u9) => <<"create", p>> \in Sent(s2) \union Sent(s3) \union Sent(s4)
    <2>1. \A p : /\ <<"create", p>> \notin Sent(s1) /\ <<"create", p>> \notin Sent(s5)
                 /\ <<"create", p>> \notin Sent(s6) /\ <<"create", p>> \notin Sent(s7)
                 /\ <<"create", p>> \notin Sent(s8) /\ <<"create", p>> \notin Sent(s9)
      BY <1>2, <1>6, <1>7, <1>8, <1>9, <1>10, <1>11
    <2> QED
      BY <1>26, <2>1
  <1>28. \A p \in Proxies : <<"create", p>> \in Sent(u9) => <<"setAdmin", p>> \in Sent(u9)
    BY <1>3, <1>4, <1>5, <1>26, <1>27 DEF Gov, Fee, Dex, Fake, Proxies
  <1>29. ~c.deployGovernance => <<"create", "Governor">> \notin Sent(u9) /\ <<"create", "Stopper">> \notin Sent(u9)
    BY <1>3, <1>4, <1>5, <1>27 DEF Fee, Dex, Fake
  <1>30. c.deployGovernance => /\ <<"initialize", "UpgradeDelegator">> \in Sent(u9)
                               /\ <<"transferOwnership", "ProxyAdmin">> \in Sent(u9)
                               /\ <<"create", "Governor">> \in Sent(u9) /\ <<"create", "Stopper">> \in Sent(u9)
    BY <1>3, <1>26 DEF Gov
  <1>31. <<"transferOwnership", "ProxyAdmin">> \in Sent(u9) => c.deployGovernance
    <2>1. LET tx == <<"transferOwnership", "ProxyAdmin">>
          IN  /\ tx \notin Sent(s1) /\ tx \notin Sent(s3) /\ tx \notin Sent(s4) /\ tx \notin Sent(s5)
              /\ tx \notin Sent(s6) /\ tx \notin Sent(s7) /\ tx \notin Sent(s8) /\ tx \notin Sent(s9)
      BY <1>2, <1>4, <1>5, <1>6, <1>7, <1>8, <1>9, <1>10, <1>11 DEF Fee, Dex, Fake
    <2> QED
      BY <1>1, <1>3, <1>26, <2>1
  <1>32. <<"transferOwnership", "CommissionManager">> \in Sent(u9)
    BY <1>6, <1>26
  <1>33. \A p \in {"CommissionManager", "MoCDecentralizedExchange"} : <<"create", p>> \in Sent(u9)
    BY <1>4, <1>5, <1>26 DEF Fee, Dex
  <1>34. \A pair \in Range(tokenPairsToAdd) : <<"provider", pair>> \in Sent(u9)
    BY <1>7, <1>26
  <1>35. ~c.existingTokens => \A token \in Tokens, a \in Addresses : <<"mint", token, a>> \in Sent(u9)
    <2>1. \A token \in Tokens, a \in Addresses : <<"mint", token, a>> \in Sent(mintForAll)
      BY MintForAll
    <2> QED
      BY <1>10, <1>26, <2>1
  <1> QED
    BY <1>12, <1>25, <1>28, <1>29, <1>30, <1>31, <1>32, <1>33, <1>34, <1>35 DEF Complete

-----------------------------------------------------------------------------
(* The inductive invariant: where the script is in the migration, and what *)
(* it has done up to there.                                                *)

Chains ==
    [contracts : SUBSET (Contracts \union Proxies), implementations : SUBSET Proxies,
     adminOf : [Proxies -> {"nobody", "deployer", "ProxyAdmin"}], adminOwner : {"deployer", "UpgradeDelegator"},
     ownerOf : [Governing -> {"nobody", "deployer", "network"}],
     delegatorReady : BOOLEAN, feeManagerOwner : {"deployer", "MoCDecentralizedExchange"},
     providers : SUBSET Range(tokenPairsToAdd), listed : SUBSET Range(tokenPairsToAdd),
     minted : SUBSET (Tokens \X Addresses)]

\* What a transaction leaves on the chain.
HasEffect(tx, ch) ==
    /\ tx[1] = "create" /\ tx[2] \in Governing => ch.ownerOf[tx[2]] = "deployer"
    /\ tx[1] = "setAdmin" => ch.adminOf[tx[2]] = "ProxyAdmin"
    /\ tx = <<"transferOwnership", "ProxyAdmin">> => ch.adminOwner = "UpgradeDelegator"
    /\ tx = <<"transferOwnership", "CommissionManager">> => ch.feeManagerOwner = "MoCDecentralizedExchange"
    /\ tx = <<"initialize", "UpgradeDelegator">> => ch.delegatorReady
    /\ tx[1] = "provider" => tx[2] \in ch.providers
    /\ tx[1] = "mint" => <<tx[2], tx[3]>> \in ch.minted

\* n batches of m are sent; the last of them may be pending, in whole or in part.
At(m, n) ==
    /\ n \in 0 .. Len(m)
    /\ script \in Seq(SUBSET Transactions)
    /\ Len(script) = Len(m) - n
    /\ \A k \in 1 .. Len(script) : script[k] = m[n + k]
    /\ pending # {} => n # 0 /\ pending \subseteq m[n]
    /\ \A i \in 1 .. n : \A tx \in m[i] :
           i < n \/ (status # "stopped" /\ tx \notin pending) => HasEffect(tx, chain)
    /\ chain.listed # {} => \E i \in 1 .. n : <<"executeChange", "AddTokenPairChanger">> \in m[i]
    /\ status = "done" => n = Len(m) /\ pending = {}

\* Proxies are created by the script, or were there and governed.
Created(m) ==
    \A p \in Proxies \cap chain.contracts :
        \/ <<"create", p>> \in Sent(m)
        \/ ~config.deployGovernance /\ p \in {"Governor", "Stopper"} /\ chain.adminOf[p] = "ProxyAdmin"

\* A ProxyAdmin is given to a delegator that is initialized.
Ruled(owner, ready) == owner \in {"deployer", "UpgradeDelegator"} /\ (owner = "UpgradeDelegator" => ready)

IInv ==
    /\ config \in Range(Config)
    /\ status \in {"running", "stopped", "done"}
    /\ trouble \in 0 .. MaxTrouble
    /\ chain \in Chains
    /\ \E n \in Nat : At(migration(config), n)
    /\ Created(migration(config))
    /\ Ruled(chain.adminOwner, chain.delegatorReady)
    /\ ~config.deployGovernance => /\ chain.adminOwner = "UpgradeDelegator"
                                   /\ \A g \in Governing : chain.ownerOf[g] = "network"
    /\ chain.listed # {} => chain.ownerOf["Governor"] = "deployer"
    /\ \A rule \in past : Ruled(rule.owner, rule.ready)

\* What a run starts from.
LEMMA FreshIs ==
    ASSUME NEW c \in ConfigTypes
    PROVE  /\ Fresh(c) \in Chains
           /\ Fresh(c).listed = {}
           /\ Ruled(Fresh(c).adminOwner, Fresh(c).delegatorReady)
           /\ ~c.deployGovernance => /\ Fresh(c).adminOwner = "UpgradeDelegator"
                                     /\ \A g \in Governing : Fresh(c).ownerOf[g] = "network"
           /\ \A p \in Proxies \cap Fresh(c).contracts :
                  ~c.deployGovernance /\ p \in {"Governor", "Stopper"} /\ Fresh(c).adminOf[p] = "ProxyAdmin"
  <1>1. c.deployGovernance \in BOOLEAN /\ c.existingTokens \in BOOLEAN
    BY DEF ConfigTypes
  <1> DEFINE C == (IF c.existingTokens THEN {"BproToken", "WRBTC", "DocToken", "TestToken"} ELSE {}) \union
                  (IF c.deployGovernance THEN {} ELSE {"Governor", "Stopper", "ProxyAdmin", "UpgradeDelegator"})
             A == [p \in Proxies |-> IF ~c.deployGovernance /\ p \in {"Governor", "Stopper"} THEN "ProxyAdmin" ELSE "nobody"]
             O == IF c.deployGovernance THEN "deployer" ELSE "UpgradeDelegator"
             G == [g \in Governing |-> IF c.deployGovernance THEN "nobody" ELSE "network"]
  <1>2. C \in SUBSET (Contracts \union Proxies)
    BY DEF Contracts, Proxies
  <1>3. A \in [Proxies -> {"nobody", "deployer", "ProxyAdmin"}]
    OBVIOUS
  <1>4. O \in {"deployer", "UpgradeDelegator"}
    OBVIOUS
  <1>5. \A p \in Proxies \cap C : ~c.deployGovernance /\ p \in {"Governor", "Stopper"} /\ A[p] = "ProxyAdmin"
    BY DEF Proxies
  <1>6. Ruled(O, ~c.deployGovernance) /\ (~c.deployGovernance => O = "UpgradeDelegator")
    BY <1>1 DEF Ruled
  <1>7. Fresh(c) = [contracts |-> C, implementations |-> {}, adminOf |-> A, ownerOf |-> G, adminOwner |-> O,
                    delegatorReady |-> ~c.deployGovernance, feeManagerOwner |-> "deployer", providers |-> {},
                    listed |-> {}, minted |-> {}]
    BY DEF Fresh, Governing
  <1>11. G \in [Governing -> {"nobody", "deployer", "network"}] /\ (~c.deployGovernance => \A g \in Governing : G[g] = "network")
    BY <1>1
  <1>8. (~c.deployGovernance) \in BOOLEAN
    OBVIOUS
  <1> HIDE DEF C, A, O, G
  <1>9. /\ Fresh(c).contracts = C /\ Fresh(c).adminOf = A /\ Fresh(c).adminOwner = O
        /\ Fresh(c).ownerOf = G
        /\ Fresh(c).delegatorReady = ~c.deployGovernance /\ Fresh(c).listed = {}
    BY <1>7
  <1>10. Fresh(c) \in Chains
    BY <1>2, <1>3, <1>4, <1>7, <1>8, <1>11 DEF Chains
  <1> QED
    BY <1>5, <1>6, <1>9, <1>10, <1>11

\* A run that starts is before the first batch.
LEMMA StartsAt ==
    ASSUME NEW c \in ConfigTypes, script = migration(c), pending = {}, status = "running", chain = Fresh(c)
    PROVE  \E n \in Nat : At(migration(c), n)
  <1>1. migration(c) \in Seq(SUBSET Transactions)
    BY MigrationIs DEF Good
  <1>2. chain.listed = {}
    BY FreshIs
  <1>3. At(migration(c), 0)
    BY <1>1, <1>2 DEF At
  <1> QED
    BY <1>3

\* The first run is before its first batch.
LEMMA InitIInv == Init => IInv
  <1> SUFFICES ASSUME Init PROVE IInv
    OBVIOUS
  <1>1. config \in Range(Config) /\ config \in ConfigTypes
    <2>1. PICK n \in Networks : config = Config[n]
      BY DEF Init
    <2>2. n \in DOMAIN Config
      BY DeploymentAssumption
    <2>3. config \in Range(Config)
      BY <2>1, <2>2 DEF Range
    <2> QED
      BY <2>3, ConfigIs
  <1>2. \E n \in Nat : At(migration(config), n)
    BY <1>1, StartsAt DEF Init
  <1>3. chain = Fresh(config) /\ status = "running" /\ past = {} /\ trouble = 0
    BY DEF Init
  <1>4. 0 \in 0 .. MaxTrouble
    BY DeploymentAssumption
  <1>5. Created(migration(config))
    BY <1>1, <1>3, FreshIs DEF Created
  <1> QED
    BY <1>1, <1>2, <1>3, <1>4, <1>5, FreshIs DEF IInv

-----------------------------------------------------------------------------
(* The steps. *)

\* The script sends its next batch.
LEMMA SendBatchKeepsIInv == IInv /\ SendBatch => IInv'
  <1> SUFFICES ASSUME IInv, SendBatch PROVE IInv'
    OBVIOUS
  <1> DEFINE m == migration(config)
  <1>1. PICK n \in Nat : At(m, n)
    BY DEF IInv
  <1>2. Good(m)
    BY ConfigIs, MigrationIs DEF IInv
  <1> HIDE DEF m
  <1>3. /\ m \in Seq(SUBSET Transactions) /\ Len(m) \in Nat
        /\ n \in 0 .. Len(m) /\ script \in Seq(SUBSET Transactions) /\ Len(script) = Len(m) - n
        /\ \A k \in 1 .. Len(script) : script[k] = m[n + k]
        /\ pending = {} /\ status = "running" /\ script # <<>>
        /\ UNCHANGED <<config, status, chain, past, trouble>>
        /\ pending' = Head(script) /\ script' = Tail(script)
    BY <1>1, <1>2 DEF At, SendBatch, Good
  <1>4. Len(script) # 0
    BY <1>3
  <1>5. /\ script' \in Seq(SUBSET Transactions) /\ Len(script') = Len(script) - 1
        /\ \A k \in 1 .. Len(script') : script'[k] = script[k + 1]
        /\ pending' = script[1]
    BY <1>3, <1>4
  <1>6. pending' = m[n + 1] /\ n + 1 \in 0 .. Len(m) /\ Len(script') = Len(m) - (n + 1)
    BY <1>3, <1>4, <1>5
  <1>7. \A k \in 1 .. Len(script') : script'[k] = m[(n + 1) + k]
    <2> SUFFICES ASSUME NEW k \in 1 .. Len(script') PROVE script'[k] = m[(n + 1) + k]
      OBVIOUS
    <2>1. k + 1 \in 1 .. Len(script) /\ n + (k + 1) = (n + 1) + k
      BY <1>3, <1>4, <1>5
    <2>2. script[k + 1] = m[n + (k + 1)]
      BY <1>3, <2>1
    <2> QED
      BY <1>5, <2>1, <2>2
  <1>8. ASSUME NEW i \in 1 .. n + 1, NEW tx \in m[i], i < n + 1 \/ tx \notin m[n + 1]
        PROVE  HasEffect(tx, chain)
    <2>1. i \in 1 .. n
      BY <1>8
    <2> QED
      BY <1>1, <1>3, <2>1 DEF At
  <1>9. chain.listed # {} => \E i \in 1 .. n + 1 : <<"executeChange", "AddTokenPairChanger">> \in m[i]
    <2>1. \A i \in 1 .. n : i \in 1 .. n + 1
      OBVIOUS
    <2> QED
      BY <1>1, <2>1 DEF At
  <1>10. At(m, n + 1)'
    <2>1. m' = m
      BY <1>3 DEF m
    <2>2. /\ \A i \in 1 .. n + 1 : \A tx \in m[i] :
                 i < n + 1 \/ (status' # "stopped" /\ tx \notin pending') => HasEffect(tx, chain')
      BY <1>3, <1>6, <1>8
    <2> QED
      BY <1>3, <1>5, <1>6, <1>7, <1>9, <2>1, <2>2 DEF At
  <1> QED
    BY <1>3, <1>10 DEF IInv, Created, m

\* The script ends.
LEMMA FinishKeepsIInv == IInv /\ Finish => IInv'
  <1> SUFFICES ASSUME IInv, Finish PROVE IInv'
    OBVIOUS
  <1> DEFINE m == migration(config)
  <1>1. PICK n \in Nat : At(m, n)
    BY DEF IInv
  <1>2. Good(m)
    BY ConfigIs, MigrationIs DEF IInv
  <1> HIDE DEF m
  <1>3. /\ pending = {} /\ script = <<>> /\ status = "running" /\ status' = "done"
        /\ UNCHANGED <<config, script, pending, chain, past, trouble>>
    BY DEF Finish
  <1>4. n = Len(m)
    BY <1>1, <1>2, <1>3 DEF At, Good
  <1>5. At(m, n)'
    <2>1. m' = m
      BY <1>3 DEF m
    <2> QED
      BY <1>1, <1>3, <1>4, <2>1 DEF At
  <1> QED
    BY <1>3, <1>5 DEF IInv, Created, m

\* The script stops, and what is pending stays pending, perhaps without one transaction.
LEMMA StopKeepsIInv ==
    ASSUME IInv, status' = "stopped", pending' \subseteq pending, trouble' \in 0 .. MaxTrouble,
           UNCHANGED <<config, script, chain, past>>
    PROVE  IInv'
  <1> DEFINE m == migration(config)
  <1>1. PICK n \in Nat : At(m, n)
    BY DEF IInv
  <1> HIDE DEF m
  <1>2. m' = m
    BY DEF m
  <1>3. At(m, n)'
    BY <1>1, <1>2 DEF At
  <1> QED
    BY <1>3 DEF IInv, Created, m

\* A transaction of the pending batch fails or is lost.
LEMMA FailKeepsIInv == IInv /\ Fail => IInv'
  <1> SUFFICES ASSUME IInv, Fail PROVE IInv'
    OBVIOUS
  <1>1. trouble \in 0 .. MaxTrouble /\ MaxTrouble \in Nat
    BY DeploymentAssumption DEF IInv
  <1>2. PICK tx \in pending :
            /\ IF Accepts(tx) THEN trouble < MaxTrouble /\ trouble' = trouble + 1 ELSE trouble' = trouble
            /\ pending' = pending \ {tx}
            /\ status' = "stopped"
            /\ UNCHANGED <<config, script, chain, past>>
    BY DEF Fail
  <1>3. trouble' \in 0 .. MaxTrouble
    <2>1. (trouble < MaxTrouble /\ trouble' = trouble + 1) \/ trouble' = trouble
      BY <1>2
    <2> QED
      BY <1>1, <2>1
  <1> QED
    BY <1>2, <1>3, StopKeepsIInv

\* The process of the script ends.
LEMMA InterruptKeepsIInv == IInv /\ Interrupt => IInv'
  <1> SUFFICES ASSUME IInv, Interrupt PROVE IInv'
    OBVIOUS
  <1>1. trouble \in 0 .. MaxTrouble /\ MaxTrouble \in Nat
    BY DeploymentAssumption DEF IInv
  <1>2. trouble' \in 0 .. MaxTrouble
    BY <1>1 DEF Interrupt
  <1> QED
    BY <1>2, StopKeepsIInv DEF Interrupt

\* The next run starts from the beginning.
LEMMA RerunKeepsIInv == IInv /\ Rerun => IInv'
  <1> SUFFICES ASSUME IInv, Rerun PROVE IInv'
    OBVIOUS
  <1>1. /\ config' = config /\ pending = {} /\ pending' = {} /\ status' = "running" /\ trouble' = trouble
        /\ script' = migration(config) /\ chain' = Fresh(config) /\ past' = past \union {Rule}
    BY DEF Rerun
  <1>2. config \in ConfigTypes
    BY ConfigIs DEF IInv
  <1>3. chain'.listed = {} /\ chain' \in Chains
    BY <1>1, <1>2, FreshIs
  <1>4. At(migration(config), 0)'
    <2>1. migration(config)' = migration(config)
      BY <1>1
    <2>2. migration(config) \in Seq(SUBSET Transactions)
      BY <1>2, MigrationIs DEF Good
    <2> QED
      BY <1>1, <1>3, <2>1, <2>2 DEF At
  <1>5. \A rule \in past' : Ruled(rule.owner, rule.ready)
    <2>1. Ruled(Rule.owner, Rule.ready)
      BY DEF Rule, IInv
    <2> QED
      BY <1>1, <2>1 DEF IInv
  <1>6. Created(migration(config))'
    <2>1. \A p \in Proxies \cap Fresh(config).contracts :
              ~config.deployGovernance /\ p \in {"Governor", "Stopper"} /\ Fresh(config).adminOf[p] = "ProxyAdmin"
      BY <1>2, FreshIs
    <2> QED
      BY <1>1, <2>1 DEF Created
  <1>7. /\ Ruled(chain'.adminOwner, chain'.delegatorReady)
        /\ ~config'.deployGovernance => /\ chain'.adminOwner = "UpgradeDelegator"
                                        /\ \A g \in Governing : chain'.ownerOf[g] = "network"
    BY <1>1, <1>2, FreshIs
  <1>8. (\E n \in Nat : At(migration(config), n))'
    BY <1>4
  <1> QED
    BY <1>1, <1>3, <1>5, <1>6, <1>7, <1>8 DEF IInv

\* ch is the chain after the transaction tx: it has its effect, and of the others
\* only that of the setAdmin of a proxy that is created again may be lost.
Follows(tx, ch) ==
    /\ ch \in Chains
    /\ HasEffect(tx, ch)
    /\ \A other \in Transactions :
           HasEffect(other, chain) => HasEffect(other, ch) \/ (tx[1] = "create" /\ other = <<"setAdmin", tx[2]>>)
    /\ ch.listed = chain.listed \/ tx = <<"executeChange", "AddTokenPairChanger">>
    /\ \A p \in Proxies : p \in ch.contracts => p \in chain.contracts \/ tx = <<"create", p>>
    /\ \A p \in Proxies : chain.adminOf[p] = "ProxyAdmin" => ch.adminOf[p] = "ProxyAdmin" \/ tx = <<"create", p>>
    /\ ch.adminOwner = chain.adminOwner \/ tx = <<"transferOwnership", "ProxyAdmin">>
    /\ chain.adminOwner = "UpgradeDelegator" => ch.adminOwner = "UpgradeDelegator"
    /\ chain.delegatorReady => ch.delegatorReady
    /\ \A g \in Governing : ch.ownerOf[g] = chain.ownerOf[g] \/ tx = <<"create", g>>

\* A transaction of the pending batch is mined.
LEMMA MinedKeepsIInv ==
    ASSUME IInv, NEW tx \in pending, Mined(tx), Follows(tx, chain')
    PROVE  IInv'
  <1> DEFINE m == migration(config)
  <1>1. PICK n \in Nat : At(m, n)
    BY DEF IInv
  <1>2. Good(m) /\ Complete(config, m)
    BY ConfigIs, MigrationIs DEF IInv
  <1> HIDE DEF m
  <1>3. pending' = pending \ {tx} /\ UNCHANGED <<config, script, status, past, trouble>>
    BY DEF Mined
  <1>4. n \in 1 .. Len(m) /\ DOMAIN m = 1 .. Len(m) /\ Len(m) \in Nat /\ tx \in m[n] /\ status # "done"
    BY <1>1, <1>2 DEF At, Good
  <1>5. \A i \in DOMAIN m : m[i] \subseteq Transactions
    BY <1>2 DEF Good
  <1>6. tx \in Transactions /\ tx \in Sent(m)
    BY <1>4, <1>5 DEF Sent
  \* What comes before tx has been done.
  <1>7. ASSUME NEW a \in Sent(m), First(a, tx)
        PROVE  HasEffect(a, chain)
    <2>1. PICK i \in DOMAIN m : a \in m[i]
      BY DEF Sent
    <2>2. i < n
      BY <1>2, <1>4, <1>7, <2>1 DEF Good
    <2> QED
      BY <1>1, <1>4, <2>1, <2>2 DEF At
  \* What was done is done.
  <1>8. ASSUME NEW i \in 1 .. n, NEW other \in m[i], i < n \/ (status' # "stopped" /\ other \notin pending')
        PROVE  HasEffect(other, chain')
    <2>1. CASE other = tx
      BY <2>1 DEF Follows
    <2>2. CASE other # tx
      <3>1. i < n \/ (status # "stopped" /\ other \notin pending)
        BY <1>3, <1>8, <2>2
      <3>2. HasEffect(other, chain)
        BY <1>1, <3>1 DEF At
      <3>3. i \in DOMAIN m /\ n \in DOMAIN m /\ ~(n < i)
        BY <1>4
      <3>4. ~(tx[1] = "create" /\ other = <<"setAdmin", tx[2]>>)
        <4> SUFFICES ASSUME tx[1] = "create", other = <<"setAdmin", tx[2]>>
                     PROVE  FALSE
          OBVIOUS
        <4>1. First(tx, other)
          BY DEF First
        <4> QED
          BY <1>2, <1>4, <3>3, <4>1 DEF Good
      <3>5. other \in Transactions
        BY <1>5, <3>3
      <3> QED
        BY <3>2, <3>4, <3>5 DEF Follows
    <2> QED
      BY <2>1, <2>2
  <1>9. chain'.listed # {} => \E i \in 1 .. n : <<"executeChange", "AddTokenPairChanger">> \in m[i]
    <2>1. CASE tx = <<"executeChange", "AddTokenPairChanger">>
      <3>1. n \in 1 .. n
        BY <1>4
      <3> QED
        BY <1>4, <2>1, <3>1
    <2>2. CASE tx # <<"executeChange", "AddTokenPairChanger">>
      <3>1. chain'.listed = chain.listed
        BY <2>2 DEF Follows
      <3>2. chain.listed # {} => \E i \in 1 .. n : <<"executeChange", "AddTokenPairChanger">> \in m[i]
        BY <1>1 DEF At
      <3> QED
        BY <3>1, <3>2
    <2> QED
      BY <2>1, <2>2
  <1>10. At(m, n)'
    <2>1. m' = m
      BY <1>3 DEF m
    <2>2. \A i \in 1 .. n : \A other \in m[i] :
              i < n \/ (status' # "stopped" /\ other \notin pending') => HasEffect(other, chain')
      BY <1>8
    <2>3. pending' # {} => n # 0 /\ pending' \subseteq m[n]
      BY <1>1, <1>3, <1>4 DEF At
    <2> QED
      BY <1>1, <1>3, <1>4, <1>9, <2>1, <2>2, <2>3 DEF At
  <1>11. Created(m)'
    <2>1. m' = m
      BY <1>3 DEF m
    <2>2. ASSUME NEW p \in Proxies, p \in chain'.contracts
          PROVE  \/ <<"create", p>> \in Sent(m)
                 \/ ~config.deployGovernance /\ p \in {"Governor", "Stopper"} /\ chain'.adminOf[p] = "ProxyAdmin"
      <3>1. CASE tx = <<"create", p>>
        BY <1>6, <3>1
      <3>2. CASE tx # <<"create", p>>
        <4>1. p \in chain.contracts
          BY <2>2, <3>2 DEF Follows
        <4>2. \/ <<"create", p>> \in Sent(m)
              \/ ~config.deployGovernance /\ p \in {"Governor", "Stopper"} /\ chain.adminOf[p] = "ProxyAdmin"
          BY <4>1 DEF IInv, Created, m
        <4>3. chain.adminOf[p] = "ProxyAdmin" => chain'.adminOf[p] = "ProxyAdmin"
          BY <3>2 DEF Follows
        <4> QED
          BY <4>2, <4>3
      <3> QED
        BY <3>1, <3>2
    <2> QED
      BY <1>3, <2>1, <2>2 DEF Created
  <1>12. Ruled(chain'.adminOwner, chain'.delegatorReady)
    <2>1. Ruled(chain.adminOwner, chain.delegatorReady) /\ chain' \in Chains
      BY DEF IInv, Follows
    <2>2. chain'.adminOwner \in {"deployer", "UpgradeDelegator"}
      BY <2>1 DEF Chains
    <2>3. CASE tx = <<"transferOwnership", "ProxyAdmin">>
      <3>1. <<"initialize", "UpgradeDelegator">> \in Sent(m) /\ First(<<"initialize", "UpgradeDelegator">>, tx)
        BY <1>2, <1>6, <2>3 DEF Complete, First
      <3>2. chain.delegatorReady
        BY <1>7, <3>1 DEF HasEffect
      <3> QED
        BY <2>2, <3>2 DEF Ruled, Follows
    <2>4. CASE tx # <<"transferOwnership", "ProxyAdmin">>
      BY <2>1, <2>4 DEF Ruled, Follows
    <2> QED
      BY <2>3, <2>4
  <1>13. chain' \in Chains /\ (chain.adminOwner = "UpgradeDelegator" => chain'.adminOwner = "UpgradeDelegator")
    BY DEF Follows
  <1>14. ASSUME ~config.deployGovernance, NEW g \in Governing
         PROVE  chain'.ownerOf[g] = "network"
    <2>1. <<"create", g>> \notin Sent(m)
      BY <1>2, <1>14 DEF Complete, Governing
    <2>2. chain'.ownerOf[g] = chain.ownerOf[g]
      BY <1>6, <2>1 DEF Follows
    <2> QED
      BY <1>14, <2>2 DEF IInv
  <1>15. chain'.listed # {} => chain'.ownerOf["Governor"] = "deployer"
    <2>1. "Governor" \in Governing
      BY DEF Governing
    <2>2. CASE tx = <<"create", "Governor">>
      BY <2>1, <2>2 DEF Follows, HasEffect
    <2>3. CASE tx # <<"create", "Governor">>
      <3>1. chain'.ownerOf["Governor"] = chain.ownerOf["Governor"]
        BY <2>1, <2>3 DEF Follows
      <3>2. CASE tx = <<"executeChange", "AddTokenPairChanger">>
        BY <3>1, <3>2 DEF Mined, Accepts
      <3>3. CASE tx # <<"executeChange", "AddTokenPairChanger">>
        BY <3>1, <3>3 DEF Follows, IInv
      <3> QED
        BY <3>2, <3>3
    <2> QED
      BY <2>2, <2>3
  <1> QED
    BY <1>3, <1>10, <1>11, <1>12, <1>13, <1>14, <1>15 DEF IInv, m

\* What transactions are, by their kinds.
LEMMA KindsAre ==
    ASSUME NEW tx \in Transactions
    PROVE  /\ tx[1] = "deploy" => tx[2] \in Contracts /\ tx = <<"deploy", tx[2]>>
           /\ tx[1] = "push" => tx[2] \in Proxies /\ tx = <<"push", tx[2]>>
           /\ tx[1] = "create" => tx[2] \in Proxies /\ tx = <<"create", tx[2]>>
           /\ tx[1] = "setAdmin" => tx[2] \in Proxies /\ tx = <<"setAdmin", tx[2]>>
           /\ tx[1] = "initialize" => tx = <<"initialize", tx[2]>>
           /\ tx[1] = "provider" => tx[2] \in Range(tokenPairsToAdd) /\ tx = <<"provider", tx[2]>>
           /\ tx[1] = "executeChange" => tx = <<"executeChange", "AddTokenPairChanger">>
           /\ tx[1] = "mint" => tx[2] \in Tokens /\ tx[3] \in Addresses
  BY DEF Transactions

\* A transaction that changes nothing of what a property of the script is about.
LEMMA FollowsQuietly ==
    ASSUME chain \in Chains, NEW tx, NEW ch \in Chains, HasEffect(tx, ch),
           ch.adminOf = chain.adminOf, ch.ownerOf = chain.ownerOf, ch.adminOwner = chain.adminOwner, ch.listed = chain.listed,
           \A p \in Proxies : p \in ch.contracts => p \in chain.contracts,
           chain.delegatorReady => ch.delegatorReady,
           chain.feeManagerOwner = "MoCDecentralizedExchange" => ch.feeManagerOwner = "MoCDecentralizedExchange",
           chain.providers \subseteq ch.providers, chain.minted \subseteq ch.minted
    PROVE  Follows(tx, ch)
  <1>1. \A other \in Transactions : HasEffect(other, chain) => HasEffect(other, ch)
    BY DEF HasEffect
  <1> QED
    BY <1>1 DEF Follows

\* What each kind of transaction does: a contract is deployed.
LEMMA DeployFollows ==
    ASSUME chain \in Chains, NEW tx \in Transactions, MineDeploy(tx)
    PROVE  Follows(tx, chain')
  <1>1. tx[1] = "deploy" /\ tx[2] \in Contracts /\ chain' = [chain EXCEPT !.contracts = @ \union {tx[2]}]
    BY KindsAre DEF MineDeploy
  <1>2. chain' \in Chains /\ chain'.contracts = chain.contracts \union {tx[2]}
    BY <1>1 DEF Chains
  <1>3. /\ chain'.adminOf = chain.adminOf /\ chain'.ownerOf = chain.ownerOf
        /\ chain'.adminOwner = chain.adminOwner /\ chain'.listed = chain.listed
        /\ chain'.delegatorReady = chain.delegatorReady /\ chain'.feeManagerOwner = chain.feeManagerOwner
        /\ chain'.providers = chain.providers /\ chain'.minted = chain.minted
    BY <1>1 DEF Chains
  <1>4. \A p \in Proxies : p \in chain'.contracts => p \in chain.contracts
    BY <1>1, <1>2 DEF Proxies, Contracts
  <1>5. HasEffect(tx, chain')
    BY <1>1 DEF HasEffect
  <1> QED
    BY <1>2, <1>3, <1>4, <1>5, FollowsQuietly

\* An implementation is pushed.
LEMMA PushFollows ==
    ASSUME chain \in Chains, NEW tx \in Transactions, MinePush(tx)
    PROVE  Follows(tx, chain')
  <1>1. tx[1] = "push" /\ tx[2] \in Proxies /\ chain' = [chain EXCEPT !.implementations = @ \union {tx[2]}]
    BY KindsAre DEF MinePush
  <1>2. chain' \in Chains
    BY <1>1 DEF Chains
  <1>3. /\ chain'.adminOf = chain.adminOf /\ chain'.ownerOf = chain.ownerOf
        /\ chain'.adminOwner = chain.adminOwner /\ chain'.listed = chain.listed
        /\ chain'.delegatorReady = chain.delegatorReady /\ chain'.feeManagerOwner = chain.feeManagerOwner
        /\ chain'.providers = chain.providers /\ chain'.minted = chain.minted /\ chain'.contracts = chain.contracts
    BY <1>1 DEF Chains
  <1>4. HasEffect(tx, chain')
    BY <1>1 DEF HasEffect
  <1> QED
    BY <1>2, <1>3, <1>4, FollowsQuietly

\* A proxy is created: its admin is the deployer, whatever it was before.
LEMMA CreateFollows ==
    ASSUME chain \in Chains, NEW tx \in Transactions, MineCreate(tx)
    PROVE  Follows(tx, chain')
  <1> DEFINE p == tx[2]
             admins == [chain.adminOf EXCEPT ![p] = "deployer"]
             owners == [g \in Governing |-> IF g = p THEN "deployer" ELSE chain.ownerOf[g]]
             C == chain.contracts \union {p}
  <1>1. /\ tx[1] = "create" /\ p \in Proxies /\ tx = <<"create", p>>
        /\ chain' = [chain EXCEPT !.contracts = C, !.adminOf = admins, !.ownerOf = owners]
    BY KindsAre DEF MineCreate, Chains
  <1>2. /\ admins \in [Proxies -> {"nobody", "deployer", "ProxyAdmin"}] /\ \A q \in Proxies : q # p => admins[q] = chain.adminOf[q]
        /\ owners \in [Governing -> {"nobody", "deployer", "network"}]
        /\ \A g \in Governing : owners[g] = "deployer" \/ owners[g] = chain.ownerOf[g]
        /\ \A g \in Governing : g # p => owners[g] = chain.ownerOf[g]
        /\ p \in Governing => owners[p] = "deployer"
        /\ C \in SUBSET (Contracts \union Proxies)
    BY <1>1 DEF Chains
  <1>3. C = chain.contracts \union {p}
    OBVIOUS
  <1> HIDE DEF p, admins, owners, C
  <1>4. chain' \in Chains /\ chain'.adminOf = admins /\ chain'.ownerOf = owners /\ chain'.contracts = C
    BY <1>1, <1>2 DEF Chains
  <1>5. /\ chain'.adminOwner = chain.adminOwner /\ chain'.listed = chain.listed
        /\ chain'.delegatorReady = chain.delegatorReady /\ chain'.feeManagerOwner = chain.feeManagerOwner
        /\ chain'.providers = chain.providers /\ chain'.minted = chain.minted
    BY <1>1 DEF Chains
  <1>6. HasEffect(tx, chain')
    BY <1>1, <1>2, <1>4 DEF HasEffect
  <1>7. ASSUME NEW other \in Transactions, HasEffect(other, chain), other # <<"setAdmin", p>>
        PROVE  HasEffect(other, chain')
    <2>1. other[1] = "setAdmin" => chain'.adminOf[other[2]] = "ProxyAdmin"
      BY <1>2, <1>4, <1>7, KindsAre DEF HasEffect
    <2>2. other[1] = "create" /\ other[2] \in Governing => chain'.ownerOf[other[2]] = "deployer"
      BY <1>2, <1>4, <1>7 DEF HasEffect
    <2> QED
      BY <1>5, <1>7, <2>1, <2>2 DEF HasEffect
  <1>8. \A q \in Proxies : q \in chain'.contracts => q \in chain.contracts \/ tx = <<"create", q>>
    BY <1>1, <1>3, <1>4
  <1>9. \A q \in Proxies : chain.adminOf[q] = "ProxyAdmin" => chain'.adminOf[q] = "ProxyAdmin" \/ tx = <<"create", q>>
    BY <1>1, <1>2, <1>4
  <1>10. \A other \in Transactions :
            HasEffect(other, chain) => HasEffect(other, chain') \/ (tx[1] = "create" /\ other = <<"setAdmin", tx[2]>>)
    BY <1>1, <1>7 DEF p
  <1>11. \A g \in Governing : chain'.ownerOf[g] = chain.ownerOf[g] \/ tx = <<"create", g>>
    BY <1>1, <1>2, <1>4
  <1> QED
    BY <1>4, <1>5, <1>6, <1>8, <1>9, <1>10, <1>11 DEF Follows

\* A proxy gets its admin.
LEMMA SetAdminFollows ==
    ASSUME chain \in Chains, NEW tx \in Transactions, MineSetAdmin(tx)
    PROVE  Follows(tx, chain')
  <1> DEFINE p == tx[2]
             admins == [chain.adminOf EXCEPT ![p] = "ProxyAdmin"]
  <1>1. tx[1] = "setAdmin" /\ p \in Proxies /\ chain' = [chain EXCEPT !.adminOf[p] = "ProxyAdmin"]
    BY KindsAre DEF MineSetAdmin
  <1>2. chain' = [chain EXCEPT !.adminOf = admins]
    BY <1>1 DEF Chains
  <1>3. /\ admins \in [Proxies -> {"nobody", "deployer", "ProxyAdmin"}] /\ admins[p] = "ProxyAdmin"
        /\ \A q \in Proxies : chain.adminOf[q] = "ProxyAdmin" => admins[q] = "ProxyAdmin"
    BY <1>1 DEF Chains
  <1> HIDE DEF admins
  <1>4. chain' \in Chains /\ chain'.adminOf = admins
    BY <1>2, <1>3 DEF Chains
  <1>5. /\ chain'.ownerOf = chain.ownerOf
        /\ chain'.adminOwner = chain.adminOwner /\ chain'.listed = chain.listed /\ chain'.contracts = chain.contracts
        /\ chain'.delegatorReady = chain.delegatorReady /\ chain'.feeManagerOwner = chain.feeManagerOwner
        /\ chain'.providers = chain.providers /\ chain'.minted = chain.minted
    BY <1>2 DEF Chains
  <1>6. HasEffect(tx, chain')
    BY <1>1, <1>3, <1>4 DEF HasEffect
  <1>7. ASSUME NEW other \in Transactions, HasEffect(other, chain)
        PROVE  HasEffect(other, chain')
    <2>1. other[1] = "setAdmin" => chain'.adminOf[other[2]] = "ProxyAdmin"
      BY <1>3, <1>4, <1>7, KindsAre DEF HasEffect
    <2> QED
      BY <1>5, <1>7, <2>1 DEF HasEffect
  <1> QED
    BY <1>3, <1>4, <1>5, <1>6, <1>7 DEF Follows

\* A contract is initialized.
LEMMA InitializeFollows ==
    ASSUME chain \in Chains, NEW tx \in Transactions, MineInitialize(tx)
    PROVE  Follows(tx, chain')
  <1> DEFINE ready == chain.delegatorReady \/ tx[2] = "UpgradeDelegator"
  <1>1. tx[1] = "initialize" /\ chain' = [chain EXCEPT !.delegatorReady = ready]
    BY DEF MineInitialize
  <1>2. ready \in BOOLEAN /\ (chain.delegatorReady => ready) /\ (tx[2] = "UpgradeDelegator" => ready)
    BY DEF Chains
  <1> HIDE DEF ready
  <1>3. chain' \in Chains /\ chain'.delegatorReady = ready
    BY <1>1, <1>2 DEF Chains
  <1>4. /\ chain'.adminOf = chain.adminOf /\ chain'.ownerOf = chain.ownerOf
        /\ chain'.adminOwner = chain.adminOwner /\ chain'.listed = chain.listed
        /\ chain'.feeManagerOwner = chain.feeManagerOwner /\ chain'.contracts = chain.contracts
        /\ chain'.providers = chain.providers /\ chain'.minted = chain.minted
    BY <1>1 DEF Chains
  <1>5. HasEffect(tx, chain')
    BY <1>1, <1>2, <1>3 DEF HasEffect
  <1> QED
    BY <1>2, <1>3, <1>4, <1>5, FollowsQuietly

\* The delegator gets the ProxyAdmin.
LEMMA TransferProxyAdminFollows ==
    ASSUME chain \in Chains, NEW tx \in Transactions, MineTransferProxyAdmin(tx)
    PROVE  Follows(tx, chain')
  <1>1. tx = <<"transferOwnership", "ProxyAdmin">> /\ chain' = [chain EXCEPT !.adminOwner = "UpgradeDelegator"]
    BY DEF MineTransferProxyAdmin
  <1>2. chain' \in Chains /\ chain'.adminOwner = "UpgradeDelegator"
    BY <1>1 DEF Chains
  <1>3. /\ chain'.adminOf = chain.adminOf /\ chain'.ownerOf = chain.ownerOf
        /\ chain'.listed = chain.listed /\ chain'.delegatorReady = chain.delegatorReady
        /\ chain'.feeManagerOwner = chain.feeManagerOwner /\ chain'.contracts = chain.contracts
        /\ chain'.providers = chain.providers /\ chain'.minted = chain.minted
    BY <1>1 DEF Chains
  <1>4. HasEffect(tx, chain')
    BY <1>1, <1>2 DEF HasEffect
  <1>5. \A other \in Transactions : HasEffect(other, chain) => HasEffect(other, chain')
    BY <1>2, <1>3 DEF HasEffect
  <1> QED
    BY <1>1, <1>2, <1>3, <1>4, <1>5 DEF Follows

\* The exchange gets the fee manager.
LEMMA TransferFeeManagerFollows ==
    ASSUME chain \in Chains, NEW tx \in Transactions, MineTransferFeeManager(tx)
    PROVE  Follows(tx, chain')
  <1>1. /\ tx = <<"transferOwnership", "CommissionManager">>
        /\ chain' = [chain EXCEPT !.feeManagerOwner = "MoCDecentralizedExchange"]
    BY DEF MineTransferFeeManager
  <1>2. chain' \in Chains /\ chain'.feeManagerOwner = "MoCDecentralizedExchange"
    BY <1>1 DEF Chains
  <1>3. /\ chain'.adminOf = chain.adminOf /\ chain'.ownerOf = chain.ownerOf
        /\ chain'.adminOwner = chain.adminOwner /\ chain'.listed = chain.listed
        /\ chain'.delegatorReady = chain.delegatorReady /\ chain'.contracts = chain.contracts
        /\ chain'.providers = chain.providers /\ chain'.minted = chain.minted
    BY <1>1 DEF Chains
  <1>4. HasEffect(tx, chain')
    BY <1>1, <1>2 DEF HasEffect
  <1> QED
    BY <1>2, <1>3, <1>4, FollowsQuietly

\* A price provider is deployed.
LEMMA PriceProviderFollows ==
    ASSUME chain \in Chains, NEW tx \in Transactions, MinePriceProvider(tx)
    PROVE  Follows(tx, chain')
  <1>1. /\ tx[1] = "provider" /\ tx[2] \in Range(tokenPairsToAdd)
        /\ chain' = [chain EXCEPT !.providers = @ \union {tx[2]}]
    BY KindsAre DEF MinePriceProvider
  <1>2. chain' \in Chains /\ chain'.providers = chain.providers \union {tx[2]}
    BY <1>1 DEF Chains
  <1>3. /\ chain'.adminOf = chain.adminOf /\ chain'.ownerOf = chain.ownerOf
        /\ chain'.adminOwner = chain.adminOwner /\ chain'.listed = chain.listed
        /\ chain'.delegatorReady = chain.delegatorReady /\ chain'.feeManagerOwner = chain.feeManagerOwner
        /\ chain'.contracts = chain.contracts /\ chain'.minted = chain.minted
    BY <1>1 DEF Chains
  <1>4. HasEffect(tx, chain')
    BY <1>1, <1>2 DEF HasEffect
  <1> QED
    BY <1>2, <1>3, <1>4, FollowsQuietly

\* The pairs are added.
LEMMA AddTokenPairsFollows ==
    ASSUME chain \in Chains, NEW tx \in Transactions, MineAddTokenPairs(tx)
    PROVE  Follows(tx, chain')
  <1>1. /\ tx = <<"executeChange", "AddTokenPairChanger">>
        /\ chain' = [chain EXCEPT !.listed = Range(tokenPairsToAdd)]
    BY KindsAre DEF MineAddTokenPairs
  <1>2. chain' \in Chains
    BY <1>1 DEF Chains
  <1>3. /\ chain'.adminOf = chain.adminOf /\ chain'.ownerOf = chain.ownerOf
        /\ chain'.adminOwner = chain.adminOwner
        /\ chain'.delegatorReady = chain.delegatorReady /\ chain'.feeManagerOwner = chain.feeManagerOwner
        /\ chain'.contracts = chain.contracts /\ chain'.providers = chain.providers /\ chain'.minted = chain.minted
    BY <1>1 DEF Chains
  <1>4. HasEffect(tx, chain')
    BY <1>1 DEF HasEffect
  <1>5. \A other \in Transactions : HasEffect(other, chain) => HasEffect(other, chain')
    BY <1>3 DEF HasEffect
  <1> QED
    BY <1>1, <1>2, <1>3, <1>4, <1>5 DEF Follows

\* Tokens are minted.
LEMMA MintFollows ==
    ASSUME chain \in Chains, NEW tx \in Transactions, MineMint(tx)
    PROVE  Follows(tx, chain')
  <1>1. /\ tx[1] = "mint" /\ tx[2] \in Tokens /\ tx[3] \in Addresses
        /\ chain' = [chain EXCEPT !.minted = @ \union {<<tx[2], tx[3]>>}]
    BY KindsAre DEF MineMint
  <1>2. chain' \in Chains /\ chain'.minted = chain.minted \union {<<tx[2], tx[3]>>}
    BY <1>1 DEF Chains
  <1>3. /\ chain'.adminOf = chain.adminOf /\ chain'.ownerOf = chain.ownerOf
        /\ chain'.adminOwner = chain.adminOwner /\ chain'.listed = chain.listed
        /\ chain'.delegatorReady = chain.delegatorReady /\ chain'.feeManagerOwner = chain.feeManagerOwner
        /\ chain'.contracts = chain.contracts /\ chain'.providers = chain.providers
    BY <1>1 DEF Chains
  <1>4. HasEffect(tx, chain')
    BY <1>1, <1>2 DEF HasEffect
  <1> QED
    BY <1>2, <1>3, <1>4, FollowsQuietly

\* Any transaction is mined.
LEMMA MineKeepsIInv == IInv /\ Mine => IInv'
  <1> SUFFICES ASSUME IInv, NEW tx \in pending,
                      \/ MineDeploy(tx) \/ MinePush(tx) \/ MineCreate(tx) \/ MineSetAdmin(tx) \/ MineInitialize(tx)
                      \/ MineTransferProxyAdmin(tx) \/ MineTransferFeeManager(tx) \/ MinePriceProvider(tx)
                      \/ MineAddTokenPairs(tx) \/ MineMint(tx)
               PROVE  IInv'
    BY DEF Mine
  <1>1. Mined(tx)
    BY DEF MineDeploy, MinePush, MineCreate, MineSetAdmin, MineInitialize, MineTransferProxyAdmin,
           MineTransferFeeManager, MinePriceProvider, MineAddTokenPairs, MineMint
  <1>2. chain \in Chains
    BY DEF IInv
  <1>3. tx \in Transactions
    <2> DEFINE m == migration(config)
    <2>1. PICK n \in Nat : At(m, n)
      BY DEF IInv
    <2>2. Good(m)
      BY ConfigIs, MigrationIs DEF IInv
    <2> HIDE DEF m
    <2>3. n \in 1 .. Len(m) /\ DOMAIN m = 1 .. Len(m) /\ tx \in m[n]
      BY <2>1, <2>2 DEF At, Good
    <2>4. m[n] \in SUBSET Transactions
      BY <2>2, <2>3 DEF Good
    <2> QED
      BY <2>3, <2>4
  <1>4. Follows(tx, chain')
    BY <1>2, <1>3, DeployFollows, PushFollows, CreateFollows, SetAdminFollows, InitializeFollows,
       TransferProxyAdminFollows, TransferFeeManagerFollows, PriceProviderFollows, AddTokenPairsFollows, MintFollows
  <1> QED
    BY <1>1, <1>4, MinedKeepsIInv

\* Every step keeps the invariant.
LEMMA NextIInv == IInv /\ [Next]_vars => IInv'
  <1> SUFFICES ASSUME IInv, [Next]_vars PROVE IInv'
    OBVIOUS
  <1>1. CASE SendBatch
    BY <1>1, SendBatchKeepsIInv
  <1>2. CASE Finish
    BY <1>2, FinishKeepsIInv
  <1>3. CASE Mine
    BY <1>3, MineKeepsIInv
  <1>4. CASE Fail
    BY <1>4, FailKeepsIInv
  <1>5. CASE Interrupt
    BY <1>5, InterruptKeepsIInv
  <1>6. CASE Rerun
    BY <1>6, RerunKeepsIInv
  <1>7. CASE UNCHANGED vars
    BY <1>7 DEF IInv, At, Created, vars
  <1> QED
    BY <1>1, <1>2, <1>3, <1>4, <1>5, <1>6, <1>7 DEF Next, Done

\* So it holds always.
LEMMA Inductive == Spec => []IInv
  BY InitIInv, NextIInv, PTL DEF Spec

-----------------------------------------------------------------------------
(* The theorems. *)

\* Where the script is, and what holds of the migration it follows.
LEMMA Position ==
    ASSUME IInv
    PROVE  /\ config \in ConfigTypes /\ Good(migration(config)) /\ Complete(config, migration(config))
           /\ \E n \in Nat : At(migration(config), n)
  BY ConfigIs, MigrationIs DEF IInv

\* What is pending is part of a batch.
LEMMA PendingIsPart ==
    ASSUME IInv
    PROVE  IsFiniteSet(pending) /\ Cardinality(pending) <= MAX_PENDING_TXS
  <1> DEFINE m == migration(config)
  <1>1. PICK n \in Nat : At(m, n)
    BY Position
  <1>2. Good(m)
    BY Position
  <1> HIDE DEF m
  <1>3. CASE pending = {}
    <2>1. 0 <= MAX_PENDING_TXS
      BY DeploymentAssumption
    <2> QED
      BY <1>3, <2>1, FS_EmptySet
  <1>4. CASE pending # {}
    <2>1. n \in DOMAIN m /\ pending \subseteq m[n]
      BY <1>1, <1>2, <1>4 DEF At, Good
    <2>2. IsFiniteSet(m[n]) /\ Cardinality(m[n]) <= MAX_PENDING_TXS
      BY <1>2, <2>1 DEF Good
    <2>3. IsFiniteSet(pending) /\ Cardinality(pending) <= Cardinality(m[n])
      BY <2>1, <2>2, FS_Subset
    <2>4. Cardinality(pending) \in Nat /\ Cardinality(m[n]) \in Nat /\ MAX_PENDING_TXS \in Nat
      BY <2>2, <2>3, FS_CardinalityType, DeploymentAssumption
    <2> QED
      BY <2>2, <2>3, <2>4
  <1> QED
    BY <1>3, <1>4

\* All variables keep their types: whatever fails, a run never has an empty batch to
\* send, nor more pairs than those it adds.
THEOREM DeploymentTypeCorrect == Spec => []TypeOK
  <1>1. IInv => TypeOK
    <2> SUFFICES ASSUME IInv PROVE TypeOK
      OBVIOUS
    <2> DEFINE m == migration(config)
    <2>1. PICK n \in Nat : At(m, n)
      BY Position
    <2>2. Good(m)
      BY Position
    <2> HIDE DEF m
    <2>3. ASSUME NEW i \in DOMAIN script
          PROVE  script[i] # {} /\ IsFiniteSet(script[i])
      <3>1. i \in 1 .. Len(script) /\ script[i] = m[n + i] /\ n + i \in DOMAIN m
        BY <2>1, <2>2 DEF At, Good
      <3> QED
        BY <2>2, <3>1 DEF Good
    <2>4. /\ chain.adminOf \in [Proxies -> {"nobody", "deployer", "ProxyAdmin"}]
          /\ chain.ownerOf \in [Governing -> {"nobody", "deployer", "network"}]
          /\ chain.adminOwner \in {"deployer", "UpgradeDelegator"}
          /\ chain.feeManagerOwner \in {"deployer", "MoCDecentralizedExchange"}
          /\ chain.listed \union chain.providers \subseteq Range(tokenPairsToAdd)
      BY DEF IInv, Chains
    <2> QED
      BY <2>3, <2>4 DEF IInv, TypeOK
  <1> QED
    BY <1>1, Inductive, PTL

\* However many addresses and whatever the bound of a node is, executeBatched never has
\* more transactions in flight than the bound, over any number of runs and failures.
THEOREM PendingStaysBounded == Spec => []PendingIsBounded
  <1>1. IInv => PendingIsBounded
    BY PendingIsPart DEF PendingIsBounded
  <1> QED
    BY <1>1, Inductive, PTL

\* Wherever any number of runs stop, no proxy is left without somebody who can
\* upgrade it: a ProxyAdmin is only given to a delegator that is initialized.
THEOREM ProxiesStayUpgradeable == Spec => []SomeoneCanUpgrade
  <1>1. IInv => SomeoneCanUpgrade
    <2> SUFFICES ASSUME IInv, NEW rule \in past \union {Rule}
                 PROVE  rule.owner = "deployer" \/ (rule.owner = "UpgradeDelegator" /\ rule.ready)
      BY DEF SomeoneCanUpgrade
    <2>1. Ruled(Rule.owner, Rule.ready)
      BY DEF Rule, IInv
    <2>2. Ruled(rule.owner, rule.ready)
      BY <2>1 DEF IInv
    <2> QED
      BY <2>2 DEF Ruled
  <1> QED
    BY <1>1, Inductive, PTL

\* What the script sent before the change that lists the pairs is done when they are
\* listed.
LEMMA ListedComesLast ==
    ASSUME IInv, chain.listed # {}, NEW tx \in Sent(migration(config)),
           tx[1] \in {"create", "setAdmin", "transferOwnership", "provider"}
    PROVE  HasEffect(tx, chain)
  <1> DEFINE m == migration(config)
             last == <<"executeChange", "AddTokenPairChanger">>
  <1>1. PICK n \in Nat : At(m, n)
    BY Position
  <1>2. Good(m)
    BY Position
  <1>3. tx \in Sent(m)
    OBVIOUS
  <1> HIDE DEF m
  <1>4. PICK j \in 1 .. n : last \in m[j]
    BY <1>1 DEF At
  <1>5. PICK i \in DOMAIN m : tx \in m[i]
    BY <1>3 DEF Sent
  <1>6. First(tx, last)
    BY DEF First
  <1>7. DOMAIN m = 1 .. Len(m) /\ Len(m) \in Nat /\ n \in 0 .. Len(m)
    BY <1>1, <1>2 DEF At, Good
  <1>8. j \in DOMAIN m
    BY <1>7
  <1>9. i < j
    BY <1>2, <1>4, <1>5, <1>6, <1>8 DEF Good
  <1>10. i \in 1 .. n /\ i < n
    BY <1>7, <1>9
  <1> QED
    BY <1>1, <1>5, <1>10 DEF At

\* Who owns the ProxyAdmin when the transfer to the delegator, if there is one, is done.
LEMMA DelegatorOwns ==
    ASSUME IInv,
           <<"transferOwnership", "ProxyAdmin">> \in Sent(migration(config)) =>
               HasEffect(<<"transferOwnership", "ProxyAdmin">>, chain)
    PROVE  chain.adminOwner = "UpgradeDelegator" /\ chain.delegatorReady
  <1>1. config.deployGovernance \in BOOLEAN
    BY Position DEF ConfigTypes
  <1>2. chain.adminOwner = "UpgradeDelegator"
    <2>1. CASE config.deployGovernance
      BY <2>1, Position DEF Complete, HasEffect
    <2>2. CASE ~config.deployGovernance
      BY <2>2 DEF IInv
    <2> QED
      BY <2>1, <2>2
  <1> QED
    BY <1>2 DEF IInv, Ruled

\* Who owns the Governor and the Stopper when their proxies, if the script creates them,
\* are created.
LEMMA GovernanceIsOwned ==
    ASSUME IInv, NEW g \in Governing,
           <<"create", g>> \in Sent(migration(config)) => HasEffect(<<"create", g>>, chain)
    PROVE  /\ config.deployGovernance => chain.ownerOf[g] = "deployer"
           /\ ~config.deployGovernance => chain.ownerOf[g] = "network"
  <1>1. config.deployGovernance => <<"create", g>> \in Sent(migration(config))
    BY Position DEF Complete, Governing
  <1>2. config.deployGovernance => chain.ownerOf[g] = "deployer"
    BY <1>1 DEF HasEffect
  <1> QED
    BY <1>2 DEF IInv

\* In any run on any network, and with any order of the transactions of a batch: users
\* find pairs to trade only when commissions can be charged, every pair has its
\* provider and the code is replaced only through the Governor, for the deployer that
\* owns it.
THEOREM TradingIsGoverned == Spec => []GovernedBeforeTrading
  <1>1. IInv => GovernedBeforeTrading
    <2> SUFFICES ASSUME IInv, chain.listed # {}
                 PROVE  /\ chain.feeManagerOwner = "MoCDecentralizedExchange"
                        /\ chain.listed \subseteq chain.providers
                        /\ \A p \in {"CommissionManager", "MoCDecentralizedExchange"} : Governed(p)
                        /\ chain.ownerOf["Governor"] = "deployer"
      BY DEF GovernedBeforeTrading
    <2> DEFINE m == migration(config)
    <2>1. Complete(config, m)
      BY Position
    <2>2. \A tx \in Sent(m) : tx[1] \in {"create", "setAdmin", "transferOwnership", "provider"} => HasEffect(tx, chain)
      BY ListedComesLast
    <2> HIDE DEF m
    <2>3. chain.feeManagerOwner = "MoCDecentralizedExchange"
      <3>1. HasEffect(<<"transferOwnership", "CommissionManager">>, chain)
        BY <2>1, <2>2 DEF Complete
      <3> QED
        BY <3>1 DEF HasEffect
    <2>4. chain.listed \subseteq chain.providers
      <3>1. ASSUME NEW pair \in Range(tokenPairsToAdd)
            PROVE  pair \in chain.providers
        <4>1. HasEffect(<<"provider", pair>>, chain)
          BY <2>1, <2>2 DEF Complete
        <4> QED
          BY <4>1 DEF HasEffect
      <3>2. chain.listed \subseteq Range(tokenPairsToAdd)
        BY DEF IInv, Chains
      <3> QED
        BY <3>1, <3>2
    <2>5. chain.adminOwner = "UpgradeDelegator" /\ chain.delegatorReady
      BY <2>2, DelegatorOwns DEF m
    <2>6. ASSUME NEW p \in {"CommissionManager", "MoCDecentralizedExchange"}
          PROVE  chain.adminOf[p] = "ProxyAdmin"
      <3>1. <<"setAdmin", p>> \in Sent(m)
        BY <2>1 DEF Complete, Proxies
      <3>2. HasEffect(<<"setAdmin", p>>, chain)
        BY <2>2, <3>1
      <3> QED
        BY <3>2 DEF HasEffect
    <2>7. chain.ownerOf["Governor"] = "deployer"
      BY DEF IInv
    <2> QED
      BY <2>3, <2>4, <2>5, <2>6, <2>7 DEF Governed
  <1> QED
    BY <1>1, Inductive, PTL

\* Three tokens.
LEMMA ThreeTokens == IsFiniteSet(Tokens) /\ Cardinality(Tokens) = 3
  <1> DEFINE A == {"BproToken"}
             B == A \union {"DocToken"}
             C == B \union {"TestToken"}
  <1>1. IsFiniteSet(A) /\ Cardinality(A) = 1
    BY FS_Singleton
  <1>2. IsFiniteSet(B) /\ Cardinality(B) = 1 + 1
    <2>1. "DocToken" \notin A
      OBVIOUS
    <2> HIDE DEF A
    <2> QED
      BY <1>1, <2>1, FS_AddElement
  <1>3. IsFiniteSet(C) /\ Cardinality(C) = 1 + 1 + 1
    <2>1. "TestToken" \notin B
      OBVIOUS
    <2> HIDE DEF B
    <2> QED
      BY <1>2, <2>1, FS_AddElement
  <1>4. Tokens = C
    BY DEF Tokens
  <1> HIDE DEF C
  <1> QED
    BY <1>3, <1>4

\* A run that ends, on any network and after any number of failed runs, leaves to the
\* deployer the Governor and the Stopper, if it deployed them, and nothing else: what
\* rules each proxy is the Governor.
THEOREM OnlyGovernanceIsLeft == Spec => []DeployerKeepsOnlyGovernance
  <1>1. IInv => DeployerKeepsOnlyGovernance
    <2> SUFFICES ASSUME IInv, status = "done"
                 PROVE  /\ \A p \in Proxies \cap chain.contracts : Governed(p)
                        /\ chain.feeManagerOwner = "MoCDecentralizedExchange"
                        /\ \A g \in Governing :
                               chain.ownerOf[g] = (IF config.deployGovernance THEN "deployer" ELSE "network")
                        /\ config.existingTokens \/ Cardinality(chain.minted) = 3 * Cardinality(Addresses)
      BY DEF DeployerKeepsOnlyGovernance
    <2> DEFINE m == migration(config)
    <2>1. PICK n \in Nat : At(m, n)
      BY Position
    <2>2. Complete(config, m) /\ Good(m) /\ Created(m)
      BY Position DEF IInv
    <2>3. \A p \in Proxies \cap chain.contracts :
              <<"create", p>> \in Sent(m) \/ chain.adminOf[p] = "ProxyAdmin"
      BY <2>2 DEF Created
    <2> HIDE DEF m
    <2>4. ASSUME NEW tx \in Sent(m)
          PROVE  HasEffect(tx, chain)
      <3>1. n = Len(m) /\ pending = {} /\ DOMAIN m = 1 .. Len(m)
        BY <2>1, <2>2 DEF At, Good
      <3>2. PICK i \in DOMAIN m : tx \in m[i]
        BY DEF Sent
      <3> QED
        BY <2>1, <3>1, <3>2 DEF At
    <2>5. chain.adminOwner = "UpgradeDelegator" /\ chain.delegatorReady
      BY <2>4, DelegatorOwns DEF m
    <2>9. ASSUME NEW g \in Governing
          PROVE  chain.ownerOf[g] = (IF config.deployGovernance THEN "deployer" ELSE "network")
      BY <2>4, GovernanceIsOwned DEF m
    <2>10. chain.ownerOf["Governor"] # "nobody"
      BY <2>9 DEF Governing
    <2>6. ASSUME NEW p \in Proxies \cap chain.contracts
          PROVE  Governed(p)
      <3>1. CASE <<"create", p>> \in Sent(m)
        <4>1. <<"setAdmin", p>> \in Sent(m)
          BY <2>2, <3>1 DEF Complete
        <4>2. HasEffect(<<"setAdmin", p>>, chain)
          BY <2>4, <4>1
        <4> QED
          BY <2>5, <2>10, <4>2 DEF HasEffect, Governed
      <3> QED
        BY <2>3, <2>5, <2>10, <3>1 DEF Governed
    <2>7. chain.feeManagerOwner = "MoCDecentralizedExchange"
      <3>1. HasEffect(<<"transferOwnership", "CommissionManager">>, chain)
        BY <2>2, <2>4 DEF Complete
      <3> QED
        BY <3>1 DEF HasEffect
    <2>8. ASSUME ~config.existingTokens
          PROVE  Cardinality(chain.minted) = 3 * Cardinality(Addresses)
      <3>1. ASSUME NEW token \in Tokens, NEW a \in Addresses
            PROVE  <<token, a>> \in chain.minted
        <4>1. <<"mint", token, a>> \in Sent(m)
          BY <2>2, <2>8 DEF Complete
        <4>2. HasEffect(<<"mint", token, a>>, chain)
          BY <2>4, <4>1
        <4> QED
          BY <4>2 DEF HasEffect
      <3>2. chain.minted \subseteq Tokens \X Addresses
        BY DEF IInv, Chains
      <3>3. chain.minted = Tokens \X Addresses
        BY <3>1, <3>2
      <3> QED
        BY <3>3, ThreeTokens, FS_Product, DeploymentAssumption
    <2> QED
      BY <2>6, <2>7, <2>8, <2>9
  <1> QED
    BY <1>1, Inductive, PTL
=============================================================================
