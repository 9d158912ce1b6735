----------------------------- MODULE OracleProofs -----------------------------
(***************************************************************************)
(* Proofs about oracle verification: the types, the adapter-only lock, and *)
(* what stands behind a decision, for every set of keys, markets, reports  *)
(* and prices.                                                             *)
(***************************************************************************)
EXTENDS Oracle, SumTheorems, SequenceTheorems

-------------------------------------------------------------------------------
\* Types.

LEMMA ReportFields ==
  ASSUME NEW r \in Reports
  PROVE  /\ r \in Report /\ r # Absent
         /\ r.market_id \in Markets /\ r.outcome \in BOOLEAN /\ r.version \in Versions
  BY ConstantsAssumption DEF Report

LEMMA ByKeysIsDecision ==
  ASSUME TypeOK, NEW r \in Reports, NEW keys \in SUBSET Keys, NEW need \in Nat,
         NEW path \in {"ResolveMarket", "ResolveMarketV2", "Threshold", "ThresholdV2"}
  PROVE  ByKeys(path, r, keys, need) \in Decision
  BY ReportFields DEF TypeOK, ByKeys, Decision

LEMMA ByPriceIsDecision ==
  ASSUME TypeOK, NEW m \in Markets, NEW outcome \in BOOLEAN
  PROVE  ByPrice(m, outcome) \in Decision
  BY DEF TypeOK, ByPrice, Decision

LEMMA DecideTypes ==
  ASSUME TypeOK, NEW m \in Markets, NEW d \in Decision, Decide(m, d)
  PROVE  decision' \in [Markets -> Decision \cup {Absent}]
  BY DEF TypeOK, Decide

LEMMA InitTypes == Init => TypeOK
<1>. SUFFICES ASSUME Init PROVE TypeOK
  OBVIOUS
<1>1. [signers |-> <<>>, quorum |-> 0] \in Threshold
  BY DEF Threshold, SignerList
<1>2. adapter_type \in [Markets -> AdapterTypes] /\ build \in BOOLEAN
  BY ConstantsAssumption DEF Init
<1>. QED
  BY <1>1, <1>2 DEF Init, TypeOK

\* The three calls that decide a market change the decision only.
LEMMA DecisionTypes ==
  ASSUME TypeOK, decision' \in [Markets -> Decision \cup {Absent}],
         UNCHANGED <<now, gateVars, oracle_pubkey, adapter_type, signerVars, worldVars>>
  PROVE  TypeOK'
  BY DEF TypeOK, gateVars, signerVars, worldVars

LEMMA ResolveByKeyTypes ==
  ASSUME TypeOK, NEW r \in Reports, NEW sig \in signed, ResolveByKey(r, sig)
  PROVE  TypeOK'
<1>. DEFINE path == IF r.version = "V1" THEN "ResolveMarket" ELSE "ResolveMarketV2"
            keys == {oracle_pubkey[r.market_id]}
<1>1. keys \in SUBSET Keys
  BY ReportFields DEF TypeOK
<1>2. ByKeys(path, r, keys, 1) \in Decision
  BY <1>1, ByKeysIsDecision
<1>. QED
  BY <1>2, ReportFields, DecideTypes, DecisionTypes DEF ResolveByKey

LEMMA ResolveByReflectorTypes ==
  ASSUME TypeOK, NEW r \in Reports, ResolveByReflector(r)
  PROVE  TypeOK'
  BY ReportFields, ByPriceIsDecision, DecideTypes, DecisionTypes DEF ResolveByReflector

\* The signer list in force.
LEMMA ThresholdFields ==
  ASSUME TypeOK
  PROVE  /\ threshold.signers \in Seq(Keys)
         /\ threshold.quorum \in Nat
         /\ Range(threshold.signers) \subseteq Keys
<1>1. threshold.signers \in Seq(Keys) /\ threshold.quorum \in Nat
  BY DEF TypeOK, Threshold, SignerList
<1>. QED
  BY <1>1 DEF Range

LEMMA ResolveByThresholdTypes ==
  ASSUME TypeOK, NEW r \in Reports, NEW sigs \in Batches, ResolveByThreshold(r, sigs)
  PROVE  TypeOK'
<1>. DEFINE path == IF r.version = "V1" THEN "Threshold" ELSE "ThresholdV2"
<1>1. ByKeys(path, r, Range(threshold.signers), threshold.quorum) \in Decision
  BY ThresholdFields, ByKeysIsDecision
<1>. QED
  BY <1>1, ReportFields, DecideTypes, DecisionTypes DEF ResolveByThreshold

LEMMA AttestByPythTypes ==
  ASSUME TypeOK, NEW price \in Prices, NEW outcome \in BOOLEAN,
         NEW vaa \in observed \cup {Absent}, AttestByPyth(price, outcome, vaa)
  PROVE  TypeOK'
<1>1. receiver' \in Observation \cup {Absent}
  BY DEF TypeOK, AttestByPyth, VerifyByPyth, Received
<1>2. attested' \in Attestation
  BY ConstantsAssumption DEF TypeOK, AttestByPyth, Attestation
<1>. QED
  BY <1>1, <1>2 DEF TypeOK, AttestByPyth, gateVars, marketVars, signerVars

LEMMA AttestByEd25519Types ==
  ASSUME TypeOK, NEW r \in Reports, NEW sig \in signed, AttestByEd25519(r, sig)
  PROVE  TypeOK'
<1>1. attested' \in Attestation
  BY ReportFields DEF TypeOK, AttestByEd25519, Attestation
<1>. QED
  BY <1>1 DEF TypeOK, AttestByEd25519, gateVars, marketVars, signerVars

LEMMA AdminTypes ==
  ASSUME TypeOK, AdminStep
  PROVE  TypeOK'
<1>1. CASE EnableOracleAdapters
  BY <1>1 DEF TypeOK, EnableOracleAdapters, marketVars, signerVars, worldVars
<1>2. CASE DisableV1
  BY <1>2 DEF TypeOK, DisableV1, marketVars, signerVars, worldVars
<1>3. ASSUME NEW t \in AdapterTypes, SetAdapterEnabled(t)
      PROVE  TypeOK'
  BY <1>3 DEF TypeOK, SetAdapterEnabled, marketVars, signerVars, worldVars
<1>4. ASSUME NEW m \in Markets, NEW f \in Feeds, NEW price \in Prices,
             SetMarketAdapterConfig(m, f, price)
      PROVE  TypeOK'
  <2>1. [oracle_contract |-> f, resolution_price |-> price] \in AdapterConfig
    BY ConstantsAssumption DEF AdapterConfig
  <2>. QED
    BY <1>4, <2>1 DEF TypeOK, SetMarketAdapterConfig, marketVars, signerVars, worldVars
<1>5. ASSUME NEW m \in Markets, NEW k \in Keys, SetMarketOracle(m, k)
      PROVE  TypeOK'
  BY <1>5 DEF TypeOK, SetMarketOracle, gateVars, signerVars, worldVars
<1>6. ASSUME NEW list \in SignerLists, ProposeThresholdSigners(list)
      PROVE  TypeOK'
  <2>1. list \in Threshold
    BY <1>6, ConstantsAssumption DEF ProposeThresholdSigners, ReachableQuorum, Threshold
  <2>2. now + SIGNERS_TIMELOCK_SECONDS \in Nat
    BY ConstantsAssumption DEF TypeOK
  <2>. QED
    BY <1>6, <2>1, <2>2 DEF TypeOK, ProposeThresholdSigners, gateVars, marketVars, worldVars
<1>7. CASE ExecuteThresholdSigners
  BY <1>7 DEF TypeOK, ExecuteThresholdSigners, gateVars, marketVars, worldVars
<1>. QED
  BY <1>1, <1>2, <1>3, <1>4, <1>5, <1>6, <1>7 DEF AdminStep

LEMMA WorldTypes ==
  ASSUME TypeOK, WorldStep
  PROVE  TypeOK'
<1>1. ASSUME NEW k \in Keys, NEW r \in Reports, Sign(k, r)
      PROVE  TypeOK'
  <2>1. [key |-> k, report |-> r] \in Signature
    BY ReportFields DEF Signature
  <2>. QED
    BY <1>1, <2>1 DEF TypeOK, Sign, gateVars, marketVars, signerVars
<1>2. ASSUME NEW f \in Feeds, NEW price \in Prices, NEW timestamp \in {now, now + 1},
             Quote(f, price, timestamp)
      PROVE  TypeOK'
  <2>1. [feed |-> f, price |-> price, timestamp |-> timestamp] \in Observation
    BY ConstantsAssumption DEF TypeOK, Observation
  <2>. QED
    BY <1>2, <2>1 DEF TypeOK, Quote, gateVars, marketVars, signerVars
<1>3. CASE Tick
  BY <1>3 DEF TypeOK, Tick, gateVars, marketVars, signerVars, worldVars
<1>. QED
  BY <1>1, <1>2, <1>3 DEF WorldStep

LEMMA NextTypes == TypeOK /\ [Next]_vars => TypeOK'
<1>. SUFFICES ASSUME TypeOK, [Next]_vars PROVE TypeOK'
  OBVIOUS
<1>1. CASE ResolutionStep
  BY <1>1, ResolveByKeyTypes, ResolveByReflectorTypes, ResolveByThresholdTypes
  DEF ResolutionStep
<1>2. CASE AdapterStep
  BY <1>2, AttestByEd25519Types, AttestByPythTypes DEF AdapterStep
<1>3. CASE AdminStep
  BY <1>3, AdminTypes
<1>4. CASE WorldStep
  BY <1>4, WorldTypes
<1>5. CASE UNCHANGED vars
  BY <1>5 DEF TypeOK, vars, gateVars, marketVars, signerVars, worldVars
<1>. QED
  BY <1>1, <1>2, <1>3, <1>4, <1>5 DEF Next

\* Every call around the oracle, and everything that happens outside, keeps the gates,
\* the signer lists and the decisions well typed; no list in force asks for more
\* signatures than it has signers.
THEOREM TypeCorrect == Spec => []TypeOK
  BY InitTypes, NextTypes, PTL DEF Spec

-------------------------------------------------------------------------------
\* The adapter-only lock.

LEMMA LockedStep ==
  ASSUME TypeOK, [Next]_vars, adapters_only
  PROVE  /\ \A m \in Markets :
              Undecided(m) /\ ~Undecided(m)' => decision'[m].path = "Reflector"
         /\ attested' # attested => attested'.adapter = "Pyth"
<1>1. ASSUME NEW r \in Reports, NEW sig \in signed
      PROVE  ~ResolveByKey(r, sig) /\ ~AttestByEd25519(r, sig)
  BY DEF ResolveByKey, AttestByEd25519, VerifyOracleSignature, RequireEd25519PathOpen
<1>2. ASSUME NEW r \in Reports, NEW sigs \in Batches
      PROVE  ~ResolveByThreshold(r, sigs)
  BY DEF ResolveByThreshold, VerifyThresholdSignatures, RequireEd25519PathOpen
<1>3. ASSUME NEW r \in Reports, ResolveByReflector(r)
      PROVE  /\ \A m \in Markets :
                  Undecided(m) /\ ~Undecided(m)' => decision'[m].path = "Reflector"
             /\ attested' = attested
  <2>1. ASSUME NEW m \in Markets, m # r.market_id
        PROVE  decision'[m] = decision[m]
    BY <1>3, <2>1 DEF TypeOK, ResolveByReflector, Decide
  <2>2. decision'[r.market_id].path = "Reflector"
    BY <1>3, ReportFields DEF TypeOK, ResolveByReflector, Decide, ByPrice
  <2>. QED
    BY <1>3, <2>1, <2>2 DEF ResolveByReflector, Undecided, worldVars
<1>4. ASSUME NEW price \in Prices, NEW outcome \in BOOLEAN,
             NEW vaa \in observed \cup {Absent}, AttestByPyth(price, outcome, vaa)
      PROVE  decision' = decision /\ attested'.adapter = "Pyth"
  BY <1>4 DEF AttestByPyth, marketVars
<1>5. CASE AdminStep
  BY <1>5 DEF AdminStep, EnableOracleAdapters, DisableV1, SetAdapterEnabled,
       SetMarketAdapterConfig, SetMarketOracle, ProposeThresholdSigners,
       ExecuteThresholdSigners, Undecided, marketVars, worldVars
<1>6. CASE WorldStep
  BY <1>6 DEF WorldStep, Sign, Quote, Tick, Undecided, marketVars, worldVars
<1>7. CASE UNCHANGED vars
  BY <1>7 DEF vars, Undecided, marketVars, worldVars
<1>8. CASE ResolutionStep
  BY <1>1, <1>2, <1>3, <1>8 DEF ResolutionStep
<1>9. CASE AdapterStep
  BY <1>1, <1>4, <1>9 DEF AdapterStep, Undecided
<1>. QED
  BY <1>5, <1>6, <1>7, <1>8, <1>9 DEF Next

\* Once enable_oracle_adapters was called no signature decides a market, through any
\* entrypoint and whatever is enabled or configured around it (oracle.rs,
\* require_ed25519_path_open, #898).
THEOREM LockCloses == Spec => ClosedAfterLock
<1>1. TypeOK /\ [Next]_vars =>
        [adapters_only =>
           /\ \A m \in Markets :
                Undecided(m) /\ ~Undecided(m)' => decision'[m].path = "Reflector"
           /\ attested' # attested => attested'.adapter = "Pyth"]_vars
  BY LockedStep
<1>. QED
  BY InitTypes, NextTypes, <1>1, PTL DEF Spec, ClosedAfterLock

-------------------------------------------------------------------------------
\* What a message says.

LEMMA DivMod ==
  ASSUME NEW a \in Nat, NEW b \in Nat \ {0}
  PROVE  a = b * (a \div b) + (a % b) /\ a \div b \in Nat /\ a % b \in Nat
OBVIOUS

\* The equations of the recursive function: cutting digits off one by one.
LEMMA ShiftedUnfolds ==
  ASSUME NEW n \in Nat, NEW width \in Nat
  PROVE  /\ Shifted(n, width) \in [0 .. width -> Nat]
         /\ Shifted(n, width) =
              [i \in 0 .. width |-> IF i = 0 THEN n ELSE Shifted(n, width)[i - 1] \div RADIX]
<1> DEFINE next == [p \in (1 .. width) \X Nat |-> p[2] \div RADIX]
           Is(f) == f = [i \in 0 .. width |-> IF i = 0 THEN n ELSE f[i - 1] \div RADIX]
<1>1. RADIX \in Nat \ {0}
  BY ConstantsAssumption
<1>2. Steps(next, width, Nat)
  BY <1>1, DivMod DEF Steps
<1>3. PICK f : Unrolls(f, width, Nat, n, next)
  <2> HIDE DEF next
  <2> QED
    BY <1>2, RecursionUpTo
<1>4. /\ f \in [0 .. width -> Nat] /\ f[0] = n
      /\ \A i \in 1 .. width : f[i] = f[i - 1] \div RADIX
  <2>1. f \in [0 .. width -> Nat] /\ f[0] = n
        /\ \A i \in 1 .. width : f[i] = next[<<i, f[i - 1]>>]
    BY <1>3 DEF Unrolls
  <2>2. ASSUME NEW i \in 1 .. width PROVE f[i] = f[i - 1] \div RADIX
    <3>1. i - 1 \in 0 .. width
      OBVIOUS
    <3>2. f[i - 1] \in Nat
      BY <2>1, <3>1
    <3>3. f[i] = next[<<i, f[i - 1]>>]
      <4> HIDE DEF next
      <4> QED
        BY <2>1
    <3> QED
      BY <3>2, <3>3
  <2> QED
    BY <2>1, <2>2
<1>5. Is(f)
  BY <1>4
<1>6. Is(Shifted(n, width))
  <2> HIDE DEF next
  <2> QED
    BY <1>5, Zenon DEF Shifted
<1> DEFINE Q == {j \in 0 .. width : Shifted(n, width)[j] \in Nat}
<1>7. 0 \in Q
  BY <1>6
<1>8. ASSUME NEW i \in 0 .. width, i < width, i \in Q PROVE i + 1 \in Q
  <2>1. Shifted(n, width)[i + 1] = Shifted(n, width)[i] \div RADIX
    BY <1>6, <1>8
  <2> QED
    BY <1>1, <1>8, <2>1, DivMod
<1>9. \A i \in 0 .. width : i \in Q
  <2> HIDE DEF Q
  <2> QED
    BY <1>7, <1>8, CountingUp, Zenon
<1> QED
  BY <1>6, <1>9

\* Two numbers that fit their field and have the same digits are one number.
LEMMA DigitsBind ==
  ASSUME NEW width \in Nat, NEW n, NEW m, Fits(n, width), Fits(m, width),
         BigEndian(n, width) = BigEndian(m, width)
  PROVE  n = m
<1> DEFINE f == Shifted(n, width)
           g == Shifted(m, width)
           Q == {i \in 0 .. width : f[width - i] = g[width - i]}
<1>1. RADIX \in Nat \ {0} /\ n \in Nat /\ m \in Nat /\ f[width] = 0 /\ g[width] = 0
  BY ConstantsAssumption DEF Fits
<1>2. f \in [0 .. width -> Nat] /\ g \in [0 .. width -> Nat]
      /\ f = [i \in 0 .. width |-> IF i = 0 THEN n ELSE f[i - 1] \div RADIX]
      /\ g = [i \in 0 .. width |-> IF i = 0 THEN m ELSE g[i - 1] \div RADIX]
  BY <1>1, ShiftedUnfolds
<1>3. \A j \in 1 .. width : f[width - j] % RADIX = g[width - j] % RADIX
  BY DEF BigEndian
<1> HIDE DEF f, g
<1>4. 0 \in Q
  BY <1>1
<1>5. ASSUME NEW i \in 0 .. width, i < width, i \in Q PROVE i + 1 \in Q
  <2> DEFINE k == width - (i + 1)
  <2>1. k \in 0 .. width /\ k + 1 \in 0 .. width /\ (k + 1) - 1 = k /\ k + 1 = width - i
        /\ i + 1 \in 1 .. width /\ k + 1 # 0
    BY <1>5
  <2>2. f[k] % RADIX = g[k] % RADIX
    BY <1>3, <2>1
  <2> HIDE DEF k
  <2>3. f[k + 1] = f[k] \div RADIX /\ g[k + 1] = g[k] \div RADIX /\ f[k + 1] = g[k + 1]
        /\ f[k] \in Nat /\ g[k] \in Nat
    BY <1>2, <1>5, <2>1
  <2>4. f[k] = g[k]
    <3>1. f[k] = RADIX * (f[k] \div RADIX) + (f[k] % RADIX)
      BY <1>1, <2>3, DivMod
    <3>2. g[k] = RADIX * (g[k] \div RADIX) + (g[k] % RADIX)
      BY <1>1, <2>3, DivMod
    <3>3. f[k] \div RADIX = g[k] \div RADIX
      BY <2>3
    <3> QED
      BY <3>1, <3>2, <3>3, <2>2, Zenon
  <2> QED
    BY <2>1, <2>4 DEF k
<1> HIDE DEF Q
<1>6. width \in Q
  BY <1>4, <1>5, CountingUp
<1> QED
  BY <1>2, <1>6 DEF Q

Byte == Nat \cup Networks

\* A field of a message: bytes, as many as its width.
Field(a, width) == a \in Seq(Byte) /\ Len(a) = width

\* Fields side by side make a field of their widths together.
LEMMA FieldsJoin ==
  ASSUME NEW a, NEW b, NEW m \in Nat, NEW n \in Nat, Field(a, m), Field(b, n)
  PROVE  Field(a \o b, m + n)
BY ConcatProperties DEF Field

\* A message of two parts.
Joined(z, a, b) == z = a \o b

\* Two pairs of fields of one length each that make one message are one pair.
LEMMA FieldsBind ==
  ASSUME NEW a, NEW b, NEW c, NEW d, NEW m, NEW n, NEW z,
         Field(a, m), Field(b, n), Field(c, m), Field(d, n), Joined(z, a, b), Joined(z, c, d)
  PROVE  a = c /\ b = d
<1>0. /\ a \in Seq(Byte) /\ b \in Seq(Byte) /\ c \in Seq(Byte) /\ d \in Seq(Byte)
      /\ Len(a) = Len(c) /\ a \o b = c \o d
  BY DEF Field, Joined
<1>1. /\ Len(a \o b) = Len(a) + Len(b) /\ Len(c \o d) = Len(c) + Len(d)
      /\ \A i \in 1 .. Len(a) + Len(b) :
           (a \o b)[i] = IF i <= Len(a) THEN a[i] ELSE b[i - Len(a)]
      /\ \A i \in 1 .. Len(c) + Len(d) :
           (c \o d)[i] = IF i <= Len(c) THEN c[i] ELSE d[i - Len(c)]
  BY <1>0, ConcatProperties
<1>2. Len(b) = Len(d) /\ Len(a) \in Nat /\ Len(b) \in Nat
  BY <1>0, <1>1
<1>3. ASSUME NEW i \in 1 .. Len(a) PROVE a[i] = c[i]
  BY <1>0, <1>1, <1>2, <1>3
<1>4. ASSUME NEW i \in 1 .. Len(b) PROVE b[i] = d[i]
  <2> DEFINE j == i + Len(a)
  <2>1. j \in 1 .. Len(a) + Len(b) /\ ~ (j <= Len(a)) /\ j - Len(a) = i
    BY <1>2
  <2> HIDE DEF j
  <2>2. (a \o b)[j] = b[i] /\ (c \o d)[j] = d[i]
    BY <1>0, <1>1, <1>2, <2>1
  <2> QED
    BY <1>0, <2>2
<1> QED
  BY <1>0, <1>2, <1>3, <1>4, SeqEqual

\* The byte of an outcome tells the outcome.
LEMMA OutcomeBinds ==
  ASSUME NEW a \in BOOLEAN, NEW b \in BOOLEAN, OutcomeByte(a) = OutcomeByte(b)
  PROVE  a = b
<1>1. OutcomeByte(a)[1] = OutcomeByte(b)[1]
  OBVIOUS
<1>2. CASE a /\ ~b
  BY <1>1, <1>2 DEF OutcomeByte
<1>3. CASE ~a /\ b
  BY <1>1, <1>3 DEF OutcomeByte
<1> QED
  BY <1>2, <1>3

LEMMA DigitsAreBytes ==
  ASSUME NEW width \in Nat, NEW n, Fits(n, width)
  PROVE  Field(BigEndian(n, width), width)
<1> DEFINE f == Shifted(n, width)
<1>1. f \in [0 .. width -> Nat]
  BY ShiftedUnfolds DEF Fits
<1>2. RADIX \in Nat \ {0}
  BY ConstantsAssumption
<1>3. ASSUME NEW i \in 1 .. width PROVE f[width - i] % RADIX \in Byte
  <2>1. width - i \in 0 .. width
    OBVIOUS
  <2>2. f[width - i] \in Nat
    BY <1>1, <2>1
  <2> HIDE DEF f
  <2> QED
    BY <1>2, <2>2, DivMod DEF Byte
<1> HIDE DEF f
<1>4. [i \in 1 .. width |-> f[width - i] % RADIX] \in [1 .. width -> Byte]
  BY <1>3
<1>5. BigEndian(n, width) \in [1 .. width -> Byte]
  BY <1>4 DEF BigEndian, f
<1> QED
  BY <1>5 DEF Field

\* What the fields of a message are, for any report that fits them.
LEMMA MessageFields ==
  ASSUME NEW r \in Reports \cup Lookalikes
  PROVE  /\ r.version \in Versions /\ r.outcome \in BOOLEAN /\ r.network \in Networks
         /\ Fits(r.market_id, ID_WIDTH) /\ Fits(r.valid_until, TIME_WIDTH)
         /\ Fits(r.epoch, EPOCH_WIDTH)
         /\ Field(BigEndian(r.market_id, ID_WIDTH), ID_WIDTH)
         /\ Field(BigEndian(r.valid_until, TIME_WIDTH), TIME_WIDTH)
         /\ Field(BigEndian(r.epoch, EPOCH_WIDTH), EPOCH_WIDTH)
         /\ Field(OutcomeByte(r.outcome), 1) /\ Field(<<r.network>>, 1)
<1>1. r.version \in Versions /\ r.outcome \in BOOLEAN /\ r.network \in Networks
  BY ConstantsAssumption DEF Report
<1>2. Fits(r.market_id, ID_WIDTH) /\ Fits(r.valid_until, TIME_WIDTH)
      /\ Fits(r.epoch, EPOCH_WIDTH)
  BY WidthAssumption DEF FitsItsFields
<1>3. ID_WIDTH \in Nat /\ TIME_WIDTH \in Nat /\ EPOCH_WIDTH \in Nat
  BY ConstantsAssumption
<1>4. Field(OutcomeByte(r.outcome), 1)
  BY DEF OutcomeByte, Byte, Field
<1>5. Field(<<r.network>>, 1)
  BY <1>1 DEF Byte, Field
<1> QED
  BY <1>1, <1>2, <1>3, <1>4, <1>5, DigitsAreBytes

\* A V1 message is its number and its outcome, after the separator.
LEMMA V1Layout ==
  ASSUME NEW r \in Reports \cup Lookalikes
  PROVE  /\ Field(ORACLE_DOMAIN_SEPARATOR, 1)
         /\ Field(ORACLE_DOMAIN_SEPARATOR \o BigEndian(r.market_id, ID_WIDTH), 1 + ID_WIDTH)
         /\ Field(BuildOraclePreimage(r), 1 + ID_WIDTH + 1)
<1>1. Field(ORACLE_DOMAIN_SEPARATOR, 1)
  BY DEF ORACLE_DOMAIN_SEPARATOR, Byte, Field
<1>2. Field(ORACLE_DOMAIN_SEPARATOR \o BigEndian(r.market_id, ID_WIDTH), 1 + ID_WIDTH)
  BY <1>1, MessageFields, FieldsJoin, ConstantsAssumption
<1>3. 1 + ID_WIDTH \in Nat /\ 1 \in Nat
  BY ConstantsAssumption
<1>4. Field((ORACLE_DOMAIN_SEPARATOR \o BigEndian(r.market_id, ID_WIDTH))
              \o OutcomeByte(r.outcome), 1 + ID_WIDTH + 1)
  BY <1>2, <1>3, MessageFields, FieldsJoin
<1> QED
  BY <1>1, <1>2, <1>4, Zenon DEF BuildOraclePreimage

\* Two V1 messages that are the same are of one market and one outcome.
LEMMA V1Binds ==
  ASSUME NEW r \in Reports \cup Lookalikes, NEW s \in Reports \cup Lookalikes,
         BuildOraclePreimage(r) = BuildOraclePreimage(s)
  PROVE  r.market_id = s.market_id /\ r.outcome = s.outcome
<1> DEFINE D == ORACLE_DOMAIN_SEPARATOR
           M(a) == BigEndian(a.market_id, ID_WIDTH)
           O(a) == OutcomeByte(a.outcome)
           P1(a) == D \o M(a)
           P2(a) == BuildOraclePreimage(a)
           Parts(a) == /\ Field(D, 1) /\ Field(M(a), ID_WIDTH) /\ Field(O(a), 1)
                       /\ Field(P1(a), 1 + ID_WIDTH)
                       /\ Joined(P1(a), D, M(a)) /\ Joined(P2(a), P1(a), O(a))
<1>1. Parts(r) /\ Parts(s) /\ P2(r) = P2(s)
  BY MessageFields, V1Layout, Zenon DEF Joined, BuildOraclePreimage
<1> HIDE DEF M, O, P1, P2, D
<1>2. P1(r) = P1(s) /\ O(r) = O(s)
  <2>1. Joined(P2(r), P1(s), O(s))
    BY <1>1
  <2> QED
    BY <1>1, <2>1, FieldsBind, Zenon
<1>3. M(r) = M(s)
  <2>1. Joined(P1(r), D, M(s))
    BY <1>1, <1>2
  <2> QED
    BY <1>1, <2>1, FieldsBind, Zenon
<1>4. r.market_id = s.market_id
  BY <1>3, MessageFields, DigitsBind, ConstantsAssumption DEF M
<1>5. r.outcome = s.outcome
  BY <1>2, MessageFields, OutcomeBinds DEF O
<1> QED
  BY <1>4, <1>5

\* A V2 message is all of its report but the version.
LEMMA V2Layout ==
  ASSUME NEW r \in Reports \cup Lookalikes, NEW D, D = ORACLE_DOMAIN_SEPARATOR_V2,
         NEW N, N = <<r.network>>, NEW M, M = BigEndian(r.market_id, ID_WIDTH),
         NEW O, O = OutcomeByte(r.outcome), NEW T, T = BigEndian(r.valid_until, TIME_WIDTH)
  PROVE  /\ Field(D, 1)
         /\ Field(D \o N, 2)
         /\ Field((D \o N) \o M, 2 + ID_WIDTH)
         /\ Field(((D \o N) \o M) \o O, 2 + ID_WIDTH + 1)
         /\ Field((((D \o N) \o M) \o O) \o T, 2 + ID_WIDTH + 1 + TIME_WIDTH)
         /\ Field(BuildOraclePreimageV2(r), 2 + ID_WIDTH + 1 + TIME_WIDTH + EPOCH_WIDTH)
<1>1. ID_WIDTH \in Nat /\ TIME_WIDTH \in Nat /\ EPOCH_WIDTH \in Nat
  BY ConstantsAssumption
<1>2. Field(D, 1)
  BY DEF ORACLE_DOMAIN_SEPARATOR_V2, Byte, Field
<1>3. Field(D \o N, 2)
  <2>1. Field(D \o N, 1 + 1)
    BY <1>2, MessageFields, FieldsJoin
  <2> QED
    BY <2>1
<1>4. Field((D \o N) \o M, 2 + ID_WIDTH)
  BY <1>1, <1>3, MessageFields, FieldsJoin
<1>5. Field(((D \o N) \o M) \o O, 2 + ID_WIDTH + 1)
  <2>1. 2 + ID_WIDTH \in Nat
    BY <1>1
  <2> QED
    BY <2>1, <1>4, MessageFields, FieldsJoin
<1>6. Field((((D \o N) \o M) \o O) \o T, 2 + ID_WIDTH + 1 + TIME_WIDTH)
  <2>1. 2 + ID_WIDTH + 1 \in Nat
    BY <1>1
  <2> QED
    BY <1>1, <2>1, <1>5, MessageFields, FieldsJoin
<1>7. Field(((((D \o N) \o M) \o O) \o T) \o BigEndian(r.epoch, EPOCH_WIDTH),
            2 + ID_WIDTH + 1 + TIME_WIDTH + EPOCH_WIDTH)
  <2>1. 2 + ID_WIDTH + 1 + TIME_WIDTH \in Nat
    BY <1>1
  <2> QED
    BY <1>1, <2>1, <1>6, MessageFields, FieldsJoin
<1>8. BuildOraclePreimageV2(r)
        = ((((D \o N) \o M) \o O) \o T) \o BigEndian(r.epoch, EPOCH_WIDTH)
  BY Zenon DEF BuildOraclePreimageV2
<1> QED
  BY <1>2, <1>3, <1>4, <1>5, <1>6, <1>7, <1>8, Zenon

\* Two V2 messages that are the same say the same of everything.
LEMMA V2Binds ==
  ASSUME NEW r \in Reports \cup Lookalikes, NEW s \in Reports \cup Lookalikes,
         BuildOraclePreimageV2(r) = BuildOraclePreimageV2(s)
  PROVE  /\ r.market_id = s.market_id /\ r.outcome = s.outcome
         /\ r.network = s.network /\ r.valid_until = s.valid_until /\ r.epoch = s.epoch
<1> DEFINE D == ORACLE_DOMAIN_SEPARATOR_V2
           N(a) == <<a.network>>
           M(a) == BigEndian(a.market_id, ID_WIDTH)
           O(a) == OutcomeByte(a.outcome)
           T(a) == BigEndian(a.valid_until, TIME_WIDTH)
           E(a) == BigEndian(a.epoch, EPOCH_WIDTH)
           P1(a) == D \o N(a)
           P2(a) == P1(a) \o M(a)
           P3(a) == P2(a) \o O(a)
           P4(a) == P3(a) \o T(a)
           P5(a) == BuildOraclePreimageV2(a)
           W3 == 2 + ID_WIDTH + 1
           W4 == 2 + ID_WIDTH + 1 + TIME_WIDTH
           Parts(a) == /\ Field(D, 1) /\ Field(N(a), 1) /\ Field(M(a), ID_WIDTH)
                       /\ Field(O(a), 1) /\ Field(T(a), TIME_WIDTH) /\ Field(E(a), EPOCH_WIDTH)
                       /\ Field(P1(a), 2)
                       /\ Field(P2(a), 2 + ID_WIDTH)
                       /\ Field(P3(a), W3)
                       /\ Field(P4(a), W4)
           Joins(a) == /\ Joined(P1(a), D, N(a)) /\ Joined(P2(a), P1(a), M(a))
                       /\ Joined(P3(a), P2(a), O(a)) /\ Joined(P4(a), P3(a), T(a))
                       /\ Joined(P5(a), P4(a), E(a))
<1>1. Parts(r) /\ Parts(s)
  BY MessageFields, V2Layout, Zenon
<1>2. Joins(r) /\ Joins(s) /\ P5(r) = P5(s)
  BY Zenon DEF Joined, BuildOraclePreimageV2
<1> HIDE DEF W3, W4, N, M, O, T, E, D, P1, P2, P3, P4, P5
<1>3. P4(r) = P4(s) /\ E(r) = E(s)
  <2>1. Joined(P5(r), P4(r), E(r)) /\ Joined(P5(r), P4(s), E(s))
    BY <1>2
  <2>2. Field(P4(r), W4) /\ Field(P4(s), W4)
        /\ Field(E(r), EPOCH_WIDTH) /\ Field(E(s), EPOCH_WIDTH)
    BY <1>1
  <2> QED
    BY <2>1, <2>2, FieldsBind, Zenon
<1>4. P3(r) = P3(s) /\ T(r) = T(s)
  <2>1. Joined(P4(r), P3(r), T(r)) /\ Joined(P4(r), P3(s), T(s))
    BY <1>2, <1>3
  <2>2. Field(P3(r), W3) /\ Field(P3(s), W3)
        /\ Field(T(r), TIME_WIDTH) /\ Field(T(s), TIME_WIDTH)
    BY <1>1
  <2> QED
    BY <2>1, <2>2, FieldsBind, Zenon
<1>5. P2(r) = P2(s) /\ O(r) = O(s)
  <2>1. Joined(P3(r), P2(r), O(r)) /\ Joined(P3(r), P2(s), O(s))
    BY <1>2, <1>4
  <2>2. Field(P2(r), 2 + ID_WIDTH) /\ Field(P2(s), 2 + ID_WIDTH)
        /\ Field(O(r), 1) /\ Field(O(s), 1)
    BY <1>1
  <2> QED
    BY <2>1, <2>2, FieldsBind, Zenon
<1>6. P1(r) = P1(s) /\ M(r) = M(s)
  <2>1. Joined(P2(r), P1(r), M(r)) /\ Joined(P2(r), P1(s), M(s))
    BY <1>2, <1>5
  <2>2. Field(P1(r), 2) /\ Field(P1(s), 2)
        /\ Field(M(r), ID_WIDTH) /\ Field(M(s), ID_WIDTH)
    BY <1>1
  <2> QED
    BY <2>1, <2>2, FieldsBind, Zenon
<1>7. N(r) = N(s)
  <2>1. Joined(P1(r), D, N(r)) /\ Joined(P1(r), D, N(s))
    BY <1>2, <1>6
  <2>2. Field(D, 1) /\ Field(N(r), 1) /\ Field(N(s), 1)
    BY <1>1
  <2> QED
    BY <2>1, <2>2, FieldsBind, Zenon
<1>8. ID_WIDTH \in Nat /\ TIME_WIDTH \in Nat /\ EPOCH_WIDTH \in Nat
  BY ConstantsAssumption
<1>9. r.market_id = s.market_id
  BY <1>6, <1>8, MessageFields, DigitsBind DEF M
<1>10. r.valid_until = s.valid_until
  BY <1>4, <1>8, MessageFields, DigitsBind DEF T
<1>11. r.epoch = s.epoch
  BY <1>3, <1>8, MessageFields, DigitsBind DEF E
<1>12. r.outcome = s.outcome
  BY <1>5, MessageFields, OutcomeBinds DEF O
<1>13. r.network = s.network
  BY <1>7 DEF N
<1> QED
  BY <1>9, <1>10, <1>11, <1>12, <1>13

\* The layouts differ in length, so that no message is read in both.
LEMMA LayoutsDiffer ==
  ASSUME NEW r \in Reports \cup Lookalikes, NEW s \in Reports \cup Lookalikes
  PROVE  /\ Len(BuildOraclePreimage(r)) = ORACLE_PREIMAGE_LEN
         /\ Len(BuildOraclePreimageV2(s)) = ORACLE_PREIMAGE_LEN_V2
         /\ Len(BuildOraclePreimage(r)) # Len(BuildOraclePreimageV2(s))
<1>1. {ID_WIDTH, TIME_WIDTH, EPOCH_WIDTH} \subseteq Nat \ {0}
  BY ConstantsAssumption
<1>2. Len(BuildOraclePreimage(r)) = 1 + ID_WIDTH + 1
  BY V1Layout DEF Field
<1>3. Len(BuildOraclePreimageV2(s)) = 2 + ID_WIDTH + 1 + TIME_WIDTH + EPOCH_WIDTH
  BY V2Layout DEF Field
<1> QED
  BY <1>1, <1>2, <1>3
     DEF ORACLE_PREIMAGE_LEN, ORACLE_PREIMAGE_LEN_V2, ORACLE_DOMAIN_SEPARATOR,
         ORACLE_DOMAIN_SEPARATOR_V2

\* That a signature binds its key to a claim: no two reports somebody is asked to
\* sign share a message unless they say the same.  The hash is taken to be free of
\* collisions; that the layouts cannot be confused follows from their widths.
MessagesBind ==
  \A r, s \in Reports :
    ConstructOracleMessage(r) = ConstructOracleMessage(s) =>
      /\ r.version = s.version /\ r.market_id = s.market_id /\ r.outcome = s.outcome
      /\ r.version = "V2" =>
           r.network = s.network /\ r.valid_until = s.valid_until /\ r.epoch = s.epoch

\* The layouts together, for whatever is signed or compared with it.
LEMMA MessageBinds ==
  ASSUME NEW r \in Reports \cup Lookalikes, NEW s \in Reports \cup Lookalikes,
         ConstructOracleMessage(r) = ConstructOracleMessage(s)
  PROVE  /\ r.version = s.version /\ r.market_id = s.market_id /\ r.outcome = s.outcome
         /\ r.version = "V2" =>
              r.network = s.network /\ r.valid_until = s.valid_until /\ r.epoch = s.epoch
<1>1. r.version \in Versions /\ s.version \in Versions
  BY MessageFields
<1>2. CASE r.version = "V1" /\ s.version = "V1"
  BY <1>2, V1Binds DEF ConstructOracleMessage
<1>3. CASE r.version = "V2" /\ s.version = "V2"
  BY <1>3, V2Binds DEF ConstructOracleMessage
<1>4. CASE r.version # s.version
  BY <1>1, <1>4, LayoutsDiffer DEF ConstructOracleMessage, Versions
<1> QED
  BY <1>1, <1>2, <1>3, <1>4 DEF Versions

LEMMA LayoutsBind == MessagesBind
BY MessageBinds DEF MessagesBind

\* One message, one claim.
LEMMA ClaimsBind ==
  ASSUME NEW r \in Reports \cup Lookalikes, NEW s \in Reports \cup Lookalikes,
         ConstructOracleMessage(r) = ConstructOracleMessage(s)
  PROVE  Claim(r) = Claim(s)
<1>1. CASE r.version = "V1"
  BY <1>1, MessageBinds DEF Claim
<1>2. CASE r.version = "V2"
  <2>1. \A a \in {r, s} :
          a = [version |-> a.version, network |-> a.network, market_id |-> a.market_id,
               outcome |-> a.outcome, valid_until |-> a.valid_until, epoch |-> a.epoch]
    BY ConstantsAssumption DEF Report
  <2>2. r = s
    BY <1>2, <2>1, MessageBinds
  <2> QED
    BY <2>2
<1>3. r.version \in {"V1", "V2"}
  BY MessageFields DEF Versions
<1> QED
  BY <1>1, <1>2, <1>3

LEMMA SignedAreDistinct ==
  ASSUME \A s \in signed : s.report \in Reports
  PROVE  MessagesAreDistinct
<1> SUFFICES ASSUME NEW s \in signed
             PROVE  LET message == ConstructOracleMessage(s.report)
                    IN  /\ \A form \in Forms : form.message = message => form.claim = Claim(s.report)
                        /\ HashOraclePreimageChecked(message) <=> s.report.version = "V1"
                        /\ Len(BuildOraclePreimageV2(s.report)) = ORACLE_PREIMAGE_LEN_V2
  BY DEF MessagesAreDistinct
<1>1. s.report \in Reports \cup Lookalikes
  OBVIOUS
<1>2. ASSUME NEW form \in Forms, form.message = ConstructOracleMessage(s.report)
      PROVE  form.claim = Claim(s.report)
  <2>1. PICK r \in Reports \cup Lookalikes :
          form = [claim |-> Claim(r), message |-> ConstructOracleMessage(r)]
    BY DEF Forms
  <2>2. form.claim = Claim(r) /\ ConstructOracleMessage(r) = ConstructOracleMessage(s.report)
    BY <1>2, <2>1
  <2> QED
    BY <1>1, <2>2, ClaimsBind
<1>3. HashOraclePreimageChecked(ConstructOracleMessage(s.report)) <=> s.report.version = "V1"
  BY <1>1, LayoutsDiffer, MessageFields DEF HashOraclePreimageChecked, ConstructOracleMessage, Versions
<1>4. Len(BuildOraclePreimageV2(s.report)) = ORACLE_PREIMAGE_LEN_V2
  BY <1>1, LayoutsDiffer
<1> QED
  BY <1>2, <1>3, <1>4

-------------------------------------------------------------------------------
\* What stands behind a decision.

\* Only reports that were asked for are signed, and an honest holder says one thing of
\* a market; the receiver holds an observation somebody made.
WorldInvariant ==
  /\ \A s \in signed : s.report \in Reports
  /\ \A s, t \in signed :
       s.key = t.key /\ s.key \notin Faulty /\ SameMarket(s.report, t.report) =>
         s.report.outcome = t.report.outcome
  /\ receiver # Absent => receiver \in observed

OracleInvariant == TypeOK /\ WorldInvariant /\ BackedByItsSigners /\ PriceBehindOutcome

LEMMA InitInvariant == Init => OracleInvariant
<1>. SUFFICES ASSUME Init PROVE OracleInvariant
  OBVIOUS
<1>1. WorldInvariant
  BY DEF Init, WorldInvariant
<1>2. BackedByItsSigners /\ PriceBehindOutcome
  BY DEF Init, BackedByItsSigners, PriceBehindOutcome
<1>. QED
  BY <1>1, <1>2, InitTypes DEF OracleInvariant

\* Signatures and observations stay in the world: nothing that vouched for a decision
\* is taken back.
LEMMA EvidenceStays ==
  ASSUME TypeOK, [Next]_vars
  PROVE  signed \subseteq signed' /\ observed \subseteq observed'
<1>1. CASE ResolutionStep
  BY <1>1 DEF ResolutionStep, ResolveByKey, ResolveByReflector, ResolveByThreshold, worldVars
<1>2. CASE AdapterStep
  BY <1>2 DEF AdapterStep, AttestByEd25519, AttestByPyth
<1>3. CASE AdminStep
  BY <1>3 DEF AdminStep, EnableOracleAdapters, DisableV1, SetAdapterEnabled,
       SetMarketAdapterConfig, SetMarketOracle, ProposeThresholdSigners,
       ExecuteThresholdSigners, worldVars
<1>4. CASE WorldStep
  BY <1>4 DEF WorldStep, Sign, Quote, Tick, worldVars
<1>. QED
  BY <1>1, <1>2, <1>3, <1>4 DEF Next, vars, worldVars

LEMMA WorldPreserved ==
  ASSUME TypeOK, WorldInvariant, [Next]_vars
  PROVE  WorldInvariant'
<1>1. CASE ResolutionStep
  BY <1>1 DEF ResolutionStep, ResolveByKey, ResolveByReflector, ResolveByThreshold,
       WorldInvariant, worldVars
<1>2. CASE AdminStep
  BY <1>2 DEF AdminStep, EnableOracleAdapters, DisableV1, SetAdapterEnabled,
       SetMarketAdapterConfig, SetMarketOracle, ProposeThresholdSigners,
       ExecuteThresholdSigners, WorldInvariant, worldVars
<1>3. ASSUME NEW r \in Reports, NEW sig \in signed, AttestByEd25519(r, sig)
      PROVE  WorldInvariant'
  BY <1>3 DEF AttestByEd25519, WorldInvariant
<1>4. ASSUME NEW price \in Prices, NEW outcome \in BOOLEAN,
             NEW vaa \in observed \cup {Absent}, AttestByPyth(price, outcome, vaa)
      PROVE  WorldInvariant'
  <2>1. receiver' \in observed
    BY <1>4 DEF AttestByPyth, VerifyByPyth, Received, WorldInvariant
  <2>. QED
    BY <1>4, <2>1 DEF AttestByPyth, WorldInvariant
<1>5. ASSUME NEW k \in Keys, NEW r \in Reports, Sign(k, r)
      PROVE  WorldInvariant'
  <2>. DEFINE new == [key |-> k, report |-> r]
  <2>1. signed' = signed \cup {new} /\ new.key = k /\ new.report = r
    BY <1>5 DEF Sign
  <2>. HIDE DEF new
  <2>2. \A s \in signed' : s.report \in Reports
    BY <2>1 DEF WorldInvariant
  <2>3. k \notin Faulty =>
          \A s \in signed : s.key = k /\ SameMarket(s.report, r) => s.report.outcome = r.outcome
    BY <1>5 DEF Sign
  <2>4. ASSUME NEW s \in signed', NEW t \in signed',
               s.key = t.key, s.key \notin Faulty, SameMarket(s.report, t.report)
        PROVE  s.report.outcome = t.report.outcome
    <3>1. CASE s \in signed /\ t \in signed
      BY <2>4, <3>1 DEF WorldInvariant
    <3>2. CASE s = new /\ t = new
      BY <3>2
    <3>3. CASE s \in signed /\ t = new
      BY <2>1, <2>3, <2>4, <3>3
    <3>4. CASE s = new /\ t \in signed
      BY <2>1, <2>3, <2>4, <3>4 DEF SameMarket
    <3>. QED
      BY <2>1, <3>1, <3>2, <3>3, <3>4
  <2>. QED
    BY <1>5, <2>2, <2>4 DEF Sign, WorldInvariant
<1>6. ASSUME NEW f \in Feeds, NEW price \in Prices, NEW timestamp \in {now, now + 1},
             Quote(f, price, timestamp)
      PROVE  WorldInvariant'
  BY <1>6 DEF Quote, WorldInvariant
<1>7. CASE Tick
  BY <1>7 DEF Tick, WorldInvariant, worldVars
<1>8. CASE UNCHANGED vars
  BY <1>8 DEF vars, worldVars, WorldInvariant
<1>. QED
  BY <1>1, <1>2, <1>3, <1>4, <1>5, <1>6, <1>7, <1>8 DEF Next, AdapterStep, WorldStep

\* A fresh price, read at this time on this side, is what PriceBehindOutcome asks for.
LEMMA FreshIsRecent ==
  ASSUME TypeOK, NEW o \in observed, FreshPrice(o)
  PROVE  o.timestamp + MAX_PRICE_AGE_SECONDS >= now
<1>1. o.timestamp \in Nat /\ now \in Nat
  BY DEF TypeOK, Observation
<1>. QED
  BY <1>1, ConstantsAssumption DEF FreshPrice

LEMMA PricePreserved ==
  ASSUME TypeOK, WorldInvariant, PriceBehindOutcome, [Next]_vars
  PROVE  PriceBehindOutcome'
<1>. DEFINE Behind(m) == \E o \in observed :
              /\ o.feed = decision[m].config.oracle_contract
              /\ o.timestamp + MAX_PRICE_AGE_SECONDS >= decision[m].at
              /\ decision[m].outcome = ResolvedYes(o, decision[m].config.resolution_price)
            Attested == \E o \in observed :
              /\ o.timestamp + MAX_PRICE_AGE_SECONDS >= attested.at
              /\ attested.outcome = ResolvedYes(o, attested.resolution_price)
<1>1. observed \subseteq observed'
  BY EvidenceStays
<1>2. ASSUME NEW m \in Markets, decision'[m] = decision[m],
             decision'[m] # Absent, decision'[m].path = "Reflector"
      PROVE  Behind(m)'
  BY <1>1, <1>2 DEF PriceBehindOutcome, ResolvedYes
<1>3. ASSUME attested' = attested, attested' # Absent, attested'.adapter = "Pyth"
      PROVE  Attested'
  BY <1>1, <1>3 DEF PriceBehindOutcome, ResolvedYes
<1>4. ASSUME NEW r \in Reports, ResolveByReflector(r)
      PROVE  Behind(r.market_id)'
  <2>. DEFINE m == r.market_id
              config == adapter_config[m]
  <2>1. m \in Markets
    BY ReportFields
  <2>2. decision'[m] = ByPrice(m, r.outcome)
    BY <1>4, <2>1 DEF TypeOK, ResolveByReflector, Decide
  <2>3. PICK o \in LastPrice(config.oracle_contract) :
          FreshPrice(o) /\ ResolvedYes(o, config.resolution_price) = r.outcome
    BY <1>4 DEF ResolveByReflector, VerifyByReflector
  <2>4. o \in observed /\ o.feed = config.oracle_contract
    BY <2>3 DEF LastPrice
  <2>5. o.timestamp + MAX_PRICE_AGE_SECONDS >= now
    BY <2>3, <2>4, FreshIsRecent
  <2>6. /\ decision'[m].config = config /\ decision'[m].at = now
        /\ decision'[m].outcome = r.outcome
    BY <2>2 DEF ByPrice
  <2>. QED
    BY <1>1, <2>3, <2>4, <2>5, <2>6 DEF ResolvedYes
<1>5. ASSUME NEW r \in Reports, NEW m \in Markets, NEW d \in Decision,
             Decide(r.market_id, d), m # r.market_id
      PROVE  decision'[m] = decision[m]
  BY <1>5 DEF TypeOK, Decide
<1>6. CASE ResolutionStep
  <2>1. attested' = attested
    BY <1>6 DEF ResolutionStep, ResolveByKey, ResolveByReflector, ResolveByThreshold, worldVars
  <2>2. ASSUME NEW m \in Markets, decision'[m] # Absent, decision'[m].path = "Reflector"
        PROVE  Behind(m)'
    <3>1. ASSUME NEW r \in Reports, NEW sig \in signed, ResolveByKey(r, sig)
          PROVE  Behind(m)'
      <4>1. CASE m = r.market_id
        BY <2>2, <3>1, <4>1 DEF TypeOK, ResolveByKey, Decide, ByKeys
      <4>2. CASE m # r.market_id
        BY <1>2, <2>2, <3>1, <4>2 DEF TypeOK, ResolveByKey, Decide
      <4>. QED
        BY <4>1, <4>2
    <3>2. ASSUME NEW r \in Reports, NEW sigs \in Batches, ResolveByThreshold(r, sigs)
          PROVE  Behind(m)'
      <4>1. CASE m = r.market_id
        BY <2>2, <3>2, <4>1 DEF TypeOK, ResolveByThreshold, Decide, ByKeys
      <4>2. CASE m # r.market_id
        BY <1>2, <2>2, <3>2, <4>2 DEF TypeOK, ResolveByThreshold, Decide
      <4>. QED
        BY <4>1, <4>2
    <3>3. ASSUME NEW r \in Reports, ResolveByReflector(r)
          PROVE  Behind(m)'
      <4>1. CASE m = r.market_id
        BY <1>4, <3>3, <4>1
      <4>2. CASE m # r.market_id
        BY <1>2, <2>2, <3>3, <4>2 DEF TypeOK, ResolveByReflector, Decide
      <4>. QED
        BY <4>1, <4>2
    <3>. QED
      BY <1>6, <3>1, <3>2, <3>3 DEF ResolutionStep
  <2>. QED
    BY <1>3, <2>1, <2>2 DEF PriceBehindOutcome
<1>7. ASSUME NEW price \in Prices, NEW outcome \in BOOLEAN,
             NEW vaa \in observed \cup {Absent}, AttestByPyth(price, outcome, vaa)
      PROVE  PriceBehindOutcome'
  <2>1. decision' = decision
    BY <1>7 DEF AttestByPyth, marketVars
  <2>2. Received(vaa) \in observed
    BY <1>7 DEF AttestByPyth, VerifyByPyth, Received, WorldInvariant
  <2>3. Received(vaa).timestamp + MAX_PRICE_AGE_SECONDS >= now
    BY <1>7, <2>2, FreshIsRecent DEF AttestByPyth, VerifyByPyth
  <2>4. /\ attested'.at = now /\ attested'.outcome = outcome
        /\ attested'.resolution_price = price
        /\ ResolvedYes(Received(vaa), price) = outcome
    BY <1>7 DEF AttestByPyth, VerifyByPyth
  <2>. HIDE DEF Received
  <2>5. Attested'
    BY <1>1, <2>2, <2>3, <2>4 DEF ResolvedYes
  <2>. QED
    BY <1>2, <2>1, <2>5 DEF PriceBehindOutcome
<1>8. ASSUME NEW r \in Reports, NEW sig \in signed, AttestByEd25519(r, sig)
      PROVE  PriceBehindOutcome'
  <2>1. decision' = decision /\ attested'.adapter = "Ed25519"
    BY <1>8 DEF AttestByEd25519, marketVars
  <2>. QED
    BY <1>2, <2>1 DEF PriceBehindOutcome
<1>9. ASSUME decision' = decision, attested' = attested
      PROVE  PriceBehindOutcome'
  BY <1>2, <1>3, <1>9 DEF PriceBehindOutcome
<1>10. CASE AdminStep
  BY <1>9, <1>10 DEF AdminStep, EnableOracleAdapters, DisableV1, SetAdapterEnabled,
       SetMarketAdapterConfig, SetMarketOracle, ProposeThresholdSigners,
       ExecuteThresholdSigners, marketVars, worldVars
<1>11. CASE WorldStep
  BY <1>9, <1>11 DEF WorldStep, Sign, Quote, Tick, marketVars, worldVars
<1>12. CASE UNCHANGED vars
  BY <1>9, <1>12 DEF vars, marketVars, worldVars
<1>. QED
  BY <1>6, <1>7, <1>8, <1>10, <1>11, <1>12 DEF Next, AdapterStep

\* A market decided by price was decided by a recent price of its own feed, on the side
\* of the price that the feed was on; nothing that happens between the observation and
\* its use changes that (oracle_adapter.rs, verify_outcome).
THEOREM PricesStandBehind == Spec => []PriceBehindOutcome
<1>. DEFINE Inv == TypeOK /\ WorldInvariant /\ PriceBehindOutcome
<1>1. Init => Inv
  BY InitInvariant DEF OracleInvariant
<1>2. Inv /\ [Next]_vars => Inv'
  BY NextTypes, WorldPreserved, PricePreserved
<1>3. Inv => PriceBehindOutcome
  OBVIOUS
<1>. QED
  BY <1>1, <1>2, <1>3, PTL DEF Spec

-------------------------------------------------------------------------------
\* Quorums.

\* Two reports that say the same as far as their layout goes.
SaysTheSame(r, s) ==
  /\ r.version = s.version /\ r.market_id = s.market_id /\ r.outcome = s.outcome
  /\ s.version = "V2" =>
       r.network = s.network /\ r.valid_until = s.valid_until /\ r.epoch = s.epoch

\* Those of the signer list of whom a signature saying r exists.
Holders(r) ==
  {s.key : s \in {t \in signed : t.key \in Range(threshold.signers) /\ SaysTheSame(t.report, r)}}

\* A signature that verifies for r was made by the key, of something that says r.
LEMMA VerifiedSaysTheSame ==
  ASSUME WorldInvariant, NEW r \in Reports, NEW sig \in signed, NEW k,
         VerifyEd25519Safe(k, ConstructOracleMessage(r), sig)
  PROVE  sig.key = k /\ SaysTheSame(sig.report, r)
<1>1. sig.key = k /\ sig.report \in Reports
      /\ ConstructOracleMessage(sig.report) = ConstructOracleMessage(r)
  BY DEF VerifyEd25519Safe, WorldInvariant
<1>. HIDE DEF ConstructOracleMessage
<1>. QED
  BY <1>1, LayoutsBind DEF MessagesBind, SaysTheSame

LEMMA HoldersAreFinite ==
  ASSUME TypeOK, NEW r
  PROVE  /\ Holders(r) \subseteq Range(threshold.signers)
         /\ IsFiniteSet(Range(threshold.signers))
         /\ IsFiniteSet(Holders(r))
<1>1. Holders(r) \subseteq Range(threshold.signers)
  BY DEF Holders
<1>2. Range(threshold.signers) \subseteq Keys
  BY ThresholdFields
<1>. QED
  BY <1>1, <1>2, ConstantsAssumption, FS_Subset

\* The loop of verify_threshold_signatures counts entries; as no signer stands twice
\* in the list, it counts as many different holders.
LEMMA QuorumOfHolders ==
  ASSUME TypeOK, WorldInvariant,
         NEW r \in Reports, NEW sigs \in Batches, VerifyThresholdSignatures(r, sigs)
  PROVE  Cardinality(Holders(r)) >= threshold.quorum
<1>. DEFINE signers == threshold.signers
<1>1. signers \in Seq(Keys) /\ threshold.quorum \in Nat
  BY ThresholdFields
<1>2. \A i, j \in 1 .. Len(signers) : signers[i] = signers[j] => i = j
  BY DEF VerifyThresholdSignatures, ValidSigners
<1>3. PICK i \in DOMAIN signers \cap DOMAIN sigs :
        MetAt(r, signers, sigs, threshold.quorum, i)
  BY DEF VerifyThresholdSignatures, ThresholdMet
<1>. DEFINE valid == Valid(r, signers, sigs, i)
<1>4. Cardinality(valid) >= threshold.quorum
  BY <1>3 DEF MetAt
<1>5. PICK n \in 0 .. MaxBatch : sigs \in [1 .. n -> signed \cup {Absent}]
  BY DEF Batches
<1>6. i \in Nat /\ 1 .. i \subseteq 1 .. n /\ 1 .. i \subseteq 1 .. Len(signers)
  BY <1>1, <1>3, <1>5
<1>. HIDE DEF signers
<1>7. ASSUME NEW j \in valid
      PROVE  signers[j] \in Holders(r) /\ j \in 1 .. Len(signers)
  <2>1. j \in 1 .. i /\ VerifyEd25519Safe(signers[j], ConstructOracleMessage(r), sigs[j])
    BY DEF Valid
  <2>2. sigs[j] \in signed
    BY <2>1, <1>5, <1>6 DEF VerifyEd25519Safe
  <2>3. sigs[j].key = signers[j] /\ SaysTheSame(sigs[j].report, r)
    BY <2>1, <2>2, VerifiedSaysTheSame
  <2>4. j \in 1 .. Len(signers) /\ signers[j] \in Range(threshold.signers)
    BY <2>1, <1>1, <1>6 DEF signers, Range
  <2>. QED
    BY <2>2, <2>3, <2>4 DEF Holders
<1>. DEFINE holder == [j \in valid |-> signers[j]]
<1>8. holder \in [valid -> Holders(r)]
  BY <1>7
<1>9. \A a, b \in valid : holder[a] = holder[b] => a = b
  BY <1>2, <1>7 DEF signers
<1>10. holder \in Injection(valid, Holders(r))
  <2>. HIDE DEF holder, valid
  <2>. QED
    BY <1>8, <1>9 DEF Injection, IsInjective
<1>11. Cardinality(valid) <= Cardinality(Holders(r)) /\ IsFiniteSet(valid)
  <2>. HIDE DEF holder, valid
  <2>. QED
    BY <1>10, HoldersAreFinite, FS_Injection
<1>12. Cardinality(valid) \in Nat /\ Cardinality(Holders(r)) \in Nat
  <2>. HIDE DEF valid
  <2>. QED
    BY <1>11, HoldersAreFinite, FS_CardinalityType
<1>. QED
  <2>. HIDE DEF valid
  <2>. QED
    BY <1>1, <1>4, <1>11, <1>12

\* The keys that vouch for a decision of market m.
Vouching(m) == {s.key : s \in {t \in signed : Vouches(t, m, decision[m])}}

LEMMA VouchingIsFinite ==
  ASSUME TypeOK, NEW m
  PROVE  IsFiniteSet(Vouching(m)) /\ Cardinality(Vouching(m)) \in Nat
<1>1. Vouching(m) \subseteq Keys
  BY DEF TypeOK, Signature, Vouching
<1>2. IsFiniteSet(Vouching(m))
  BY <1>1, ConstantsAssumption, FS_Subset
<1>. QED
  BY <1>2, FS_CardinalityType

\* A decision stays backed as more is signed.
LEMMA BackingStays ==
  ASSUME TypeOK, TypeOK', NEW m \in Markets, decision'[m] = decision[m],
         signed \subseteq signed', decision[m] # Absent,
         Cardinality(Vouching(m)) >= decision[m].need
  PROVE  Cardinality(Vouching(m)') >= decision[m].need
<1>1. Vouching(m) \subseteq Vouching(m)'
  BY DEF Vouching, Vouches
<1>2. IsFiniteSet(Vouching(m)') /\ Cardinality(Vouching(m)') \in Nat
  <2>1. Vouching(m)' \subseteq Keys
    BY DEF TypeOK, Signature, Vouching
  <2>2. IsFiniteSet(Vouching(m)')
    BY <2>1, ConstantsAssumption, FS_Subset
  <2>. QED
    BY <2>2, FS_CardinalityType
<1>3. Cardinality(Vouching(m)) <= Cardinality(Vouching(m)')
  BY <1>1, <1>2, FS_Subset
<1>4. decision[m].need \in Nat
  BY DEF TypeOK, Decision
<1>5. Cardinality(Vouching(m)) \in Nat
  BY VouchingIsFinite
<1>. HIDE DEF Vouching
<1>. QED
  BY <1>2, <1>3, <1>4, <1>5

\* Who said what r says vouches for the decision that accepted r here and now.
LEMMA SaidIsVouched ==
  ASSUME TypeOK, NEW r \in Reports, NEW d, NEW s, SaysTheSame(s.report, r), s.key \in d.keys,
         d.report = r, d.outcome = r.outcome, d.at = now,
         r.version = "V2" => RequireCurrentNetwork(r) /\ NotExpired(r)
  PROVE  Vouches(s, r.market_id, d)
<1>1. r.valid_until \in Nat /\ now \in Nat
  BY ReportFields DEF TypeOK, Report
<1>. QED
  BY <1>1 DEF Vouches, SaysTheSame, RequireCurrentNetwork, NotExpired

LEMMA KeyDecisionIsBacked ==
  ASSUME TypeOK, TypeOK', WorldInvariant,
         NEW r \in Reports, NEW sig \in signed, ResolveByKey(r, sig)
  PROVE  Cardinality(Vouching(r.market_id)') >= decision'[r.market_id].need
<1>. DEFINE m == r.market_id
            k == oracle_pubkey[m]
            d == decision'[m]
<1>1. m \in Markets
  BY ReportFields
<1>2. signed' = signed
  BY DEF ResolveByKey, worldVars
<1>3. d.keys = {k} /\ d.need = 1 /\ d.report = r /\ d.outcome = r.outcome /\ d.at = now
  BY <1>1 DEF TypeOK, ResolveByKey, Decide, ByKeys
<1>4. sig.key = k /\ SaysTheSame(sig.report, r)
  BY VerifiedSaysTheSame DEF ResolveByKey, VerifyOracleSignature
<1>5. r.version = "V2" => RequireCurrentNetwork(r) /\ NotExpired(r)
  BY DEF ResolveByKey, VerifyOracleSignature
<1>6. Vouches(sig, m, d)
  BY <1>3, <1>4, <1>5, SaidIsVouched
<1>7. k \in Vouching(m)'
  BY <1>2, <1>4, <1>6 DEF Vouching, Vouches
<1>8. IsFiniteSet(Vouching(m)') /\ Cardinality(Vouching(m)') \in Nat
  <2>1. Vouching(m)' \subseteq Keys
    BY DEF TypeOK, Signature, Vouching
  <2>2. IsFiniteSet(Vouching(m)')
    BY <2>1, ConstantsAssumption, FS_Subset
  <2>. QED
    BY <2>2, FS_CardinalityType
<1>9. Cardinality(Vouching(m)') # 0
  BY <1>7, <1>8, FS_EmptySet
<1>. HIDE DEF Vouching, d
<1>. QED
  BY <1>3, <1>8, <1>9 DEF d

LEMMA QuorumDecisionIsBacked ==
  ASSUME TypeOK, TypeOK', WorldInvariant,
         NEW r \in Reports, NEW sigs \in Batches, ResolveByThreshold(r, sigs)
  PROVE  Cardinality(Vouching(r.market_id)') >= decision'[r.market_id].need
<1>. DEFINE m == r.market_id
            d == decision'[m]
<1>1. m \in Markets
  BY ReportFields
<1>2. signed' = signed
  BY DEF ResolveByThreshold, worldVars
<1>3. /\ d.keys = Range(threshold.signers) /\ d.need = threshold.quorum
      /\ d.report = r /\ d.outcome = r.outcome /\ d.at = now
  BY <1>1 DEF TypeOK, ResolveByThreshold, Decide, ByKeys
<1>4. Cardinality(Holders(r)) >= threshold.quorum
  BY QuorumOfHolders DEF ResolveByThreshold
<1>5. r.version = "V2" => RequireCurrentNetwork(r) /\ NotExpired(r)
  BY DEF ResolveByThreshold, VerifyThresholdSignatures
<1>6. ASSUME NEW s \in signed, s.key \in Range(threshold.signers), SaysTheSame(s.report, r)
      PROVE  Vouches(s, m, d)
  BY <1>3, <1>5, <1>6, SaidIsVouched
<1>7. Holders(r) \subseteq Vouching(m)'
  BY <1>2, <1>6 DEF Holders, Vouching, Vouches
<1>8. IsFiniteSet(Vouching(m)') /\ Cardinality(Vouching(m)') \in Nat
  <2>1. Vouching(m)' \subseteq Keys
    BY DEF TypeOK, Signature, Vouching
  <2>2. IsFiniteSet(Vouching(m)')
    BY <2>1, ConstantsAssumption, FS_Subset
  <2>. QED
    BY <2>2, FS_CardinalityType
<1>9. Cardinality(Holders(r)) <= Cardinality(Vouching(m)')
  BY <1>7, <1>8, FS_Subset
<1>10. Cardinality(Holders(r)) \in Nat
  BY HoldersAreFinite, FS_CardinalityType
<1>11. threshold.quorum \in Nat
  BY ThresholdFields
<1>. HIDE DEF Vouching, Holders, d
<1>. QED
  BY <1>3, <1>4, <1>8, <1>9, <1>10, <1>11 DEF d

LEMMA BackedPreserved ==
  ASSUME TypeOK, TypeOK', WorldInvariant, BackedByItsSigners, [Next]_vars
  PROVE  BackedByItsSigners'
<1>1. signed \subseteq signed'
  BY EvidenceStays
<1>2. ASSUME NEW m \in Markets, decision'[m] = decision[m],
             decision'[m] # Absent, decision'[m].path # "Reflector"
      PROVE  Cardinality(Vouching(m)') >= decision'[m].need
  <2>1. Cardinality(Vouching(m)) >= decision[m].need
    BY <1>2 DEF BackedByItsSigners, Vouching
  <2>. QED
    BY <1>1, <1>2, <2>1, BackingStays
<1>3. SUFFICES ASSUME NEW m \in Markets, decision'[m] # Absent, decision'[m].path # "Reflector"
               PROVE  Cardinality(Vouching(m)') >= decision'[m].need
  BY DEF BackedByItsSigners, Vouching
<1>4. ASSUME NEW r \in Reports, NEW sig \in signed, ResolveByKey(r, sig)
      PROVE  Cardinality(Vouching(m)') >= decision'[m].need
  <2>1. CASE m = r.market_id
    BY <1>4, <2>1, KeyDecisionIsBacked
  <2>2. CASE m # r.market_id
    BY <1>2, <1>3, <1>4, <2>2 DEF TypeOK, ResolveByKey, Decide
  <2>. QED
    BY <2>1, <2>2
<1>5. ASSUME NEW r \in Reports, NEW sigs \in Batches, ResolveByThreshold(r, sigs)
      PROVE  Cardinality(Vouching(m)') >= decision'[m].need
  <2>1. CASE m = r.market_id
    BY <1>5, <2>1, QuorumDecisionIsBacked
  <2>2. CASE m # r.market_id
    BY <1>2, <1>3, <1>5, <2>2 DEF TypeOK, ResolveByThreshold, Decide
  <2>. QED
    BY <2>1, <2>2
<1>6. ASSUME NEW r \in Reports, ResolveByReflector(r)
      PROVE  Cardinality(Vouching(m)') >= decision'[m].need
  <2>1. m # r.market_id
    BY <1>3, <1>6 DEF TypeOK, ResolveByReflector, Decide, ByPrice
  <2>. QED
    BY <1>2, <1>3, <1>6, <2>1 DEF TypeOK, ResolveByReflector, Decide
<1>7. ASSUME decision' = decision
      PROVE  Cardinality(Vouching(m)') >= decision'[m].need
  BY <1>2, <1>3, <1>7
<1>8. CASE ResolutionStep
  BY <1>4, <1>5, <1>6, <1>8 DEF ResolutionStep
<1>9. CASE AdapterStep \/ AdminStep \/ WorldStep \/ UNCHANGED vars
  BY <1>7, <1>9 DEF AdapterStep, AttestByEd25519, AttestByPyth, AdminStep,
       EnableOracleAdapters, DisableV1, SetAdapterEnabled, SetMarketAdapterConfig,
       SetMarketOracle, ProposeThresholdSigners, ExecuteThresholdSigners,
       WorldStep, Sign, Quote, Tick, vars, marketVars
<1>. QED
  BY <1>8, <1>9 DEF Next

\* Whatever market, layout and entrypoint: a market decided by keys was decided by as
\* many different holders as that path asks for, each of whom meant this market, this
\* outcome and, in the V2 layout, this network, epoch and time (oracle.rs, the
\* verification functions together with the guards of their callers).
THEOREM DecisionsAreBacked == Spec => []BackedByItsSigners
<1>. DEFINE Inv == TypeOK /\ WorldInvariant /\ BackedByItsSigners
<1>1. Init => Inv
  BY InitInvariant DEF OracleInvariant
<1>2. Inv /\ [Next]_vars => Inv'
  BY NextTypes, WorldPreserved, BackedPreserved
<1>3. Inv => BackedByItsSigners
  OBVIOUS
<1>. QED
  BY <1>1, <1>2, <1>3, PTL DEF Spec

\* A list has at most as many members as entries.
LEMMA SignersBounded ==
  ASSUME TypeOK
  PROVE  Cardinality(Range(threshold.signers)) <= Len(threshold.signers)
<1>. DEFINE signers == threshold.signers
<1>1. signers \in Seq(Keys) /\ Len(signers) \in Nat /\ DOMAIN signers = 1 .. Len(signers)
  BY ThresholdFields
<1>2. signers \in [1 .. Len(signers) -> Range(signers)]
  BY <1>1 DEF Range
<1>3. signers \in Surjection(1 .. Len(signers), Range(signers))
  BY <1>1, <1>2 DEF Surjection, Range
<1>. HIDE DEF signers
<1>4. ExistsSurjection(1 .. Len(signers), Range(signers))
  BY <1>3 DEF ExistsSurjection
<1>. QED
  BY <1>1, <1>4, FS_SurjCardinalityBound DEF signers

\* Under an honest majority two quorums share a holder who is not faulty.
LEMMA QuorumsShareHonest ==
  ASSUME TypeOK, HonestMajority, NEW r, NEW s,
         Cardinality(Holders(r)) >= threshold.quorum,
         Cardinality(Holders(s)) >= threshold.quorum
  PROVE  \E k \in Holders(r) \cap Holders(s) : k \notin Faulty
<1>. DEFINE all == Range(threshold.signers)
            q == threshold.quorum
            shared == Holders(r) \cap Holders(s)
            bad == Faulty \cap all
<1>1. /\ Holders(r) \subseteq all /\ Holders(s) \subseteq all
      /\ IsFiniteSet(all) /\ IsFiniteSet(Holders(r)) /\ IsFiniteSet(Holders(s))
  BY HoldersAreFinite
<1>2. Cardinality(all) <= Len(threshold.signers) /\ Len(threshold.signers) \in Nat
  BY SignersBounded, ThresholdFields
<1>3. q \in Nat
  BY ThresholdFields
<1>4. 2 * q > Len(threshold.signers) + Cardinality(bad)
  BY DEF HonestMajority
<1>. SUFFICES ASSUME ~(\E k \in shared : k \notin Faulty)
              PROVE  FALSE
  OBVIOUS
<1>5. shared \subseteq bad
  BY <1>1
<1>. HIDE DEF all, Holders
<1>6. IsFiniteSet(bad) /\ Cardinality(bad) \in Nat
  <2>1. IsFiniteSet(bad)
    BY <1>1, FS_Subset
  <2>. HIDE DEF bad
  <2>. QED
    BY <2>1, FS_CardinalityType
<1>7. Cardinality(shared) <= Cardinality(bad)
  <2>. HIDE DEF bad, shared
  <2>. QED
    BY <1>5, <1>6, FS_Subset
<1>8. /\ IsFiniteSet(Holders(r) \cup Holders(s))
      /\ Cardinality(Holders(r) \cup Holders(s)) =
           Cardinality(Holders(r)) + Cardinality(Holders(s)) - Cardinality(shared)
  BY <1>1, FS_Union
<1>9. Cardinality(Holders(r) \cup Holders(s)) <= Cardinality(all)
  BY <1>1, FS_Subset
<1>10. /\ Cardinality(Holders(r)) \in Nat /\ Cardinality(Holders(s)) \in Nat
       /\ Cardinality(all) \in Nat /\ Cardinality(Holders(r) \cup Holders(s)) \in Nat
  BY <1>1, <1>8, FS_CardinalityType
<1>11. Cardinality(shared) \in Nat
  <2>1. IsFiniteSet(shared)
    BY <1>1, FS_Intersection
  <2>. HIDE DEF shared
  <2>. QED
    BY <2>1, FS_CardinalityType
<1>. HIDE DEF shared, bad, q
<1>12. Cardinality(Holders(r)) >= q /\ Cardinality(Holders(s)) >= q
  BY DEF q
<1>. QED
  BY <1>2, <1>3, <1>4, <1>6, <1>7, <1>8, <1>9, <1>10, <1>11, <1>12

\* What the two quorums said of one market is one thing.
LEMMA InvariantAgrees ==
  ASSUME TypeOK, WorldInvariant
  PROVE  QuorumsAgree
<1>. SUFFICES ASSUME HonestMajority, NEW r \in Acceptable, NEW s \in Acceptable,
                     r.market_id = s.market_id
              PROVE  r.outcome = s.outcome
  BY DEF QuorumsAgree
<1>1. ASSUME NEW a \in Acceptable
      PROVE  /\ a \in Reports /\ a.version = "V2"
             /\ a.network = CurrentNetwork
             /\ Cardinality(Holders(a)) >= threshold.quorum
  <2>1. a \in Reports /\ a.version = "V2"
    BY DEF Acceptable
  <2>2. PICK sigs \in Batches : VerifyThresholdSignatures(a, sigs)
    BY DEF Acceptable
  <2>3. a.network = CurrentNetwork
    BY <2>1, <2>2 DEF VerifyThresholdSignatures, RequireCurrentNetwork
  <2>. QED
    BY <2>1, <2>2, <2>3, QuorumOfHolders
<1>2. PICK k \in Holders(r) \cap Holders(s) : k \notin Faulty
  BY <1>1, QuorumsShareHonest
<1>3. PICK t \in signed : t.key = k /\ SaysTheSame(t.report, r)
  BY <1>2 DEF Holders
<1>4. PICK u \in signed : u.key = k /\ SaysTheSame(u.report, s)
  BY <1>2 DEF Holders
<1>5. SameMarket(t.report, u.report)
  BY <1>1, <1>3, <1>4 DEF SaysTheSame, SameMarket
<1>6. t.report.outcome = u.report.outcome
  BY <1>2, <1>3, <1>4, <1>5 DEF WorldInvariant
<1>. QED
  BY <1>3, <1>4, <1>6 DEF SaysTheSame

\* Under an honest majority of the signer list in force, two quorums are never accepted
\* for opposite outcomes of a market, although each is only examined up to its quorum
\* (oracle.rs, verify_threshold_signatures_v2).
THEOREM QuorumsAlwaysAgree == Spec => []QuorumsAgree
<1>. DEFINE Inv == TypeOK /\ WorldInvariant
<1>1. Init => Inv
  BY InitInvariant DEF OracleInvariant
<1>2. Inv /\ [Next]_vars => Inv'
  BY NextTypes, WorldPreserved
<1>3. Inv => QuorumsAgree
  BY InvariantAgrees
<1>. QED
  BY <1>1, <1>2, <1>3, PTL DEF Spec

\* What was signed for one claim verifies for no other, whatever is signed: neither in
\* the other layout nor for another network, market, outcome, deadline or epoch, for
\* every radix and all widths the numbers fit (oracle.rs, the preimage layouts).
THEOREM MessagesStayDistinct == Spec => []MessagesAreDistinct
<1>. DEFINE Inv == TypeOK /\ WorldInvariant
<1>1. Init => Inv
  BY InitInvariant DEF OracleInvariant
<1>2. Inv /\ [Next]_vars => Inv'
  BY NextTypes, WorldPreserved
<1>3. Inv => MessagesAreDistinct
  BY SignedAreDistinct DEF WorldInvariant
<1>. QED
  BY <1>1, <1>2, <1>3, PTL DEF Spec

-------------------------------------------------------------------------------
\* The threshold loop.

\* What entry i says, and the state of the loop between two entries.
EntrySays(signers, sigs, i, report) ==
  VerifyEd25519Safe(signers[i], ConstructOracleMessage(report), sigs[i])

LoopState == [valid : Nat, end : {"none", "refused", "accepted"}]

LoopStart == [valid |-> 0, end |-> "none"]

LoopStep(r, signers, sigs, quorum, i, before) ==
  IF before.end # "none" THEN before
  ELSE IF EntrySays(signers, sigs, i, Opposite(r)) THEN [before EXCEPT !.end = "refused"]
  ELSE IF ~EntrySays(signers, sigs, i, r) THEN before
  ELSE [valid |-> before.valid + 1,
        end |-> IF before.valid + 1 >= quorum THEN "accepted" ELSE "none"]

\* after is the sequence of states of the loop over n entries.
LoopRuns(after, n, r, signers, sigs, quorum) ==
  /\ after[0] = LoopStart
  /\ \A i \in 1 .. n : after[i] = LoopStep(r, signers, sigs, quorum, i, after[i - 1])

\* The recursive function of the loop has the equations of its steps.
LEMMA LoopRunsToTheEnd ==
  ASSUME NEW r, NEW signers, NEW sigs, NEW quorum, ExaminedEntries(signers, sigs) \in Nat
  PROVE  \E after : /\ LoopRuns(after, ExaminedEntries(signers, sigs), r, signers, sigs, quorum)
                    /\ ThresholdLoop(r, signers, sigs, quorum)
                         = after[ExaminedEntries(signers, sigs)].end
<1> DEFINE n == ExaminedEntries(signers, sigs)
           Step(i, before) == LoopStep(r, signers, sigs, quorum, i, before)
           next == [p \in (1 .. n) \X LoopState |-> Step(p[1], p[2])]
           Is(f) == f = [i \in 0 .. n |-> IF i = 0 THEN LoopStart ELSE Step(i, f[i - 1])]
           h == CHOOSE f : Is(f)
<1>1. \A i \in 1 .. n, before \in LoopState : Step(i, before) \in LoopState
  BY DEF LoopStep, LoopState
<1> HIDE DEF n, Step
<1>2. Steps(next, n, LoopState)
  BY <1>1 DEF Steps
<1>3. n \in Nat /\ LoopStart \in LoopState
  BY DEF n, LoopStart, LoopState
<1>4. PICK f : Unrolls(f, n, LoopState, LoopStart, next) /\ f = f
  <2> HIDE DEF next
  <2> QED
    BY <1>2, <1>3, RecursionUpTo
<1>5. /\ f \in [0 .. n -> LoopState] /\ f[0] = LoopStart
      /\ \A i \in 1 .. n : f[i] = Step(i, f[i - 1])
  <2>1. f \in [0 .. n -> LoopState] /\ f[0] = LoopStart
        /\ \A i \in 1 .. n : f[i] = next[<<i, f[i - 1]>>]
    <3> HIDE DEF next
    <3> QED BY <1>4 DEF Unrolls
  <2>2. ASSUME NEW i \in 1 .. n PROVE f[i] = Step(i, f[i - 1])
    <3>1. i - 1 \in 0 .. n
      BY <1>3
    <3>2. f[i - 1] \in LoopState
      BY <2>1, <3>1
    <3>3. f[i] = next[<<i, f[i - 1]>>]
      <4> HIDE DEF next
      <4> QED
        BY <2>1
    <3> QED
      BY <3>2, <3>3
  <2> QED
    BY <2>1, <2>2
<1>6. Is(f)
  BY <1>5
<1>7. Is(h)
  BY <1>6, Zenon
<1>8. ThresholdLoop(r, signers, sigs, quorum) = h[n].end
  BY Zenon DEF ThresholdLoop, LoopStart, LoopStep, EntrySays, Step, n
<1> HIDE DEF h
<1>9. h[0] = LoopStart /\ \A i \in 1 .. n : h[i] = Step(i, h[i - 1])
  BY <1>3, <1>7
<1>10. LoopRuns(h, n, r, signers, sigs, quorum)
  BY <1>9 DEF LoopRuns, Step
<1> QED
  BY <1>8, <1>10 DEF n

\* One entry more.
LEMMA OneEntryMore ==
  ASSUME NEW report, NEW signers, NEW sigs, NEW i \in Nat
  PROVE  /\ Valid(report, signers, sigs, i + 1)
              = Valid(report, signers, sigs, i)
                \cup (IF EntrySays(signers, sigs, i + 1, report) THEN {i + 1} ELSE {})
         /\ i + 1 \notin Valid(report, signers, sigs, i)
         /\ IsFiniteSet(Valid(report, signers, sigs, i))
<1>1. (1 .. i + 1) = (1 .. i) \cup {i + 1} /\ i + 1 \notin 1 .. i
  OBVIOUS
<1>2. IsFiniteSet(1 .. i)
  BY FS_Interval
<1>3. IsFiniteSet(Valid(report, signers, sigs, i))
  BY <1>2, FS_Subset DEF Valid
<1> QED
  BY <1>1, <1>3 DEF Valid, EntrySays

\* Where the loop stands after i entries.
LoopStands(s, i, r, signers, sigs, quorum) ==
  /\ s \in LoopState
  /\ s.end = "none" =>
       /\ s.valid = Cardinality(Valid(r, signers, sigs, i)) /\ s.valid < quorum
       /\ Valid(Opposite(r), signers, sigs, i) = {}
  /\ s.end = "refused" => Valid(Opposite(r), signers, sigs, i) # {}
  /\ s.end = "accepted" <=> \E j \in 1 .. i : MetAt(r, signers, sigs, quorum, j)

LEMMA LoopStandsAtFirst ==
  ASSUME NEW r, NEW signers, NEW sigs, NEW quorum \in Nat \ {0}
  PROVE  LoopStands(LoopStart, 0, r, signers, sigs, quorum)
<1>1. \A report : Valid(report, signers, sigs, 0) = {}
  BY DEF Valid
<1>2. Cardinality(Valid(r, signers, sigs, 0)) = 0
  BY <1>1, FS_EmptySet
<1> QED
  BY <1>1, <1>2 DEF LoopStands, LoopStart, LoopState

\* One entry of the loop keeps what is said of the entries before it.
LEMMA LoopStandsNext ==
  ASSUME NEW r, NEW signers, NEW sigs, NEW quorum \in Nat \ {0}, NEW i \in Nat,
         NEW s, LoopStands(s, i, r, signers, sigs, quorum)
  PROVE  LoopStands(LoopStep(r, signers, sigs, quorum, i + 1, s), i + 1, r, signers, sigs, quorum)
<1> DEFINE V(k) == Valid(r, signers, sigs, k)
           O(k) == Valid(Opposite(r), signers, sigs, k)
           Met(k) == MetAt(r, signers, sigs, quorum, k)
           pro == EntrySays(signers, sigs, i + 1, r)
           con == EntrySays(signers, sigs, i + 1, Opposite(r))
           t == LoopStep(r, signers, sigs, quorum, i + 1, s)
<1>1. /\ V(i + 1) = V(i) \cup (IF pro THEN {i + 1} ELSE {}) /\ i + 1 \notin V(i)
      /\ O(i + 1) = O(i) \cup (IF con THEN {i + 1} ELSE {})
      /\ IsFiniteSet(V(i))
  BY OneEntryMore
<1>2. /\ s \in LoopState
      /\ s.end = "none" => s.valid = Cardinality(V(i)) /\ s.valid < quorum /\ O(i) = {}
      /\ s.end = "refused" => O(i) # {}
      /\ s.end = "accepted" <=> \E j \in 1 .. i : Met(j)
  BY DEF LoopStands
<1>3. Met(i + 1) <=> Cardinality(V(i + 1)) >= quorum /\ O(i + 1) = {}
  BY DEF MetAt
<1>4. Cardinality(V(i + 1)) = IF pro THEN Cardinality(V(i)) + 1 ELSE Cardinality(V(i))
  <2> HIDE DEF V, pro
  <2>1. CASE pro
    <3>1. V(i + 1) = V(i) \cup {i + 1}
      BY <1>1, <2>1
    <3> QED
      BY <1>1, <2>1, <3>1, FS_AddElement
  <2>2. CASE ~pro
    BY <1>1, <2>2
  <2> QED
    BY <2>1, <2>2
<1>5. t = IF s.end # "none" THEN s
          ELSE IF con THEN [s EXCEPT !.end = "refused"]
          ELSE IF ~pro THEN s
          ELSE [valid |-> s.valid + 1,
                end |-> IF s.valid + 1 >= quorum THEN "accepted" ELSE "none"]
  BY DEF LoopStep
<1>6. (\E j \in 1 .. i + 1 : Met(j)) <=> (\E j \in 1 .. i : Met(j)) \/ Met(i + 1)
  <2> HIDE DEF Met
  <2>1. (1 .. i + 1) = (1 .. i) \cup {i + 1}
    OBVIOUS
  <2> QED
    BY <2>1
<1>7. SUFFICES /\ t \in LoopState
               /\ t.end = "none" => t.valid = Cardinality(V(i + 1)) /\ t.valid < quorum
                                    /\ O(i + 1) = {}
               /\ t.end = "refused" => O(i + 1) # {}
               /\ t.end = "accepted" <=> (\E j \in 1 .. i : Met(j)) \/ Met(i + 1)
  BY <1>6 DEF LoopStands
<1>8. Cardinality(V(i)) \in Nat
  BY <1>1, FS_CardinalityType
<1> DEFINE metBefore == \E j \in 1 .. i : Met(j)
<1> HIDE DEF V, O, pro, con, t, Met, metBefore
<1>9. s.end = "accepted" <=> metBefore
  BY <1>2 DEF metBefore
<1>10. CASE s.end = "accepted"
  <2>1. t = s
    BY <1>5, <1>10
  <2> QED
    BY <1>2, <1>9, <1>10, <2>1 DEF metBefore
<1>11. CASE s.end = "refused"
  <2>1. t = s
    BY <1>5, <1>11
  <2>2. O(i + 1) # {} /\ ~Met(i + 1) /\ ~metBefore
    BY <1>1, <1>2, <1>3, <1>9, <1>11
  <2> QED
    BY <1>2, <1>11, <2>1, <2>2 DEF metBefore
<1>12. CASE s.end = "none" /\ con
  <2>1. t = [s EXCEPT !.end = "refused"]
    BY <1>5, <1>12
  <2>2. t \in LoopState /\ t.end = "refused"
    BY <1>2, <2>1 DEF LoopState
  <2>3. O(i + 1) # {} /\ ~Met(i + 1) /\ ~metBefore
    BY <1>1, <1>3, <1>9, <1>12
  <2> QED
    BY <2>2, <2>3 DEF metBefore
<1>13. CASE s.end = "none" /\ ~con /\ ~pro
  <2>1. t = s
    BY <1>5, <1>13
  <2>2. O(i + 1) = {} /\ Cardinality(V(i + 1)) = s.valid /\ s.valid < quorum /\ s.valid \in Nat
    BY <1>1, <1>2, <1>4, <1>8, <1>13
  <2>3. ~Met(i + 1) /\ ~metBefore
    BY <1>3, <1>9, <1>13, <2>2
  <2> QED
    BY <1>2, <1>13, <2>1, <2>2, <2>3 DEF metBefore
<1>14. CASE s.end = "none" /\ ~con /\ pro
  <2>1. t = [valid |-> s.valid + 1,
             end |-> IF s.valid + 1 >= quorum THEN "accepted" ELSE "none"]
    BY <1>5, <1>14
  <2>2. O(i + 1) = {} /\ Cardinality(V(i + 1)) = s.valid + 1 /\ s.valid \in Nat
    BY <1>1, <1>2, <1>4, <1>8, <1>14
  <2>3. t \in LoopState /\ t.valid = s.valid + 1
        /\ (t.end = "accepted" <=> s.valid + 1 >= quorum)
        /\ (t.end = "none" <=> s.valid + 1 < quorum) /\ t.end # "refused"
    BY <2>1, <2>2 DEF LoopState
  <2>4. (Met(i + 1) <=> s.valid + 1 >= quorum) /\ ~metBefore
    BY <1>3, <1>9, <1>14, <2>2
  <2> QED
    BY <2>2, <2>3, <2>4 DEF metBefore
<1> QED
  BY <1>2, <1>10, <1>11, <1>12, <1>13, <1>14 DEF LoopState

\* The closed form and the loop accept the same batches.
LEMMA ClosedFormIsLoop ==
  ASSUME NEW r, NEW signers \in Seq(Keys), NEW sigs, NEW k \in Nat, DOMAIN sigs = 1 .. k,
         Len(sigs) = k, NEW quorum \in Nat \ {0}
  PROVE  ThresholdMet(r, signers, sigs, quorum)
           <=> ThresholdLoop(r, signers, sigs, quorum) = "accepted"
<1> DEFINE n == ExaminedEntries(signers, sigs)
<1>1. n \in Nat /\ DOMAIN signers \cap DOMAIN sigs = 1 .. n
  BY DEF ExaminedEntries
<1>2. PICK after : LoopRuns(after, n, r, signers, sigs, quorum)
                   /\ ThresholdLoop(r, signers, sigs, quorum) = after[n].end
  BY <1>1, LoopRunsToTheEnd
<1> HIDE DEF n
<1> DEFINE Q == {i \in 0 .. n : LoopStands(after[i], i, r, signers, sigs, quorum)}
<1>3. 0 \in Q
  BY <1>1, <1>2, LoopStandsAtFirst DEF LoopRuns
<1>4. ASSUME NEW i \in 0 .. n, i < n, i \in Q PROVE i + 1 \in Q
  <2>1. i + 1 \in 1 .. n /\ i + 1 \in 0 .. n /\ (i + 1) - 1 = i /\ i \in Nat
    BY <1>1, <1>4
  <2>2. after[i + 1] = LoopStep(r, signers, sigs, quorum, i + 1, after[i])
    BY <1>2, <2>1 DEF LoopRuns
  <2>3. LoopStands(after[i], i, r, signers, sigs, quorum)
    BY <1>4
  <2>4. LoopStands(after[i + 1], i + 1, r, signers, sigs, quorum)
    BY <2>1, <2>2, <2>3, LoopStandsNext
  <2> QED
    BY <2>1, <2>4
<1>5. n \in Q
  <2>1. n \in 0 .. n
    BY <1>1
  <2> HIDE DEF Q
  <2> QED
    BY <1>1, <1>3, <1>4, <2>1, CountingUp, Zenon
<1>6. after[n].end = "accepted" <=> \E j \in 1 .. n : MetAt(r, signers, sigs, quorum, j)
  BY <1>5 DEF LoopStands
<1> QED
  BY <1>1, <1>2, <1>6, Zenon DEF ThresholdMet

LEMMA LoopAlwaysAgreesNow ==
  ASSUME TypeOK
  PROVE  LoopAgrees
<1>. SUFFICES ASSUME ValidSigners(threshold.signers, threshold.quorum),
                     NEW r \in Reports, NEW sigs \in Batches
              PROVE  ThresholdMet(r, threshold.signers, sigs, threshold.quorum)
                       <=> ThresholdLoop(r, threshold.signers, sigs, threshold.quorum) = "accepted"
  BY DEF LoopAgrees
<1>. DEFINE signers == threshold.signers
            quorum == threshold.quorum
<1>1. signers \in Seq(Keys) /\ quorum \in Nat \ {0}
  BY ThresholdFields DEF ValidSigners
<1>2. PICK k \in 0 .. MaxBatch : sigs \in [1 .. k -> signed \cup {Absent}]
  BY DEF Batches
<1>3. k \in Nat /\ DOMAIN sigs = 1 .. k /\ Len(sigs) = k
  BY <1>2
<1>. HIDE DEF signers, quorum
<1>4. ThresholdMet(r, signers, sigs, quorum)
        <=> ThresholdLoop(r, signers, sigs, quorum) = "accepted"
  BY <1>1, <1>3, ClosedFormIsLoop
<1>. QED
  BY <1>4 DEF signers, quorum

\* The closed form of the threshold check accepts what the loop of oracle.rs accepts,
\* for signer lists and batches of every length and in every order (oracle.rs,
\* verify_threshold_signatures).
THEOREM LoopAlwaysAgrees == Spec => []LoopAgrees
<1>1. TypeOK => LoopAgrees
  BY LoopAlwaysAgreesNow
<1>. QED
  BY <1>1, InitTypes, NextTypes, PTL DEF Spec
===============================================================================
