-------------------------------- MODULE Oracle --------------------------------
(***************************************************************************)
(* Oracle verification in the market contract (oracle.rs,                  *)
(* oracle_adapter.rs): which reports decide a market.  A report is a       *)
(* claimed outcome signed by an Ed25519 key, alone or as one of a quorum,  *)
(* in the V1 or the V2 layout, or a price an adapter reads on chain.       *)
(*                                                                         *)
(* Verification changes no state.  Around it stand the entrypoints that    *)
(* call it and the gates they share (docs/SECURITY.md, "Oracle report      *)
(* verification path"), the oracle keys' holders, who sign whatever they   *)
(* are asked to, the price feeds, and the clock.                           *)
(***************************************************************************)
EXTENDS Integers, Sequences, FiniteSets, Functions

CONSTANTS
  Keys,                         \* Ed25519 public keys
  Faulty,                       \* keys whose holders may sign both outcomes
  Markets,                      \* market ids
  Networks,                     \* network ids, one byte each here
  CurrentNetwork,               \* env.ledger().network_id()
  Reports,                      \* reports the holders are asked to sign
  Lookalikes,                   \* reports nobody signs, whose messages are compared with theirs
  Feeds,                        \* price contracts
  Prices,                       \* prices they quote
  SignerLists,                  \* [signers, quorum] arguments of the threshold setter
  AdapterTypeInputs,            \* the adapter types markets are created with
  Builds,                       \* TRUE: built with the oracle-adapter feature
  Absent,                       \* an absent storage entry
  RADIX, ID_WIDTH, TIME_WIDTH, EPOCH_WIDTH,     \* digits of an integer in a message
  MAX_PRICE_AGE_SECONDS,
  SIGNERS_TIMELOCK_SECONDS,
  MaxTime,                      \* bound: the clock stops here
  MaxSignatures,                \* bound: signatures in existence
  MaxBatch                      \* bound: entries of a signatures argument

VARIABLES
  now,              \* env.ledger().timestamp()
  adapters_only,    \* storage::has_oracle_adapters
  v1_disabled,      \* the V1 kill switch
  enabled,          \* storage::is_adapter_enabled, the set of adapter types
  adapter_config,   \* storage::get_market_adapter_config, per market
  oracle_pubkey,    \* Market::oracle_pubkey
  adapter_type,     \* Market::adapter_type
  threshold,        \* the threshold signers and their quorum
  pending_signers,  \* a change of them that awaits its timelock
  build,            \* TRUE: this contract has the oracle-adapter feature
  signed,           \* all signatures in existence
  observed,         \* all observations every price contract has published
  receiver,         \* the price the Pyth receiver holds
  attested,         \* history: the last outcome the Pyth adapter accepted
  decision          \* Market::status and result, with how it came about

gateVars   == <<adapters_only, v1_disabled, enabled, adapter_config, build>>
marketVars == <<oracle_pubkey, adapter_type, decision>>
signerVars == <<threshold, pending_signers>>
worldVars  == <<signed, observed, receiver, attested>>
vars == <<now, gateVars, marketVars, signerVars, worldVars>>

AdapterTypes == {"Ed25519", "Reflector", "Pyth"}
Versions     == {"V1", "V2"}

\* What a key holder means to say.  A V1 message carries neither network, nor
\* deadline, nor epoch; the holder means one of each all the same.
Report ==
  [version : Versions, network : Networks, market_id : Markets, outcome : BOOLEAN,
   valid_until : Nat, epoch : Nat]

Signature   == [key : Keys, report : Report]
Observation == [feed : Feeds, price : Int, timestamp : Nat]
SignerList  == [signers : Seq(Keys), quorum : Nat]
Threshold   == {t \in SignerList : t.quorum <= Len(t.signers)}
AdapterConfig == [oracle_contract : Feeds, resolution_price : Int]

\* Only in history: what an adapter, called directly, accepted last.
Attestation ==
  [adapter : {"Ed25519", "Pyth"}, outcome : BOOLEAN, resolution_price : Int, at : Nat]

\* Only in history: the call that decided a market, the report it accepted, and
\* whose word it took: at least need of keys, or a price against a configuration.
Decision ==
  [path : {"ResolveMarket", "ResolveMarketV2", "Threshold", "ThresholdV2", "Reflector"},
   outcome : BOOLEAN, at : Nat, report : Report \cup {Absent},
   keys : SUBSET Keys, need : Nat, config : AdapterConfig \cup {Absent}]

ASSUME ConstantsAssumption ==
  /\ IsFiniteSet(Keys) /\ Faulty \subseteq Keys
  /\ CurrentNetwork \in Networks
  /\ Reports \subseteq Report
  /\ Lookalikes \subseteq [version : Versions, network : Networks, market_id : Nat,
                           outcome : BOOLEAN, valid_until : Nat, epoch : Nat]
  /\ Prices \subseteq Int
  /\ SignerLists \subseteq SignerList
  /\ AdapterTypeInputs \subseteq AdapterTypes /\ Builds \subseteq BOOLEAN
  /\ {RADIX, ID_WIDTH, TIME_WIDTH, EPOCH_WIDTH} \subseteq Nat \ {0}
  /\ MAX_PRICE_AGE_SECONDS \in Nat /\ SIGNERS_TIMELOCK_SECONDS \in Nat
  /\ MaxTime \in Nat /\ MaxSignatures \in Nat /\ MaxBatch \in Nat
  /\ Absent \notin Report \cup AdapterConfig \cup Signature \cup Decision \cup Observation
                        \cup Attestation

-------------------------------------------------------------------------------
\* The messages.  Bytes are digits in base RADIX; hashing is one-to-one.

ORACLE_DOMAIN_SEPARATOR    == <<1>>
ORACLE_DOMAIN_SEPARATOR_V2 == <<2>>

\* What is left of n when its last i digits are cut off.
Shifted(n, width) ==
  LET left[i \in 0 .. width] == IF i = 0 THEN n ELSE left[i - 1] \div RADIX
  IN  left

\* n as width digits, the most significant first; digits beyond width are lost.
BigEndian(n, width) == [i \in 1 .. width |-> Shifted(n, width)[width - i] % RADIX]

\* n is a number of at most width digits.
Fits(n, width) == n \in Nat /\ Shifted(n, width)[width] = 0

\* market_id and epoch are a u32 of 4 bytes, valid_until is a u64 of 8.
FitsItsFields(r) ==
  /\ Fits(r.market_id, ID_WIDTH) /\ Fits(r.valid_until, TIME_WIDTH)
  /\ Fits(r.epoch, EPOCH_WIDTH)

ASSUME WidthAssumption == \A r \in Reports \cup Lookalikes : FitsItsFields(r)

OutcomeByte(outcome) == <<IF outcome THEN 1 ELSE 0>>

\* Fault: the deadline is not part of what is signed.
MessageWithoutDeadline(r) ==
  ORACLE_DOMAIN_SEPARATOR_V2 \o <<r.network>> \o BigEndian(r.market_id, ID_WIDTH)
     \o OutcomeByte(r.outcome) \o BigEndian(r.epoch, EPOCH_WIDTH)

BuildOraclePreimage(r) ==
  ORACLE_DOMAIN_SEPARATOR \o BigEndian(r.market_id, ID_WIDTH) \o OutcomeByte(r.outcome)

BuildOraclePreimageV2(r) ==
  ORACLE_DOMAIN_SEPARATOR_V2 \o <<r.network>> \o BigEndian(r.market_id, ID_WIDTH)
     \o OutcomeByte(r.outcome) \o BigEndian(r.valid_until, TIME_WIDTH)
     \o BigEndian(r.epoch, EPOCH_WIDTH)

ORACLE_PREIMAGE_LEN == Len(ORACLE_DOMAIN_SEPARATOR) + ID_WIDTH + 1
ORACLE_PREIMAGE_LEN_V2 ==
  Len(ORACLE_DOMAIN_SEPARATOR_V2) + 1 + ID_WIDTH + 1 + TIME_WIDTH + EPOCH_WIDTH

\* The check a caller-supplied preimage has to pass before it is hashed.
HashOraclePreimageChecked(preimage) == Len(preimage) = ORACLE_PREIMAGE_LEN

ConstructOracleMessage(r) ==
  IF r.version = "V1" THEN BuildOraclePreimage(r) ELSE BuildOraclePreimageV2(r)

SameMarket(r, s) == r.network = s.network /\ r.market_id = s.market_id

Opposite(r) == [r EXCEPT !.outcome = ~@]

\* A signature verifies if its key made it over exactly these bytes.
VerifyEd25519Safe(pubkey, message, sig) ==
  /\ sig # Absent
  /\ sig.key = pubkey
  /\ ConstructOracleMessage(sig.report) = message

-------------------------------------------------------------------------------
\* Verification of one signature.

\* Fault: the lock is not looked at.
Ed25519PathAlwaysOpen == TRUE

RequireEd25519PathOpen == ~adapters_only

\* Fault: a report for another network passes.
AnyNetwork(r) == r.network \in Networks

RequireCurrentNetwork(r) == r.network = CurrentNetwork

NotExpired(r) == now <= r.valid_until

\* verify_oracle_signature and verify_oracle_signature_v2.  No key is the zero
\* key, which both of them refuse.
VerifyOracleSignature(r, sig, pubkey) ==
  /\ RequireEd25519PathOpen
  /\ r.version = "V2" => NotExpired(r)
  /\ VerifyEd25519Safe(pubkey, ConstructOracleMessage(r), sig)

-------------------------------------------------------------------------------
\* Verification of a quorum of signatures.

\* Fault: duplicate signers are not looked for.
AnySigners(signers, quorum) == signers # <<>> /\ quorum \in 1 .. Len(signers)

\* The guards: somebody has to sign, enough could, and no signer counts twice.
ValidSigners(signers, quorum) ==
  /\ signers # <<>>
  /\ quorum \in 1 .. Len(signers)
  /\ \A i, j \in 1 .. Len(signers) : signers[i] = signers[j] => i = j

\* The entries among the first i that verify for r.
Valid(r, signers, sigs, i) ==
  {j \in 1 .. i : VerifyEd25519Safe(signers[j], ConstructOracleMessage(r), sigs[j])}

\* Fault: one signature short of the quorum is enough.
OneShort(r, signers, sigs, quorum, i) ==
  /\ Cardinality(Valid(r, signers, sigs, i)) >= quorum - 1
  /\ Valid(Opposite(r), signers, sigs, i) = {}

\* After the first i entries the quorum is met and no entry of them was signed
\* for the opposite outcome.
MetAt(r, signers, sigs, quorum, i) ==
  /\ Cardinality(Valid(r, signers, sigs, i)) >= quorum
  /\ Valid(Opposite(r), signers, sigs, i) = {}

\* Fault: the whole list is examined before it is accepted.
MetByAll(r, signers, sigs, quorum) ==
  \E i \in {IF Len(signers) < Len(sigs) THEN Len(signers) ELSE Len(sigs)} :
    MetAt(r, signers, sigs, quorum, i)

\* The loop walks signers and signatures in step, up to the end of the shorter,
\* refuses at the first opposite entry and accepts at the first full quorum.
ThresholdMet(r, signers, sigs, quorum) ==
  \E i \in DOMAIN signers \cap DOMAIN sigs : MetAt(r, signers, sigs, quorum, i)

VerifyThresholdSignatures(r, sigs) ==
  /\ RequireEd25519PathOpen
  /\ r.version = "V2" => RequireCurrentNetwork(r) /\ NotExpired(r)
  /\ ValidSigners(threshold.signers, threshold.quorum)
  /\ ThresholdMet(r, threshold.signers, sigs, threshold.quorum)

-------------------------------------------------------------------------------
\* The price adapters.

\* Fault: the age of a price is not looked at.
AnyAge(o) == o.timestamp \in Nat

\* now.saturating_sub(timestamp) <= MAX_PRICE_AGE_SECONDS; a price from the
\* future has age zero.
FreshPrice(o) == now - o.timestamp <= MAX_PRICE_AGE_SECONDS

ResolvedYes(o, resolution_price) == o.price >= resolution_price

\* What a feed answers to lastprice: its latest observation, if there is one.
LastPrice(f) ==
  LET seen == {o \in observed : o.feed = f}
  IN  {o \in seen : \A p \in seen : p.timestamp <= o.timestamp}

\* ReflectorAdapter::verify_outcome.
VerifyByReflector(config, outcome) ==
  \E o \in LastPrice(config.oracle_contract) :
    /\ FreshPrice(o)
    /\ ResolvedYes(o, config.resolution_price) = outcome

\* What the Pyth receiver holds after it was sent a price: the newer one.
Received(vaa) ==
  IF receiver = Absent \/ vaa.timestamp > receiver.timestamp THEN vaa ELSE receiver

\* PythAdapter::verify_outcome: the price is submitted first and read back after.
VerifyByPyth(vaa, resolution_price, outcome) ==
  /\ vaa # Absent
  /\ FreshPrice(Received(vaa))
  /\ ResolvedYes(Received(vaa), resolution_price) = outcome

-------------------------------------------------------------------------------
\* Dispatch on the market's adapter type.

IsEnabled(t) == t \in enabled

\* An adapter that is not enabled falls back on the market's own key.
UsesOwnKey(m) == adapter_type[m] = "Ed25519" \/ ~IsEnabled(adapter_type[m])

\* Enabled and built in, Reflector decides, if the market has a configuration;
\* Pyth is not wired up and refuses.
UsesReflector(m) ==
  /\ adapter_type[m] = "Reflector" /\ IsEnabled("Reflector")
  /\ build
  /\ adapter_config[m] # Absent

-------------------------------------------------------------------------------
\* The entrypoints that record an outcome.  They are not in the source at this
\* commit; docs/SECURITY.md lists their gates.

Decide(m, d) == decision' = [decision EXCEPT ![m] = d]

Undecided(m) == decision[m] = Absent

ByKeys(path, r, keys, need) ==
  [path |-> path, outcome |-> r.outcome, at |-> now, report |-> r,
   keys |-> keys, need |-> need, config |-> Absent]

ByPrice(m, outcome) ==
  [path |-> "Reflector", outcome |-> outcome, at |-> now, report |-> Absent,
   keys |-> {}, need |-> 0, config |-> adapter_config[m]]

EntryOpen(r) ==
  /\ Undecided(r.market_id)
  /\ r.version = "V1" => ~v1_disabled

\* verify_market_outcome and verify_market_outcome_v2 with what their callers do.
ResolveByKey(r, sig) ==
  /\ EntryOpen(r)
  /\ r.version = "V2" => RequireCurrentNetwork(r)
  /\ UsesOwnKey(r.market_id)
  /\ VerifyOracleSignature(r, sig, oracle_pubkey[r.market_id])
  /\ Decide(r.market_id,
            ByKeys(IF r.version = "V1" THEN "ResolveMarket" ELSE "ResolveMarketV2",
                   r, {oracle_pubkey[r.market_id]}, 1))
  /\ UNCHANGED <<now, gateVars, oracle_pubkey, adapter_type, signerVars, worldVars>>

ResolveByReflector(r) ==
  /\ EntryOpen(r)
  /\ r.version = "V2" => RequireCurrentNetwork(r) /\ NotExpired(r)
  /\ UsesReflector(r.market_id)
  /\ VerifyByReflector(adapter_config[r.market_id], r.outcome)
  /\ Decide(r.market_id, ByPrice(r.market_id, r.outcome))
  /\ UNCHANGED <<now, gateVars, oracle_pubkey, adapter_type, signerVars, worldVars>>

ResolveByThreshold(r, sigs) ==
  /\ EntryOpen(r)
  /\ VerifyThresholdSignatures(r, sigs)
  /\ Decide(r.market_id,
            ByKeys(IF r.version = "V1" THEN "Threshold" ELSE "ThresholdV2",
                   r, Range(threshold.signers), threshold.quorum))
  /\ UNCHANGED <<now, gateVars, oracle_pubkey, adapter_type, signerVars, worldVars>>

\* AnyAdapter::verify_outcome for Pyth and for a single key, which a caller of the
\* crate may use directly.  The receiver keeps what it was sent.
AttestByPyth(resolution_price, outcome, vaa) ==
  /\ VerifyByPyth(vaa, resolution_price, outcome)
  /\ receiver' = Received(vaa)
  /\ attested' = [adapter |-> "Pyth", outcome |-> outcome,
                  resolution_price |-> resolution_price, at |-> now]
  /\ UNCHANGED <<now, gateVars, marketVars, signerVars, signed, observed>>

AttestByEd25519(r, sig) ==
  /\ r.version = "V1"
  /\ VerifyOracleSignature(r, sig, oracle_pubkey[r.market_id])
  /\ attested' = [adapter |-> "Ed25519", outcome |-> r.outcome, resolution_price |-> 0, at |-> now]
  /\ UNCHANGED <<now, gateVars, marketVars, signerVars, signed, observed, receiver>>

-------------------------------------------------------------------------------
\* Administration.

\* enable_oracle_adapters has no inverse.
EnableOracleAdapters ==
  /\ ~adapters_only
  /\ adapters_only' = TRUE
  /\ UNCHANGED <<now, v1_disabled, enabled, adapter_config, build,
                 marketVars, signerVars, worldVars>>

DisableV1 ==
  /\ ~v1_disabled
  /\ v1_disabled' = TRUE
  /\ UNCHANGED <<now, adapters_only, enabled, adapter_config, build,
                 marketVars, signerVars, worldVars>>

\* Only the flag of an adapter some market uses is ever read.
SetAdapterEnabled(t) ==
  /\ t # "Ed25519" /\ t \in Range(adapter_type)
  /\ enabled' = IF IsEnabled(t) THEN enabled \ {t} ELSE enabled \cup {t}
  /\ UNCHANGED <<now, adapters_only, v1_disabled, adapter_config, build,
                 marketVars, signerVars, worldVars>>

SetMarketAdapterConfig(m, f, price) ==
  /\ adapter_type[m] = "Reflector"
  /\ adapter_config' = [adapter_config EXCEPT
                          ![m] = [oracle_contract |-> f, resolution_price |-> price]]
  /\ UNCHANGED <<now, adapters_only, v1_disabled, enabled, build,
                 marketVars, signerVars, worldVars>>

SetMarketOracle(m, k) ==
  /\ oracle_pubkey' = [oracle_pubkey EXCEPT ![m] = k]
  /\ UNCHANGED <<now, gateVars, adapter_type, decision, signerVars, worldVars>>

\* Fault: the quorum is not compared with the list.
AnyQuorum(list) == list.quorum \in Nat

\* A quorum of zero turns threshold resolution off; it may not exceed the list.
ReachableQuorum(list) == list.quorum <= Len(list.signers)

ProposeThresholdSigners(list) ==
  /\ ReachableQuorum(list)
  /\ pending_signers' = [list |-> list, effective_at |-> now + SIGNERS_TIMELOCK_SECONDS]
  /\ UNCHANGED <<now, gateVars, marketVars, threshold, worldVars>>

ExecuteThresholdSigners ==
  /\ pending_signers # Absent
  /\ now >= pending_signers.effective_at
  /\ threshold' = pending_signers.list
  /\ pending_signers' = Absent
  /\ UNCHANGED <<now, gateVars, marketVars, worldVars>>

-------------------------------------------------------------------------------
\* The world outside.

\* A holder signs what he is asked to; an honest one says one thing about the
\* market a network knows by an id, whatever the layout and the deadline.
Sign(k, r) ==
  /\ Undecided(r.market_id)
  /\ Cardinality(signed) < MaxSignatures
  /\ k \notin Faulty =>
       \A s \in signed : s.key = k /\ SameMarket(s.report, r) => s.report.outcome = r.outcome
  /\ signed' = signed \cup {[key |-> k, report |-> r]}
  /\ UNCHANGED <<now, gateVars, marketVars, signerVars, observed, receiver, attested>>

\* A price contract quotes a price; its clock may run ahead by one.
Quote(f, price, timestamp) ==
  /\ \E m \in Markets : adapter_type[m] \in {"Reflector", "Pyth"}
  /\ \A o \in observed : o.feed = f => o.timestamp < timestamp
  /\ observed' = observed \cup {[feed |-> f, price |-> price, timestamp |-> timestamp]}
  /\ UNCHANGED <<now, gateVars, marketVars, signerVars, signed, receiver, attested>>

Tick ==
  /\ now < MaxTime
  /\ now' = now + 1
  /\ UNCHANGED <<gateVars, marketVars, signerVars, worldVars>>

-------------------------------------------------------------------------------

Init ==
  /\ now = 0
  /\ adapters_only = FALSE
  /\ v1_disabled = FALSE
  /\ enabled = {}
  /\ adapter_config = [m \in Markets |-> Absent]
  /\ oracle_pubkey \in [Markets -> Keys]
  /\ adapter_type \in [Markets -> AdapterTypeInputs]
  /\ threshold = [signers |-> <<>>, quorum |-> 0]
  /\ pending_signers = Absent
  /\ build \in Builds
  /\ signed = {}
  /\ observed = {}
  /\ receiver = Absent
  /\ attested = Absent
  /\ decision = [m \in Markets |-> Absent]

\* The signatures arguments somebody could make up: what exists, in any order,
\* with gaps.
Batches == UNION {[1 .. n -> signed \cup {Absent}] : n \in 0 .. MaxBatch}

ResolutionStep ==
  \E r \in Reports :
    \/ \E sig \in signed : ResolveByKey(r, sig)
    \/ ResolveByReflector(r)
    \/ \E sigs \in Batches : ResolveByThreshold(r, sigs)

AdapterStep ==
  \/ \E r \in Reports, sig \in signed : AttestByEd25519(r, sig)
  \/ \E price \in Prices, outcome \in BOOLEAN, vaa \in observed \cup {Absent} :
       AttestByPyth(price, outcome, vaa)

AdminStep ==
  \/ EnableOracleAdapters
  \/ DisableV1
  \/ \E t \in AdapterTypes : SetAdapterEnabled(t)
  \/ \E m \in Markets, f \in Feeds, price \in Prices : SetMarketAdapterConfig(m, f, price)
  \/ \E m \in Markets, k \in Keys : SetMarketOracle(m, k)
  \/ \E list \in SignerLists : ProposeThresholdSigners(list)
  \/ ExecuteThresholdSigners

WorldStep ==
  \/ \E k \in Keys, r \in Reports : Sign(k, r)
  \/ \E f \in Feeds, price \in Prices, timestamp \in {now, now + 1} :
       Quote(f, price, timestamp)
  \/ Tick

Next == ResolutionStep \/ AdapterStep \/ AdminStep \/ WorldStep

Spec == Init /\ [][Next]_vars

-------------------------------------------------------------------------------
\* Properties.

\* Every variable keeps its type, with the shapes oracle.rs and types.rs give them;
\* no signer list in force or pending asks for more signatures than it has signers.
TypeOK ==
  /\ now \in Nat
  /\ adapters_only \in BOOLEAN /\ v1_disabled \in BOOLEAN /\ build \in BOOLEAN
  /\ enabled \subseteq AdapterTypes
  /\ adapter_config \in [Markets -> AdapterConfig \cup {Absent}]
  /\ oracle_pubkey \in [Markets -> Keys]
  /\ adapter_type \in [Markets -> AdapterTypes]
  /\ threshold \in Threshold
  /\ pending_signers \in [list : Threshold, effective_at : Nat] \cup {Absent}
  /\ signed \subseteq Signature
  /\ observed \subseteq Observation
  /\ receiver \in Observation \cup {Absent}
  /\ attested \in Attestation \cup {Absent}
  /\ decision \in [Markets -> Decision \cup {Absent}]

\* The key of signature s vouches for decision d of market m: it said so of this
\* market, and in the V2 layout of this network and for a time not yet over.
Vouches(s, m, d) ==
  /\ s.key \in d.keys
  /\ s.report.version = d.report.version
  /\ s.report.market_id = m
  /\ s.report.outcome = d.outcome
  /\ d.report.version = "V2" =>
       /\ s.report.network = CurrentNetwork
       /\ s.report.valid_until >= d.at
       /\ s.report.epoch = d.report.epoch

\* A market decided by keys was decided by as many different holders as the path
\* needs, each of whom meant this market and this outcome, here and now: the
\* duplicate check, the parallel lists and the message layout of oracle.rs together.
BackedByItsSigners ==
  \A m \in Markets :
    decision[m] # Absent /\ decision[m].path # "Reflector" =>
      Cardinality({s.key : s \in {t \in signed : Vouches(t, m, decision[m])}})
        >= decision[m].need

\* Two quorums of the signer list always share a holder who is not faulty.
HonestMajority ==
  2 * threshold.quorum > Len(threshold.signers) + Cardinality(Faulty \cap Range(threshold.signers))

\* The V2 reports some batch of existing signatures would be accepted for.
Acceptable ==
  {r \in Reports : r.version = "V2" /\ \E sigs \in Batches : VerifyThresholdSignatures(r, sigs)}

\* What a signature over a report binds its key to.
Claim(r) ==
  IF r.version = "V1" THEN <<"V1", r.market_id, r.outcome>> ELSE <<"V2", r>>

Forms ==
  {[claim |-> Claim(r), message |-> ConstructOracleMessage(r)] : r \in Reports \cup Lookalikes}

\* What was signed for one claim verifies for no other: not in the other layout, on
\* another network, for another market, outcome, deadline or epoch.  The length
\* check of the V1 layout keeps V2 preimages out.
MessagesAreDistinct ==
  \A s \in signed :
    LET message == ConstructOracleMessage(s.report)
    IN  /\ \A form \in Forms : form.message = message => form.claim = Claim(s.report)
        /\ HashOraclePreimageChecked(message) <=> s.report.version = "V1"
        /\ Len(BuildOraclePreimageV2(s.report)) = ORACLE_PREIMAGE_LEN_V2

\* The loop of verify_threshold_signatures over the entries both lists have: valid
\* counts the signatures that verified before the loop was left.
ExaminedEntries(signers, sigs) ==
  IF Len(signers) < Len(sigs) THEN Len(signers) ELSE Len(sigs)

ThresholdLoop(r, signers, sigs, quorum) ==
  LET Says(i, report) ==
        VerifyEd25519Safe(signers[i], ConstructOracleMessage(report), sigs[i])
      after[i \in 0 .. ExaminedEntries(signers, sigs)] ==
        IF i = 0 THEN [valid |-> 0, end |-> "none"]
        ELSE LET before == after[i - 1]
             IN  IF before.end # "none" THEN before
                 ELSE IF Says(i, Opposite(r)) THEN [before EXCEPT !.end = "refused"]
                 ELSE IF ~Says(i, r) THEN before
                 ELSE [valid |-> before.valid + 1,
                       end |-> IF before.valid + 1 >= quorum THEN "accepted" ELSE "none"]
  IN  after[ExaminedEntries(signers, sigs)].end

\* The closed form of the threshold loop accepts what the loop of oracle.rs accepts,
\* for every batch of existing signatures and every report, wherever it is reached.
LoopAgrees ==
  RequireEd25519PathOpen /\ ValidSigners(threshold.signers, threshold.quorum) =>
    \A r \in Reports, sigs \in Batches :
      ThresholdMet(r, threshold.signers, sigs, threshold.quorum)
        <=> ThresholdLoop(r, threshold.signers, sigs, threshold.quorum) = "accepted"

\* Under an honest majority no two batches are accepted for opposite outcomes of
\* one market, although each batch is only examined up to its quorum, so that the
\* equivocation check of verify_threshold_signatures_v2 does not see the rest.
QuorumsAgree ==
  HonestMajority =>
    \A r, s \in Acceptable : r.market_id = s.market_id => r.outcome = s.outcome

\* A market decided by price has an observation of its own feed behind it that was
\* recent at that time and on the outcome's side of the configured price; so has
\* what the Pyth adapter accepted.
PriceBehindOutcome ==
  /\ \A m \in Markets :
       decision[m] # Absent /\ decision[m].path = "Reflector" =>
         \E o \in observed :
           /\ o.feed = decision[m].config.oracle_contract
           /\ o.timestamp + MAX_PRICE_AGE_SECONDS >= decision[m].at
           /\ decision[m].outcome = ResolvedYes(o, decision[m].config.resolution_price)
  /\ attested # Absent /\ attested.adapter = "Pyth" =>
       \E o \in observed :
         /\ o.timestamp + MAX_PRICE_AGE_SECONDS >= attested.at
         /\ attested.outcome = ResolvedYes(o, attested.resolution_price)

\* Once the contract is locked into adapter-only mode no signature decides a market
\* any more, whatever the entrypoint, the layout and the market's adapter, and
\* whichever adapters are switched off again (#898); nor does the key's adapter
\* accept one.
ClosedAfterLock ==
  [][adapters_only =>
       /\ \A m \in Markets :
            Undecided(m) /\ ~Undecided(m)' => decision'[m].path = "Reflector"
       /\ attested' # attested => attested'.adapter = "Pyth"]_vars
===============================================================================
