------------------------------ MODULE Resolution ------------------------------
(***************************************************************************)
(* The Vatix resolution contract (contracts/resolution): a proposer posts  *)
(* a bond and a signed outcome for a market, challengers post bonds        *)
(* against it while its window is open, and the dispute ends when the      *)
(* candidate is finalized, upheld by the admin, or voided.                 *)
(*                                                                         *)
(* Every entrypoint is one action: a Soroban transaction is atomic (an     *)
(* error or a failed nested call undoes all of it) and the host forbids    *)
(* reentrancy, so what interleaves are whole calls of different parties,   *)
(* and the ledger clock between them.  A call that returns an error        *)
(* changes nothing and is not modelled as a step.                          *)
(***************************************************************************)
EXTENDS Integers, Sequences, FiniteSets, Functions

CONSTANTS
  Markets,                      \* market ids
  MarketContracts,              \* deployments of the market contract
  Factories,                    \* addresses that may be registered as factory
  Treasuries,                   \* addresses that may be registered as treasury
  Tokens,                       \* token contracts
  Users,                        \* proposers, challengers, recipients
  This,                         \* env.current_contract_address()
  Unset,                        \* an absent storage entry
  CollateralToken,              \* [MarketContracts -> [Markets -> Tokens]]
  OracleSigned,                 \* outcomes the oracle has signed, per market
  Funds,                        \* what a user owns of each token at the start
  BondInputs,                   \* bond_amount arguments
  WindowInputs,                 \* challenge_window_seconds arguments
  CollateralInputs,             \* amount arguments of deposit_collateral
  DepositTokens,                \* collateral_token arguments
  ExpiryInputs,                 \* signature_expiry and valid_until arguments
  ModeInputs,                   \* new_mode arguments of set_emergency_mode
  PauseInputs,                  \* TRUE: pause is called, FALSE: unpause is
  FactoryInputs,                \* factory arguments of propose_factory
  MarketContractInputs,         \* ... of propose_market_contract, set_market_contract
  TreasuryInputs,               \* ... of propose_treasury
  GateInputs,                   \* oracle gates a market contract may move to
  OutOfBand,                    \* what happens to a market behind our back
  MIN_BOND_AMOUNT,
  MIN_CHALLENGE_BOND_AMOUNT,
  MIN_CHALLENGE_WINDOW_SECONDS,
  MAX_CHALLENGE_WINDOW_SECONDS,
  MAX_APPEAL_ROUNDS,
  ARBITRATION_TIMELOCK_SECONDS,
  ADDRESS_TIMELOCK_SECONDS,
  MaxTime                       \* bound: the clock stops here

VARIABLES
  now,          \* env.ledger().timestamp()
  config,       \* StorageKey::Config
  treasury,     \* StorageKey::Treasury
  pending,      \* StorageKey::PendingFactory, PendingMarketContract, PendingTreasury
  mode,         \* StorageKey::EmergencyMode
  paused,       \* StorageKey::Paused
  candidates,   \* StorageKey::Candidate(id); its length is CandidateCounter
  byMarket,     \* StorageKey::CandidateByMarket(market_id), 0 when absent
  challengers,  \* StorageKey::Challengers(id), <<>> when absent
  collateral,   \* StorageKey::ProposerCollateral(proposer)
  market,       \* the market contracts: status of every market
  gate,         \* the market contracts: which oracle signatures they accept
  balance       \* the token contracts: balances of every account

adminVars   == <<config, treasury, pending, mode, paused>>
disputeVars == <<candidates, byMarket, challengers>>
marketVars  == <<market, gate>>
moneyVars   == <<collateral, balance>>
vars == <<now, adminVars, disputeVars, marketVars, moneyVars>>

Accounts  == Users \cup Treasuries \cup {This}
Modes     == {"Normal", "TradingHalted", "SettleOnly", "GlobalFreeze"}
Gates     == {"V1AndV2", "V2Only", "AdaptersOnly"}
Registers == {"factory", "market_contract", "treasury"}

\* The addresses each timelocked register may hold.
Registrable(register) ==
  CASE register = "factory"         -> Factories
    [] register = "market_contract" -> MarketContracts
    [] register = "treasury"        -> Treasuries

ASSUME ConstantsAssumption ==
  /\ Funds \in Nat
  /\ BondInputs \subseteq Nat /\ CollateralInputs \subseteq Nat /\ WindowInputs \subseteq Nat
  /\ DepositTokens \subseteq Tokens
  /\ ExpiryInputs \subseteq Nat
  /\ ModeInputs \subseteq Modes /\ GateInputs \subseteq Gates
  /\ PauseInputs \subseteq BOOLEAN /\ FactoryInputs \subseteq Factories
  /\ MarketContractInputs \subseteq MarketContracts /\ TreasuryInputs \subseteq Treasuries
  /\ OutOfBand \subseteq {"Resolve", "Cancel", "Reopen"}
  /\ CollateralToken \in [MarketContracts -> [Markets -> Tokens]]
  /\ OracleSigned \in [Markets -> SUBSET BOOLEAN]
  /\ {MIN_BOND_AMOUNT, MIN_CHALLENGE_BOND_AMOUNT} \subseteq Nat \ {0}
  /\ MIN_CHALLENGE_WINDOW_SECONDS \in Nat /\ MAX_CHALLENGE_WINDOW_SECONDS \in Nat
  /\ MAX_APPEAL_ROUNDS \in Nat
  /\ ARBITRATION_TIMELOCK_SECONDS \in Nat /\ ADDRESS_TIMELOCK_SECONDS \in Nat
  /\ MaxTime \in Nat
  /\ IsFiniteSet(Markets) /\ IsFiniteSet(Tokens)
  /\ IsFiniteSet(Users) /\ IsFiniteSet(Treasuries)
  /\ Unset \notin Factories \cup MarketContracts \cup Treasuries \cup Users \cup {This}
  /\ This \notin Users \cup Treasuries

-------------------------------------------------------------------------------
\* Types, as in types.rs; the fields no transition reads (signature bytes,
\* evidence, passphrase and epoch) are left out: version says which of the two
\* verification schemes the candidate was signed under (passphrase_hash.is_some()).

Candidate ==
  [market_id : Markets, outcome : BOOLEAN, version : {"V1", "V2"},
   signature_expiry : Nat, proposer : Users, proposed_at : Nat,
   challenge_deadline : Nat,
   status : {"Proposed", "Challenged", "Finalized", "Voided"},
   challenged_by : Users \cup {Unset}, finalized_at : Nat,
   appeal_round : 0 .. MAX_APPEAL_ROUNDS, bond_amount : Nat]

ChallengeRecord == [challenger : Users, bond : Nat]

ResolutionConfig ==
  [factory : Factories \cup {Unset}, market_contract : MarketContracts \cup {Unset},
   challenge_window_secs : Nat]

PendingAddressChange ==
  [new_address : Factories \cup MarketContracts \cup Treasuries, effective_at : Nat]

ASSUME AbsenceAssumption == Unset \notin PendingAddressChange

MarketState ==
  [status : {"Active", "Resolved", "Canceled"}, outcome : BOOLEAN,
   settled_by : {"nobody", "resolution", "elsewhere"}]

AdminTypeOK ==
  /\ config \in ResolutionConfig
  /\ treasury \in Treasuries \cup {Unset}
  /\ pending \in [Registers -> PendingAddressChange \cup {Unset}]
  /\ \A r \in Registers : pending[r] # Unset => pending[r].new_address \in Registrable(r)
  /\ mode \in Modes
  /\ paused \in BOOLEAN

DisputeTypeOK ==
  /\ candidates \in Seq(Candidate)
  /\ byMarket \in [Markets -> Nat]
  /\ challengers \in Seq(Seq(ChallengeRecord))
  /\ Len(challengers) = Len(candidates)

MarketTypeOK ==
  /\ market \in [MarketContracts -> [Markets -> MarketState]]
  /\ gate \in [MarketContracts -> Gates]

MoneyTypeOK ==
  /\ collateral \in [Users -> Nat]
  /\ balance \in [Tokens -> [Accounts -> Nat]]

TypeOK == now \in Nat /\ AdminTypeOK /\ DisputeTypeOK /\ MarketTypeOK /\ MoneyTypeOK

Init ==
  /\ now = 0
  /\ config = [factory |-> Unset, market_contract |-> Unset,
               challenge_window_secs |-> 0]
  /\ treasury = Unset
  /\ pending = [r \in Registers |-> Unset]
  /\ mode = "Normal"
  /\ paused = FALSE
  /\ candidates = <<>>
  /\ byMarket = [m \in Markets |-> 0]
  /\ challengers = <<>>
  /\ collateral = [u \in Users |-> 0]
  /\ market = [k \in MarketContracts |-> [m \in Markets |->
                 [status |-> "Active", outcome |-> FALSE, settled_by |-> "nobody"]]]
  /\ gate = [k \in MarketContracts |-> "V1AndV2"]
  /\ balance = [t \in Tokens |-> [a \in Accounts |-> IF a \in Users THEN Funds ELSE 0]]

-------------------------------------------------------------------------------
\* Guards shared by the entrypoints.

\* initialize writes StorageVersion and Config together, so the version guard
\* passes exactly when the config is there.
AssertVersion == config.market_contract # Unset

RequireNotPaused == ~paused

RequireEmergencyModeAllows(allowed) == mode \in allowed

\* Fault: the lower bound is not checked.
ValidateLongestWindow(seconds) == seconds <= MAX_CHALLENGE_WINDOW_SECONDS

ValidateChallengeWindow(seconds) ==
  seconds \in MIN_CHALLENGE_WINDOW_SECONDS .. MAX_CHALLENGE_WINDOW_SECONDS

IsCandidate(c) == c \in 1 .. Len(candidates)

\* Bound: every window that is opened ends, with its arbitration timelock,
\* before the clock does.
InHorizon(window) == now + window + ARBITRATION_TIMELOCK_SECONDS <= MaxTime

-------------------------------------------------------------------------------
\* The registered market contract, as this contract calls it.

RequireMarketActive(m) == market[config.market_contract][m].status = "Active"

GetCollateralToken(m) == CollateralToken[config.market_contract][m]

\* A market accepts a signature of the scheme its gate still admits, over an
\* outcome the oracle signed.
VerifySignature(m, outcome) ==
  gate[config.market_contract] = "V1AndV2" /\ outcome \in OracleSigned[m]

VerifySignatureV2(m, outcome, valid_until) ==
  /\ gate[config.market_contract] # "AdaptersOnly"
  /\ outcome \in OracleSigned[m]
  /\ now <= valid_until

SettleMarket(m, status, outcome) ==
  market' = [market EXCEPT ![config.market_contract][m] =
               [status |-> status, outcome |-> outcome, settled_by |-> "resolution"]]

\* resolve_market verifies a V1 signature, so it rejects one made under V2.
ResolveMarket(cand) ==
  /\ RequireMarketActive(cand.market_id)
  /\ cand.version = "V1"
  /\ VerifySignature(cand.market_id, cand.outcome)
  /\ now <= cand.signature_expiry
  /\ SettleMarket(cand.market_id, "Resolved", cand.outcome)

ResolveMarketV2(cand) ==
  /\ RequireMarketActive(cand.market_id)
  /\ cand.version = "V2"
  /\ VerifySignatureV2(cand.market_id, cand.outcome, cand.signature_expiry)
  /\ SettleMarket(cand.market_id, "Resolved", cand.outcome)

VoidInMarket(m) ==
  /\ RequireMarketActive(m)
  /\ SettleMarket(m, "Canceled", FALSE)

-------------------------------------------------------------------------------
\* Token transfers.  A token rejects a negative amount and an overdraft.
\*
\* A definition commented "Fault" is no part of the model: it is the operator
\* that follows it with a plausible mistake, to show that a property notices.

\* Fault: the bond is recorded and never moved (issue #899).
TransferNothingIn(token, from, amount) == UNCHANGED balance

TransferIn(token, from, amount) ==
  /\ amount <= balance[token][from]
  /\ balance' = [balance EXCEPT ![token][from] = @ - amount,
                                ![token][This] = @ + amount]

\* Pay every account its credit out of this contract's balance, and burn burned.
TransferOut(token, credit, burned) ==
  LET out == SumFunction(credit) + burned
  IN  /\ credit \in [Accounts -> Nat]
      /\ out \in 0 .. balance[token][This]
      /\ balance' = [balance EXCEPT ![token] = [a \in Accounts |->
                       balance[token][a] + credit[a] - (IF a = This THEN out ELSE 0)]]

-------------------------------------------------------------------------------
\* The split of a forfeited bond: REWARD_BPS to the winner, BURN_BPS burned,
\* the remainder (with the rounding dust) to the treasury, or kept when no
\* treasury is registered.

REWARD_BPS      == 5000
BURN_BPS        == 2500
BPS_DENOMINATOR == 10000

SplitBond(total) ==
  LET reward == (total * REWARD_BPS) \div BPS_DENOMINATOR
      burned == (total * BURN_BPS) \div BPS_DENOMINATOR
  IN  [reward |-> reward, burned |-> burned, treasury |-> total - reward - burned]

\* One leg of the split, summed over the forfeited bonds of a challenger list.
Forfeited(records, leg) ==
  SumFunction([i \in DOMAIN records |-> SplitBond(records[i].bond)[leg]])

\* What account a posted, over a challenger list.
PostedBy(records, a) ==
  SumFunctionOnSet([i \in DOMAIN records |-> records[i].bond],
                   {i \in DOMAIN records : records[i].challenger = a})

TreasuryCredit(a, cut) == IF a = treasury THEN cut ELSE 0

\* finalize and arbitrate_uphold_proposer: the proposer gets its bond back and
\* the reward of every challenger's forfeited bond.
UpheldCredit(cand, records) ==
  [a \in Accounts |->
     (IF a = cand.proposer THEN cand.bond_amount + Forfeited(records, "reward") ELSE 0)
     + TreasuryCredit(a, Forfeited(records, "treasury"))]

\* Fault: the losing challengers are refunded instead of slashed.
RefundChallengers(cand, records) ==
  TransferOut(GetCollateralToken(cand.market_id),
              [a \in Accounts |-> (IF a = cand.proposer THEN cand.bond_amount ELSE 0)
                                  + PostedBy(records, a)], 0)

SettleChallengersAsLosers(cand, records) ==
  TransferOut(GetCollateralToken(cand.market_id), UpheldCredit(cand, records),
              Forfeited(records, "burned"))

\* Fault: the proposer's bond is split and the challengers' refund forgotten.
VoidedCreditKeepingBonds(cand, records) ==
  [a \in Accounts |->
     (IF records # <<>> /\ a = records[Len(records)].challenger
      THEN SplitBond(cand.bond_amount).reward ELSE 0)
     + TreasuryCredit(a, SplitBond(cand.bond_amount).treasury)]

\* void_market: the proposer's bond is forfeited to the last challenger on
\* record, and every challenger gets its own bond back.
VoidedCredit(cand, records) ==
  LET winner == IF records = <<>> THEN cand.proposer
                                  ELSE records[Len(records)].challenger
      parts  == SplitBond(cand.bond_amount)
  IN  [a \in Accounts |->
         (IF a = winner THEN parts.reward ELSE 0)
         + PostedBy(records, a) + TreasuryCredit(a, parts.treasury)]

-------------------------------------------------------------------------------
\* initialize

Initialize(factory, market_contract, window) ==
  /\ config.market_contract = Unset
  /\ ValidateChallengeWindow(window)
  /\ config' = [factory |-> factory, market_contract |-> market_contract,
                challenge_window_secs |-> window]
  /\ UNCHANGED <<now, treasury, pending, mode, paused, disputeVars, marketVars, moneyVars>>

-------------------------------------------------------------------------------
\* The dispute: propose, challenge, appeal.

\* Fault: a market that has a candidate may be proposed for again.
PostableAgain(m, window, bond) ==
  /\ AssertVersion
  /\ RequireEmergencyModeAllows({"Normal"})
  /\ ValidateChallengeWindow(window) /\ InHorizon(window)
  /\ bond >= MIN_BOND_AMOUNT
  /\ RequireMarketActive(m)

Postable(m, window, bond) ==
  /\ AssertVersion
  /\ RequireEmergencyModeAllows({"Normal"})
  /\ ValidateChallengeWindow(window) /\ InHorizon(window)
  /\ bond >= MIN_BOND_AMOUNT
  /\ byMarket[m] = 0
  /\ RequireMarketActive(m)

\* set_candidate writes the candidate and, every time, its market's index entry.
SetCandidate(c, cand) ==
  /\ candidates' = [candidates EXCEPT ![c] = cand]
  /\ byMarket' = [byMarket EXCEPT ![cand.market_id] = c]

FreshCandidate(p, m, outcome, version, expiry, window, bond) ==
  [market_id |-> m, outcome |-> outcome, version |-> version,
   signature_expiry |-> expiry, proposer |-> p, proposed_at |-> now,
   challenge_deadline |-> now + window, status |-> "Proposed",
   challenged_by |-> Unset, finalized_at |-> 0, appeal_round |-> 0,
   bond_amount |-> bond]

\* set_candidate under the next id; the challenger list of that id is still absent.
AddCandidate(cand) ==
  /\ candidates' = Append(candidates, cand)
  /\ byMarket' = [byMarket EXCEPT ![cand.market_id] = Len(candidates) + 1]
  /\ challengers' = Append(challengers, <<>>)

Propose(p, m, outcome, expiry, window, bond) ==
  /\ RequireNotPaused
  /\ Postable(m, window, bond)
  /\ VerifySignature(m, outcome)
  /\ expiry >= now
  /\ AddCandidate(FreshCandidate(p, m, outcome, "V1", expiry, window, bond))
  /\ TransferIn(GetCollateralToken(m), p, bond)
  /\ UNCHANGED <<now, adminVars, marketVars, collateral>>

\* propose_v2 has no require_not_paused.
ProposeV2(p, m, outcome, valid_until, window, bond) ==
  /\ Postable(m, window, bond)
  /\ VerifySignatureV2(m, outcome, valid_until)
  /\ valid_until >= now
  /\ AddCandidate(FreshCandidate(p, m, outcome, "V2", valid_until, window, bond))
  /\ TransferIn(GetCollateralToken(m), p, bond)
  /\ UNCHANGED <<now, adminVars, marketVars, collateral>>

\* Fault: a candidate that is challenged already may be challenged again.
ChallengeableTwice(cand) ==
  /\ cand.status \in {"Proposed", "Challenged"}
  /\ now < cand.challenge_deadline

Challengeable(cand) ==
  /\ cand.status = "Proposed"
  /\ now < cand.challenge_deadline

Challenge(u, c, bond) ==
  LET cand == candidates[c]
  IN  /\ RequireNotPaused /\ AssertVersion
      /\ RequireEmergencyModeAllows({"Normal", "TradingHalted"})
      /\ bond >= MIN_CHALLENGE_BOND_AMOUNT
      /\ Challengeable(cand)
      /\ SetCandidate(c, [cand EXCEPT !.status = "Challenged", !.challenged_by = u])
      /\ challengers' = [challengers EXCEPT ![c] =
           Append(@, [challenger |-> u, bond |-> bond])]
      /\ TransferIn(GetCollateralToken(cand.market_id), u, bond)
      /\ UNCHANGED <<now, adminVars, marketVars, collateral>>

\* Fault: the appeal limit is compared one off.
AppealableOnceMore(cand) ==
  /\ cand.status = "Challenged"
  /\ cand.appeal_round <= MAX_APPEAL_ROUNDS
  /\ cand.version = "V1"

Appealable(cand) ==
  /\ cand.status = "Challenged"
  /\ cand.appeal_round < MAX_APPEAL_ROUNDS
  /\ cand.version = "V1"

\* Anyone may appeal: the proposer argument is authenticated, not compared.
\* The signature expiry of the original proposal is kept.
Appeal(c, outcome, window) ==
  LET cand == candidates[c]
  IN  /\ RequireNotPaused /\ AssertVersion
      /\ RequireEmergencyModeAllows({"Normal"})
      /\ ValidateChallengeWindow(window) /\ InHorizon(window)
      /\ Appealable(cand)
      /\ RequireMarketActive(cand.market_id)
      /\ VerifySignature(cand.market_id, outcome)
      /\ SetCandidate(c, [cand EXCEPT
           !.outcome = outcome, !.proposed_at = now, !.challenge_deadline = now + window,
           !.status = "Proposed", !.challenged_by = Unset, !.appeal_round = @ + 1])
      /\ UNCHANGED <<now, adminVars, challengers, marketVars, moneyVars>>

-------------------------------------------------------------------------------
\* The terminal paths: finalize, arbitrate_uphold_proposer, void_market.

\* Fault: void_market, copied from arbitration, records the wrong final status.
ConcludeFinalized(c, status) ==
  /\ SetCandidate(c, [candidates[c] EXCEPT !.status = "Finalized", !.finalized_at = now])
  /\ challengers' = [challengers EXCEPT ![c] = <<>>]

Conclude(c, status) ==
  /\ SetCandidate(c, [candidates[c] EXCEPT !.status = status, !.finalized_at = now])
  /\ challengers' = [challengers EXCEPT ![c] = <<>>]

Finalizable(cand) ==
  /\ cand.status = "Proposed"
  /\ now >= cand.challenge_deadline
  /\ now <= cand.signature_expiry

Finalize(c) ==
  LET cand == candidates[c]
  IN  /\ RequireNotPaused /\ AssertVersion
      /\ RequireEmergencyModeAllows({"Normal", "TradingHalted", "SettleOnly"})
      /\ Finalizable(cand)
      /\ Conclude(c, "Finalized")
      /\ SettleChallengersAsLosers(cand, challengers[c])
      /\ ResolveMarket(cand) \/ ResolveMarketV2(cand)
      /\ UNCHANGED <<now, adminVars, gate, collateral>>

\* Fault: arbitration does not wait for its timelock.
ArbitrableAtOnce(cand) ==
  /\ cand.status = "Challenged"
  /\ now >= cand.challenge_deadline

\* Fault: arbitration also waits for every appeal to be used up.
ArbitrableWhenExhausted(cand) ==
  /\ cand.status = "Challenged"
  /\ cand.appeal_round >= MAX_APPEAL_ROUNDS
  /\ now >= cand.challenge_deadline + ARBITRATION_TIMELOCK_SECONDS

RequireArbitrable(cand) ==
  /\ cand.status = "Challenged"
  /\ now >= cand.challenge_deadline + ARBITRATION_TIMELOCK_SECONDS

\* Arbitration calls resolve_market whatever scheme the candidate was signed under.
ArbitrateUpholdProposer(c) ==
  LET cand == candidates[c]
  IN  /\ RequireNotPaused /\ AssertVersion
      /\ RequireArbitrable(cand)
      /\ Conclude(c, "Finalized")
      /\ SettleChallengersAsLosers(cand, challengers[c])
      /\ ResolveMarket(cand)
      /\ UNCHANGED <<now, adminVars, gate, collateral>>

VoidMarket(c) ==
  LET cand == candidates[c]
  IN  /\ RequireNotPaused /\ AssertVersion
      /\ RequireArbitrable(cand)
      /\ Conclude(c, "Voided")
      /\ TransferOut(GetCollateralToken(cand.market_id), VoidedCredit(cand, challengers[c]),
                     SplitBond(cand.bond_amount).burned)
      /\ VoidInMarket(cand.market_id)
      /\ UNCHANGED <<now, adminVars, gate, collateral>>

-------------------------------------------------------------------------------
\* Proposer collateral.  Neither call looks at the pause flag, and the token is
\* an argument of each, not part of the record.

DepositCollateral(p, token, amount) ==
  /\ AssertVersion
  /\ RequireEmergencyModeAllows({"Normal"})
  /\ amount > 0
  /\ collateral' = [collateral EXCEPT ![p] = @ + amount]
  /\ TransferIn(token, p, amount)
  /\ UNCHANGED <<now, adminVars, disputeVars, marketVars>>

\* Fault: the slashed collateral stays on record and can be slashed again.
SlashKeepingRecord(p, token, recipient) ==
  /\ AssertVersion
  /\ collateral[p] > 0
  /\ TransferOut(token, [a \in Accounts |-> IF a = recipient THEN collateral[p] ELSE 0], 0)
  /\ UNCHANGED <<now, adminVars, disputeVars, marketVars, collateral>>

SlashCollateral(p, token, recipient) ==
  /\ AssertVersion
  /\ collateral[p] > 0
  /\ collateral' = [collateral EXCEPT ![p] = 0]
  /\ TransferOut(token, [a \in Accounts |-> IF a = recipient THEN collateral[p] ELSE 0], 0)
  /\ UNCHANGED <<now, adminVars, disputeVars, marketVars>>

-------------------------------------------------------------------------------
\* Administration: every call below is signed by config.admin, except the
\* execute_* calls, which anyone may make once the timelock has elapsed.

SetDefaultChallengeWindow(seconds) ==
  /\ AssertVersion
  /\ ValidateChallengeWindow(seconds)
  /\ config' = [config EXCEPT !.challenge_window_secs = seconds]
  /\ UNCHANGED <<now, treasury, pending, mode, paused, disputeVars, marketVars, moneyVars>>

\* set_market_contract takes effect at once and leaves a pending change pending.
SetMarketContract(market_contract) ==
  /\ AssertVersion
  /\ config' = [config EXCEPT !.market_contract = market_contract]
  /\ UNCHANGED <<now, treasury, pending, mode, paused, disputeVars, marketVars, moneyVars>>

ProposeAddress(register, address) ==
  /\ AssertVersion
  /\ pending' = [pending EXCEPT ![register] =
       [new_address |-> address, effective_at |-> now + ADDRESS_TIMELOCK_SECONDS]]
  /\ UNCHANGED <<now, config, treasury, mode, paused, disputeVars, marketVars, moneyVars>>

CancelAddress(register) ==
  /\ AssertVersion
  /\ pending' = [pending EXCEPT ![register] = Unset]
  /\ UNCHANGED <<now, config, treasury, mode, paused, disputeVars, marketVars, moneyVars>>

\* Fault: the change may be executed as soon as it is announced.
DueAtOnce(register, address) ==
  /\ AssertVersion
  /\ pending[register] # Unset /\ pending[register].new_address = address
  /\ pending' = [pending EXCEPT ![register] = Unset]
  /\ UNCHANGED <<now, mode, paused, disputeVars, marketVars, moneyVars>>

\* What the three execute_* calls share: the pending change is due, is taken off
\* the register, and its address is what the call returns.
Due(register, address) ==
  /\ AssertVersion
  /\ pending[register] # Unset /\ pending[register].new_address = address
  /\ now >= pending[register].effective_at
  /\ pending' = [pending EXCEPT ![register] = Unset]
  /\ UNCHANGED <<now, mode, paused, disputeVars, marketVars, moneyVars>>

ProposeFactory(factory) == ProposeAddress("factory", factory)
CancelFactory == CancelAddress("factory")
ExecuteFactory(factory) ==
  /\ Due("factory", factory)
  /\ config' = [config EXCEPT !.factory = factory]
  /\ UNCHANGED treasury

ProposeMarketContract(market_contract) == ProposeAddress("market_contract", market_contract)
CancelMarketContract == CancelAddress("market_contract")
ExecuteMarketContract(market_contract) ==
  /\ Due("market_contract", market_contract)
  /\ config' = [config EXCEPT !.market_contract = market_contract]
  /\ UNCHANGED treasury

ProposeTreasury(address) == ProposeAddress("treasury", address)
CancelTreasury == CancelAddress("treasury")
ExecuteTreasury(address) ==
  /\ Due("treasury", address)
  /\ treasury' = address
  /\ UNCHANGED config

SetEmergencyMode(new_mode) ==
  /\ AssertVersion
  /\ mode' = new_mode
  /\ UNCHANGED <<now, config, treasury, pending, paused, disputeVars, marketVars, moneyVars>>

SetPaused(flag) ==
  /\ AssertVersion
  /\ paused' = flag
  /\ UNCHANGED <<now, config, treasury, pending, mode, disputeVars, marketVars, moneyVars>>

Pause == SetPaused(TRUE)
Unpause == SetPaused(FALSE)

-------------------------------------------------------------------------------
\* The environment: the ledger clock, and what happens in the market contracts
\* without this one (an admin-forced resolve_market, cancel_market,
\* reopen_market, the V1 kill switch, the one-way adapter lock).

Tick ==
  /\ now < MaxTime
  /\ now' = now + 1
  /\ UNCHANGED <<adminVars, disputeVars, marketVars, moneyVars>>

SettledElsewhere(k, m, event, outcome) ==
  /\ market[k][m].status = IF event = "Reopen" THEN "Canceled" ELSE "Active"
  /\ market' = [market EXCEPT ![k][m] =
       [status |-> CASE event = "Resolve" -> "Resolved"
                     [] event = "Cancel"  -> "Canceled"
                     [] event = "Reopen"  -> "Active",
        outcome |-> event = "Resolve" /\ outcome, settled_by |-> "elsewhere"]]
  /\ UNCHANGED <<now, adminVars, disputeVars, gate, moneyVars>>

MoveGate(k, g) ==
  /\ gate[k] # "AdaptersOnly"
  /\ gate' = [gate EXCEPT ![k] = g]
  /\ UNCHANGED <<now, adminVars, disputeVars, market, moneyVars>>

-------------------------------------------------------------------------------
\* Next

ProposeStep ==
  \E p \in Users, m \in Markets, o \in BOOLEAN, e \in ExpiryInputs,
     w \in WindowInputs, b \in BondInputs :
    Propose(p, m, o, e, w, b) \/ ProposeV2(p, m, o, e, w, b)

DisputeStep ==
  \E c \in DOMAIN candidates :
    \/ \E u \in Users, b \in BondInputs : Challenge(u, c, b)
    \/ \E o \in BOOLEAN, w \in WindowInputs : Appeal(c, o, w)
    \/ Finalize(c)
    \/ ArbitrateUpholdProposer(c)
    \/ VoidMarket(c)

CollateralStep ==
  \E p \in Users, t \in DepositTokens :
    \/ \E amount \in CollateralInputs : DepositCollateral(p, t, amount)
    \/ \E recipient \in Users : SlashCollateral(p, t, recipient)

AdminStep ==
  \/ \E f \in Factories, k \in MarketContracts, w \in WindowInputs : Initialize(f, k, w)
  \/ \E w \in WindowInputs : SetDefaultChallengeWindow(w)
  \/ \E k \in MarketContractInputs :
       SetMarketContract(k) \/ ProposeMarketContract(k) \/ ExecuteMarketContract(k)
  \/ \E f \in FactoryInputs : ProposeFactory(f) \/ ExecuteFactory(f)
  \/ \E t \in TreasuryInputs : ProposeTreasury(t) \/ ExecuteTreasury(t)
  \/ CancelFactory \/ CancelMarketContract \/ CancelTreasury
  \/ \E new_mode \in ModeInputs : SetEmergencyMode(new_mode)
  \/ TRUE \in PauseInputs /\ Pause
  \/ FALSE \in PauseInputs /\ Unpause

EnvironmentStep ==
  \E k \in MarketContracts :
    \/ \E g \in GateInputs : MoveGate(k, g)
    \/ \E m \in Markets, event \in OutOfBand, o \in BOOLEAN : SettledElsewhere(k, m, event, o)

Next ==
  \/ Tick
  \/ ProposeStep
  \/ DisputeStep
  \/ CollateralStep
  \/ AdminStep
  \/ EnvironmentStep

Spec == Init /\ [][Next]_vars

-------------------------------------------------------------------------------
(***************************************************************************)
(* Safety.                                                                 *)
(***************************************************************************)
Live(cand) == cand.status \in {"Proposed", "Challenged"}

\* The challenger list and the candidate are separate storage entries that must
\* stay in step: a live candidate has one record per challenge it has met, so
\* one per appeal and one more while it is challenged, and never more than
\* MAX_APPEAL_ROUNDS + 1; a concluded one has none left to be settled again.
InStep(cand, records) ==
  /\ Len(records) = IF Live(cand)
                    THEN cand.appeal_round + (IF cand.status = "Challenged" THEN 1 ELSE 0)
                    ELSE 0
  /\ Len(records) <= MAX_APPEAL_ROUNDS + 1
  /\ cand.status = "Challenged" => cand.challenged_by = records[Len(records)].challenger

ChallengersInStep == \A c \in DOMAIN candidates : InStep(candidates[c], challengers[c])

\* CandidateByMarket and Candidate agree in both directions: every candidate is
\* the one its market's index names, and every index entry names a candidate of
\* that market, so no market ever has two candidates or loses the one it has.
OneCandidatePerMarket ==
  /\ \A c \in DOMAIN candidates : byMarket[candidates[c].market_id] = c
  /\ \A m \in Markets : byMarket[m] # 0 =>
       byMarket[m] \in DOMAIN candidates /\ candidates[byMarket[m]].market_id = m

\* What finalize, arbitration or voiding of the candidates that are still live
\* will have to pay out, in the token those settlements will look up.
BondsOf(c) ==
  candidates[c].bond_amount
  + SumFunction([i \in DOMAIN challengers[c] |-> challengers[c][i].bond])

Locked(token) ==
  SumFunctionOnSet([c \in DOMAIN candidates |-> BondsOf(c)],
                   {c \in DOMAIN candidates :
                      /\ Live(candidates[c])
                      /\ GetCollateralToken(candidates[c].market_id) = token})

\* What this contract holds, all tokens taken together.
Holdings == SumFunction([t \in Tokens |-> balance[t][This]])

\* Every bond of every live dispute is backed by tokens this contract holds, in
\* the token it will be settled in, whatever was settled, slashed or deposited
\* before; and its holdings over all tokens also cover the proposer collateral.
BondsBacked ==
  AssertVersion =>
    /\ \A t \in Tokens : balance[t][This] >= Locked(t)
    /\ Holdings >= SumFunction([t \in Tokens |-> Locked(t)]) + SumFunction(collateral)

\* While a candidate can still be finalized unchallenged, nobody is on record as
\* challenging it, and every window it was ever given is at least the minimum.
WindowHolds(cand) ==
  /\ cand.challenge_deadline >= cand.proposed_at + MIN_CHALLENGE_WINDOW_SECONDS
  /\ cand.status = "Proposed" => cand.challenged_by = Unset

WindowsHold == \A c \in DOMAIN candidates : WindowHolds(candidates[c])

\* An outcome is only ever made final after a full challenge window has passed
\* since that outcome was last put forward, and when it was settled over a
\* standing challenge, after the arbitration timelock as well.
SettledInTime(cand) ==
  ~Live(cand) =>
    /\ cand.finalized_at >= cand.proposed_at + MIN_CHALLENGE_WINDOW_SECONDS
    /\ cand.challenged_by # Unset =>
         cand.finalized_at >= cand.proposed_at + MIN_CHALLENGE_WINDOW_SECONDS
                              + ARBITRATION_TIMELOCK_SECONDS

SettledAfterItsWindow == \A c \in DOMAIN candidates : SettledInTime(candidates[c])

\* The two contracts agree on what was decided: a finalized candidate's outcome
\* is the outcome of its market, and a market settled by this contract has a
\* concluded candidate that says the same, never one still in dispute.
Decided(cand) ==
  cand.status = "Finalized" =>
    \E k \in MarketContracts :
      LET settled == market[k][cand.market_id]
      IN  /\ settled.status = "Resolved" /\ settled.settled_by = "resolution"
          /\ settled.outcome = cand.outcome

Accounted(m, settled) ==
  settled.settled_by = "resolution" =>
    /\ byMarket[m] \in DOMAIN candidates
    /\ LET cand == candidates[byMarket[m]]
       IN  \/ /\ settled.status = "Resolved" /\ cand.status = "Finalized"
              /\ settled.outcome = cand.outcome
           \/ settled.status = "Canceled" /\ cand.status = "Voided"

MarketAgrees ==
  /\ \A c \in DOMAIN candidates : Decided(candidates[c])
  /\ \A k \in MarketContracts, m \in Markets : Accounted(m, market[k][m])

\* Losing a dispute costs money and nothing else does (for a run with a single
\* dispute and no proposer collateral, where a balance can be compared with
\* Funds): an unchallenged proposer gets exactly its bond back; when the
\* outcome stands, no challenger gains and the one it was settled over loses;
\* when the market is voided, the proposer loses and no challenger does.
LosingCosts ==
  \A c \in DOMAIN candidates :
    LET cand   == candidates[c]
        net(u) == balance[GetCollateralToken(cand.market_id)][u] - Funds
    IN  /\ cand.status = "Finalized" =>
             /\ \A u \in Users \ {cand.proposer} : net(u) <= 0
             /\ cand.challenged_by \notin {Unset, cand.proposer} => net(cand.challenged_by) < 0
             /\ cand.appeal_round = 0 /\ cand.challenged_by = Unset => net(cand.proposer) = 0
        /\ cand.status = "Voided" =>
             /\ \A u \in Users \ {cand.proposer} : net(u) >= 0
             /\ net(cand.proposer) < 0

\* The contract implements the escrow it promises: the disputes are the
\* markets, and the stakes of a live candidate its bond and its challengers'.
Stakes(m) ==
  IF byMarket[m] # 0 /\ Live(candidates[byMarket[m]])
  THEN <<candidates[byMarket[m]].bond_amount>>
         \o [i \in DOMAIN challengers[byMarket[m]] |-> challengers[byMarket[m]][i].bond]
  ELSE <<>>

Escrow == INSTANCE BondEscrow WITH
  Disputes   <- Markets,
  Depositors <- Users,
  stakes     <- [m \in Markets |-> Stakes(m)],
  settled    <- {m \in Markets : byMarket[m] # 0 /\ ~Live(candidates[byMarket[m]])},
  deposits   <- collateral,
  held       <- Holdings

\* Every bond is locked once, released once, together with the others of its
\* dispute, and out of nobody else's money.
ImplementsEscrow == Escrow!Spec

\* For how long a pending treasury address has stood, up to the whole delay.
NoticeGiven ==
  IF pending["treasury"] = Unset THEN 0
  ELSE IF now >= pending["treasury"].effective_at THEN ADDRESS_TIMELOCK_SECONDS
  ELSE now + ADDRESS_TIMELOCK_SECONDS - pending["treasury"].effective_at

SlashRegister == INSTANCE TimelockedRegister WITH
  Nothing   <- Unset,
  Delay     <- ADDRESS_TIMELOCK_SECONDS,
  inForce   <- treasury,
  announced <- IF pending["treasury"] = Unset THEN Unset ELSE pending["treasury"].new_address,
  age       <- NoticeGiven

\* "Prevents an admin from redirecting the slash treasury cut instantly" (#687):
\* by no sequence of proposals, repeated proposals, cancellations and executions
\* does the treasury cut go to an address that has not stood announced for the
\* whole timelock.
TreasuryIsTimelocked == SlashRegister!Spec

-------------------------------------------------------------------------------
(***************************************************************************)
(* Liveness.  The clock runs; the admin does not leave the contract paused *)
(* for ever, and voids a dispute that keeps being due for it; somebody     *)
(* finalizes a candidate that keeps being ready (finalize is open to all). *)
(***************************************************************************)
CandidateIds == 1 .. Cardinality(Markets)

Fairness ==
  /\ WF_vars(Tick)
  /\ WF_vars(Unpause)
  /\ \A c \in CandidateIds : /\ SF_vars(IsCandidate(c) /\ Finalize(c))
                             /\ SF_vars(IsCandidate(c) /\ VoidMarket(c))

FairSpec == Spec /\ Fairness

\* No candidate stays open for ever, whoever stops taking part in its dispute:
\* its bonds are released and its market is decided.
EveryDisputeConcludes ==
  \A c \in CandidateIds : IsCandidate(c) ~> IsCandidate(c) /\ ~Live(candidates[c])

-------------------------------------------------------------------------------
(***************************************************************************)
(* What comments in the source say and the code does not do.               *)
(***************************************************************************)

\* "finalize (and admin arbitration) will call resolve_market_v2 for any
\* candidate proposed here": a V2 candidate that is due for arbitration, whose
\* signature the market would still accept, can be upheld.
V2CandidateCanBeUpheld ==
  \A c \in DOMAIN candidates :
    LET cand == candidates[c]
    IN  /\ AssertVersion /\ RequireNotPaused
        /\ RequireArbitrable(cand)
        /\ cand.version = "V2"
        /\ RequireMarketActive(cand.market_id)
        /\ VerifySignatureV2(cand.market_id, cand.outcome, cand.signature_expiry)
        => ENABLED ArbitrateUpholdProposer(c)
===============================================================================
