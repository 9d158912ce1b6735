------------------------------- MODULE Treasury -------------------------------
(***************************************************************************)
(* The Vatix treasury contract (contracts/treasury): it keeps the books of *)
(* the protocol fees that registered market contracts transfer to it, and  *)
(* the admin withdraws them or distributes them to the stakeholders.       *)
(*                                                                         *)
(* One action per entrypoint.  A Soroban call is atomic and a call that    *)
(* fails changes nothing, so failing calls are not steps.  Admin calls are *)
(* signed by the address in admin; execute_* may be called by anyone.      *)
(***************************************************************************)
EXTENDS Integers, Sequences, FiniteSets, Functions

CONSTANTS
  Admins,                       \* addresses that may be named admin
  MarketContracts,              \* addresses that may be registered as market
  Tokens,                       \* token contracts
  Recipients,                   \* stakeholders, never the treasury itself
  Unset,                        \* an absent storage entry
  Supply,                       \* [Tokens -> amount]: all there is of a token
  FeeInputs,                    \* fee_amount arguments of collect_fee
  AmountInputs,                 \* amount arguments of withdraw_fees
  ListInputs,                   \* stakeholders arguments of propose_stakeholders
  ModeInputs,                   \* new_mode arguments of set_emergency_mode
  PauseInputs,                  \* TRUE: pause is called, FALSE: unpause is
  AdminInputs,                  \* new_admin arguments
  MarketInputs,                 \* market_contract arguments
  SlashInputs,                  \* treasury shares of bonds slashed elsewhere
  MAX,                          \* i128::MAX
  BPS_DENOMINATOR,
  ADDRESS_TIMELOCK_SECONDS,
  MaxTime                       \* bound: the clock stops here

VARIABLES
  now,                  \* env.ledger().timestamp()
  admin,                \* StorageKey::Admin
  pendingAdmin,         \* StorageKey::PendingAdmin
  markets,              \* StorageKey::AuthorizedMarkets (a Vec without repetition)
  pendingMarket,        \* StorageKey::PendingMarketContract
  stakeholders,         \* StorageKey::Stakeholders
  pendingStakeholders,  \* StorageKey::PendingStakeholders
  paused,               \* StorageKey::Paused
  mode,                 \* StorageKey::EmergencyMode
  balance,              \* StorageKey::TokenBalance(token)
  cumulative,           \* StorageKey::CumulativeFees(token)
  total,                \* StorageKey::TotalCollected
  feeTokens,            \* StorageKey::FeeTokens
  custody,              \* the token contracts: what this contract holds of each
  paid                  \* history: what was paid out of each token so far

adminVars == <<admin, pendingAdmin>>
marketVars == <<markets, pendingMarket>>
shareVars == <<stakeholders, pendingStakeholders>>
haltVars == <<paused, mode>>
bookVars == <<balance, cumulative, total, feeTokens, custody, paid>>
vars == <<now, adminVars, marketVars, shareVars, haltVars, bookVars>>

Modes == {"Normal", "TradingHalted", "SettleOnly", "GlobalFreeze"}

Stakeholder == [address : Recipients, share_bps : Nat]
PendingAddressChange == [new_address : Admins \cup MarketContracts, effective_at : Nat]
PendingStakeholders == [stakeholders : Seq(Stakeholder), effective_at : Nat]

ASSUME ConstantsAssumption ==
  /\ MAX \in Nat /\ Supply \in [Tokens -> 0 .. MAX]
  /\ FeeInputs \subseteq Int /\ AmountInputs \subseteq Int /\ SlashInputs \subseteq Nat
  /\ ListInputs \subseteq Seq(Stakeholder)
  /\ ModeInputs \subseteq Modes /\ PauseInputs \subseteq BOOLEAN
  /\ AdminInputs \subseteq Admins /\ MarketInputs \subseteq MarketContracts
  /\ BPS_DENOMINATOR \in Nat \ {0}
  /\ ADDRESS_TIMELOCK_SECONDS \in Nat /\ MaxTime \in Nat
  /\ Unset \notin Admins \cup MarketContracts
  /\ Unset \notin PendingAddressChange /\ Unset \notin PendingStakeholders
  /\ Unset \notin Seq(Stakeholder)

TypeOK ==
  /\ now \in Nat
  /\ admin \in Admins \cup {Unset}
  /\ pendingAdmin \in PendingAddressChange \cup {Unset}
  /\ pendingAdmin # Unset => pendingAdmin.new_address \in Admins
  /\ markets \subseteq MarketContracts
  /\ pendingMarket \in PendingAddressChange \cup {Unset}
  /\ pendingMarket # Unset => pendingMarket.new_address \in MarketContracts
  /\ stakeholders \in Seq(Stakeholder)
  /\ pendingStakeholders \in PendingStakeholders \cup {Unset}
  /\ paused \in BOOLEAN /\ mode \in Modes
  /\ balance \in [Tokens -> Int] /\ cumulative \in [Tokens -> 0 .. MAX]
  /\ total \in 0 .. MAX /\ feeTokens \subseteq Tokens
  /\ custody \in [Tokens -> Nat] /\ paid \in [Tokens -> Int]

Init ==
  /\ now = 0
  /\ admin = Unset /\ pendingAdmin = Unset
  /\ markets = {} /\ pendingMarket = Unset
  /\ stakeholders = <<>> /\ pendingStakeholders = Unset
  /\ paused = FALSE /\ mode = "Normal"
  /\ balance = [t \in Tokens |-> 0] /\ cumulative = [t \in Tokens |-> 0]
  /\ total = 0 /\ feeTokens = {}
  /\ custody = [t \in Tokens |-> 0] /\ paid = [t \in Tokens |-> 0]

-------------------------------------------------------------------------------
\* Guards.  has_admin: initialize writes Admin and StorageVersion together, so
\* the version guard of the accessors passes exactly when there is an admin.

HasAdmin == admin # Unset

RequireEmergencyModeAllows == mode \in {"Normal", "TradingHalted", "SettleOnly"}

\* What collect_fee, withdraw_fees and distribute_fees check first.
MoneyMayMove == HasAdmin /\ ~paused /\ RequireEmergencyModeAllows

\* Fault: the addition does not saturate.
PlainAdd(a, b) == a + b

\* checked_add(..).unwrap_or(i128::MAX)
SaturatingAdd(a, b) == IF a + b > MAX THEN MAX ELSE a + b

-------------------------------------------------------------------------------
\* initialize

Initialize(new_admin, market_contract) ==
  /\ ~HasAdmin
  /\ admin' = new_admin
  /\ markets' = {market_contract}
  /\ UNCHANGED <<now, pendingAdmin, pendingMarket, shareVars, haltVars, bookVars>>

-------------------------------------------------------------------------------
\* Fees in.  collect_fee moves nothing: a market contract transfers the fee and
\* calls it in one transaction (withdraw.rs), which is the action RouteFee.

TransferIn(t, amount) ==
  /\ amount \in 0 .. Supply[t] - custody[t]
  /\ custody' = [custody EXCEPT ![t] = @ + amount]

\* Fault: the cumulative counter is set to the new balance (#695).
RecordFeeFromBalance(t, fee) ==
  /\ feeTokens' = feeTokens \cup {t}
  /\ balance' = [balance EXCEPT ![t] = SaturatingAdd(@, fee)]
  /\ cumulative' = [cumulative EXCEPT ![t] = SaturatingAdd(balance[t], fee)]
  /\ total' = SaturatingAdd(total, fee)

RecordFee(t, fee) ==
  /\ feeTokens' = feeTokens \cup {t}
  /\ balance' = [balance EXCEPT ![t] = SaturatingAdd(@, fee)]
  /\ cumulative' = [cumulative EXCEPT ![t] = SaturatingAdd(@, fee)]
  /\ total' = SaturatingAdd(total, fee)

CollectFee(caller, t, fee) ==
  /\ MoneyMayMove
  /\ caller \in markets
  /\ fee > 0
  /\ RecordFee(t, fee)
  /\ UNCHANGED <<now, adminVars, marketVars, shareVars, haltVars, paid>>

RouteFee(k, t, fee) == TransferIn(t, fee) /\ CollectFee(k, t, fee)

\* The resolution contract sends the treasury share of a slashed bond by a plain
\* token transfer and calls nothing here.
ReceiveSlashShare(t, amount) ==
  /\ amount > 0
  /\ TransferIn(t, amount)
  /\ UNCHANGED <<now, adminVars, marketVars, shareVars, haltVars,
                 balance, cumulative, total, feeTokens, paid>>

-------------------------------------------------------------------------------
\* Fees out.

\* A payment out of this contract.  The token rejects an overdraft.  The history
\* of payments stops when the counter it is compared with saturates.
Pay(t, amount) ==
  /\ amount \in 0 .. custody[t]
  /\ custody' = [custody EXCEPT ![t] = @ - amount]
  /\ paid' = [paid EXCEPT ![t] = IF cumulative[t] < MAX THEN @ + amount ELSE @]

Withdrawable(t, amount) == amount > 0 /\ amount <= balance[t]

\* total is a record of what was ever received: it does not go down.
WithdrawFees(t, amount) ==
  /\ MoneyMayMove
  /\ Withdrawable(t, amount)
  /\ balance' = [balance EXCEPT ![t] = @ - amount]
  /\ Pay(t, amount)
  /\ UNCHANGED <<now, adminVars, marketVars, shareVars, haltVars,
                 cumulative, total, feeTokens>>

Share(held, bps) == (held * bps) \div BPS_DENOMINATOR

\* What a list of stakeholders gets out of a holding, all together.
Distributed(list, held) ==
  SumFunction([i \in DOMAIN list |-> Share(held, list[i].share_bps)])

\* Fault: every stakeholder is pushed twice, the ledger counts it once (#721).
PayoutTwice(list, held) == 2 * Distributed(list, held)

Payout(list, held) == Distributed(list, held)

\* The checked_mul of every share fits in an i128; the remainder stays behind.
DistributeFees(t) ==
  /\ MoneyMayMove
  /\ stakeholders # <<>>
  /\ balance[t] > 0
  /\ \A i \in DOMAIN stakeholders : balance[t] * stakeholders[i].share_bps <= MAX
  /\ balance' = [balance EXCEPT ![t] = @ - Distributed(stakeholders, balance[t])]
  /\ Pay(t, Payout(stakeholders, balance[t]))
  /\ UNCHANGED <<now, adminVars, marketVars, shareVars, haltVars,
                 cumulative, total, feeTokens>>

-------------------------------------------------------------------------------
\* The admin: one timelocked path and one immediate one.

AfterTimelock(what) == [new_address |-> what, effective_at |-> now + ADDRESS_TIMELOCK_SECONDS]

Due(pending) == pending # Unset /\ now >= pending.effective_at

ProposeAdmin(new_admin) ==
  /\ HasAdmin
  /\ pendingAdmin' = AfterTimelock(new_admin)
  /\ UNCHANGED <<now, admin, marketVars, shareVars, haltVars, bookVars>>

ExecuteAdmin ==
  /\ Due(pendingAdmin)
  /\ admin' = pendingAdmin.new_address
  /\ pendingAdmin' = Unset
  /\ UNCHANGED <<now, marketVars, shareVars, haltVars, bookVars>>

CancelAdmin ==
  /\ HasAdmin
  /\ pendingAdmin' = Unset
  /\ UNCHANGED <<now, admin, marketVars, shareVars, haltVars, bookVars>>

\* Takes effect at once, and a pending change stays pending.
TransferAdmin(new_admin) ==
  /\ HasAdmin
  /\ admin' = new_admin
  /\ UNCHANGED <<now, pendingAdmin, marketVars, shareVars, haltVars, bookVars>>

-------------------------------------------------------------------------------
\* The registry of market contracts.

\* add_market and set_market_contract: both add at once, unless it is there.
AddMarket(k) ==
  /\ HasAdmin
  /\ markets' = markets \cup {k}
  /\ UNCHANGED <<now, adminVars, pendingMarket, shareVars, haltVars, bookVars>>

SetMarketContract(k) == AddMarket(k)

\* A pending registration of the same contract stays pending.
RemoveMarket(k) ==
  /\ HasAdmin
  /\ markets' = markets \ {k}
  /\ UNCHANGED <<now, adminVars, pendingMarket, shareVars, haltVars, bookVars>>

ProposeMarketContract(k) ==
  /\ HasAdmin
  /\ pendingMarket' = AfterTimelock(k)
  /\ UNCHANGED <<now, adminVars, markets, shareVars, haltVars, bookVars>>

\* Appends, where it once replaced the whole registry (#720).
ExecuteMarketContract ==
  /\ Due(pendingMarket)
  /\ markets' = markets \cup {pendingMarket.new_address}
  /\ pendingMarket' = Unset
  /\ UNCHANGED <<now, adminVars, shareVars, haltVars, bookVars>>

CancelMarketContract ==
  /\ HasAdmin
  /\ pendingMarket' = Unset
  /\ UNCHANGED <<now, adminVars, markets, shareVars, haltVars, bookVars>>

-------------------------------------------------------------------------------
\* The stakeholders.

TotalBps(list) == SumFunction([i \in DOMAIN list |-> list[i].share_bps])

\* Fault: the shares may fall short of the whole or exceed it.
AnyWeights(list) == list # <<>>

ValidWeights(list) == list # <<>> /\ TotalBps(list) = BPS_DENOMINATOR

\* Fault: a second proposal keeps the date of the first.
RepeatedStakeholders(list) ==
  [stakeholders |-> list,
   effective_at |-> IF pendingStakeholders = Unset
                    THEN now + ADDRESS_TIMELOCK_SECONDS ELSE pendingStakeholders.effective_at]

NewPendingStakeholders(list) ==
  [stakeholders |-> list, effective_at |-> now + ADDRESS_TIMELOCK_SECONDS]

ProposeStakeholders(list) ==
  /\ HasAdmin
  /\ ValidWeights(list)
  /\ pendingStakeholders' = NewPendingStakeholders(list)
  /\ UNCHANGED <<now, adminVars, marketVars, stakeholders, haltVars, bookVars>>

ExecuteStakeholders ==
  /\ Due(pendingStakeholders)
  /\ stakeholders' = pendingStakeholders.stakeholders
  /\ pendingStakeholders' = Unset
  /\ UNCHANGED <<now, adminVars, marketVars, haltVars, bookVars>>

CancelStakeholders ==
  /\ HasAdmin
  /\ pendingStakeholders' = Unset
  /\ UNCHANGED <<now, adminVars, marketVars, stakeholders, haltVars, bookVars>>

-------------------------------------------------------------------------------
\* Pause and emergency mode.

SetPaused(flag) ==
  /\ HasAdmin
  /\ paused' = flag
  /\ UNCHANGED <<now, adminVars, marketVars, shareVars, mode, bookVars>>

Pause == SetPaused(TRUE)
Unpause == SetPaused(FALSE)

SetEmergencyMode(new_mode) ==
  /\ HasAdmin
  /\ mode' = new_mode
  /\ UNCHANGED <<now, adminVars, marketVars, shareVars, paused, bookVars>>

-------------------------------------------------------------------------------
\* Next

Tick ==
  /\ now < MaxTime
  /\ now' = now + 1
  /\ UNCHANGED <<adminVars, marketVars, shareVars, haltVars, bookVars>>

MoneyStep ==
  \E t \in Tokens :
    \/ \E k \in MarketContracts, fee \in FeeInputs : RouteFee(k, t, fee)
    \/ \E amount \in SlashInputs : ReceiveSlashShare(t, amount)
    \/ \E amount \in AmountInputs : WithdrawFees(t, amount)
    \/ DistributeFees(t)

AdminStep ==
  \/ \E a \in AdminInputs, k \in MarketInputs : Initialize(a, k)
  \/ \E a \in AdminInputs : ProposeAdmin(a) \/ TransferAdmin(a)
  \/ ExecuteAdmin \/ CancelAdmin

MarketStep ==
  \/ \E k \in MarketInputs :
       AddMarket(k) \/ SetMarketContract(k) \/ RemoveMarket(k) \/ ProposeMarketContract(k)
  \/ ExecuteMarketContract \/ CancelMarketContract

ShareStep ==
  \/ \E list \in ListInputs : ProposeStakeholders(list)
  \/ ExecuteStakeholders \/ CancelStakeholders

HaltStep ==
  \/ TRUE \in PauseInputs /\ Pause
  \/ FALSE \in PauseInputs /\ Unpause
  \/ \E new_mode \in ModeInputs : SetEmergencyMode(new_mode)

Next == Tick \/ MoneyStep \/ AdminStep \/ MarketStep \/ ShareStep \/ HaltStep

Spec == Init /\ [][Next]_vars

-------------------------------------------------------------------------------
(***************************************************************************)
(* Properties.                                                             *)
(***************************************************************************)

\* Whatever was collected, withdrawn and distributed in whatever order, the
\* contract holds every fee its books say it holds, so no withdrawal within the
\* recorded balance is refused by the token.
LedgerBacked == \A t \in Tokens : balance[t] <= custody[t]

\* The two records of a token tell the same story: until its counter saturates,
\* all that was ever collected is either still in the balance or was paid out,
\* once; and the tokens that ever brought a fee are exactly the listed ones.
BookBalances(t) ==
  /\ cumulative[t] < MAX => cumulative[t] = balance[t] + paid[t]
  /\ t \in feeTokens <=> cumulative[t] > 0

BooksBalance == \A t \in Tokens : BookBalances(t)

\* Whichever list is in force and whatever is held, a distribution would leave
\* less than one unit for each stakeholder but one, and never pay more than is
\* there ("up to stakeholders.len() - 1 stroops less than balance").
DustBound ==
  stakeholders # <<>> =>
    \A t \in Tokens :
      balance[t] - Distributed(stakeholders, balance[t]) \in 0 .. Len(stakeholders) - 1

\* For how long the pending list has stood, up to the whole delay.
NoticeGiven ==
  IF pendingStakeholders = Unset THEN 0
  ELSE IF now >= pendingStakeholders.effective_at THEN ADDRESS_TIMELOCK_SECONDS
  ELSE now + ADDRESS_TIMELOCK_SECONDS - pendingStakeholders.effective_at

Split == INSTANCE TimelockedRegister WITH
  Nothing   <- Unset,
  Delay     <- ADDRESS_TIMELOCK_SECONDS,
  inForce   <- stakeholders,
  announced <- IF pendingStakeholders = Unset THEN Unset ELSE pendingStakeholders.stakeholders,
  age       <- NoticeGiven

\* The revenue split is a timelocked register: "the revenue split cannot be
\* rewritten instantly" (#689), by any sequence of proposals, repeated proposals
\* and cancellations.
SplitIsTimelocked == Split!Spec
===============================================================================
