----------------------------- MODULE TreasuryEvents -----------------------------
(***************************************************************************)
(* The events of the treasury (treasury/src/events.rs) and what a reader   *)
(* of nothing else learns from them.                                       *)
(*                                                                         *)
(* A call publishes at most one event, its last step.  The calls that      *)
(* cancel a pending change publish none, and admin_transferred and         *)
(* market_contract_set do not say whether they end a pending change, so    *)
(* the reader keeps an announcement until the next one of its kind.        *)
(***************************************************************************)
EXTENDS Treasury

VARIABLE index          \* what the reader believes

eventVars == <<vars, index>>

-------------------------------------------------------------------------------
\* The events, as the emit functions publish them.

TreasuryInitialized(new_admin, market_contract) ==
  [topic |-> "treasury_initialized", admin |-> new_admin, market_contract |-> market_contract]

FeeCollected(t, fee_amount, new_token_balance, new_cumulative_fees) ==
  [topic |-> "fee_collected", token |-> t, fee_amount |-> fee_amount,
   new_token_balance |-> new_token_balance, new_cumulative_fees |-> new_cumulative_fees]

FeesWithdrawn(t, amount, remaining_token_balance) ==
  [topic |-> "fees_withdrawn", token |-> t, amount |-> amount,
   remaining_token_balance |-> remaining_token_balance]

FeesDistributed(t, distributed_amount, remaining_token_balance) ==
  [topic |-> "fees_distributed", token |-> t, amount |-> distributed_amount,
   remaining_token_balance |-> remaining_token_balance]

AdminTransferProposed(change) == [topic |-> "admin_transfer_proposed", change |-> change]

AdminTransferred(new_admin) == [topic |-> "admin_transferred", new_admin |-> new_admin]

MarketContractProposed(change) == [topic |-> "market_contract_proposed", change |-> change]

MarketContractSet(k) == [topic |-> "market_contract_set", market_contract |-> k]

MarketAdded(k) == [topic |-> "market_added", market_contract |-> k]

MarketRemoved(k) == [topic |-> "market_removed", market_contract |-> k]

StakeholdersProposed(change) == [topic |-> "stakeholders_proposed", change |-> change]

StakeholdersUpdated(list) == [topic |-> "stakeholders_updated", stakeholders |-> list]

TreasuryPaused == [topic |-> "treasury_paused"]

TreasuryUnpaused == [topic |-> "treasury_unpaused"]

TreasuryEmergencyModeChanged(new_mode) ==
  [topic |-> "treasury_emergency_mode_changed", new_mode |-> new_mode]

-------------------------------------------------------------------------------
\* The reader.

Silence ==
  [admin |-> Unset, markets |-> {}, stakeholders |-> <<>>, paused |-> FALSE,
   mode |-> "Normal",
   balance |-> [t \in Tokens |-> 0], cumulative |-> [t \in Tokens |-> 0],
   announcedAdmin |-> Unset, announcedMarket |-> Unset, announcedSplit |-> Unset,
   gaps |-> {}]                 \* tokens whose events did not add up

\* A new balance is taken as it is; one the amount does not explain is noted.
WithBalance(t, new, expected) ==
  [index EXCEPT !.balance[t] = new, !.gaps = IF new = expected THEN @ ELSE @ \cup {t}]

Heard(e) ==
  CASE e.topic = "treasury_initialized" ->
         [index EXCEPT !.admin = e.admin, !.markets = {e.market_contract}]
    [] e.topic = "fee_collected" ->
         [WithBalance(e.token, e.new_token_balance,
                      SaturatingAdd(index.balance[e.token], e.fee_amount))
            EXCEPT !.cumulative[e.token] = e.new_cumulative_fees]
    [] e.topic \in {"fees_withdrawn", "fees_distributed"} ->
         WithBalance(e.token, e.remaining_token_balance, index.balance[e.token] - e.amount)
    [] e.topic = "admin_transfer_proposed" -> [index EXCEPT !.announcedAdmin = e.change]
    [] e.topic = "admin_transferred" -> [index EXCEPT !.admin = e.new_admin]
    [] e.topic = "market_contract_proposed" -> [index EXCEPT !.announcedMarket = e.change]
    [] e.topic \in {"market_contract_set", "market_added"} ->
         [index EXCEPT !.markets = @ \cup {e.market_contract}]
    [] e.topic = "market_removed" -> [index EXCEPT !.markets = @ \ {e.market_contract}]
    [] e.topic = "stakeholders_proposed" -> [index EXCEPT !.announcedSplit = e.change]
    [] e.topic = "stakeholders_updated" -> [index EXCEPT !.stakeholders = e.stakeholders]
    [] e.topic = "treasury_paused" -> [index EXCEPT !.paused = TRUE]
    [] e.topic = "treasury_unpaused" -> [index EXCEPT !.paused = FALSE]
    [] e.topic = "treasury_emergency_mode_changed" -> [index EXCEPT !.mode = e.new_mode]

Publish(e) == index' = Heard(e)

-------------------------------------------------------------------------------
\* Every call with its event.

\* Fault: what was there before the distribution is announced as what remains.
EventBeforeDistribution(t) ==
  FeesDistributed(t, Distributed(stakeholders, balance[t]), balance[t])

DistributionEvent(t) ==
  FeesDistributed(t, Distributed(stakeholders, balance[t]), balance'[t])

MoneyEvent ==
  \E t \in Tokens :
    \/ \E k \in MarketContracts, fee \in FeeInputs :
         RouteFee(k, t, fee) /\ Publish(FeeCollected(t, fee, balance'[t], cumulative'[t]))
    \/ \E amount \in SlashInputs : ReceiveSlashShare(t, amount) /\ UNCHANGED index
    \/ \E amount \in AmountInputs :
         WithdrawFees(t, amount) /\ Publish(FeesWithdrawn(t, amount, balance'[t]))
    \/ DistributeFees(t) /\ Publish(DistributionEvent(t))

AdminEvent ==
  \/ \E a \in AdminInputs, k \in MarketInputs :
       Initialize(a, k) /\ Publish(TreasuryInitialized(a, k))
  \/ \E a \in AdminInputs :
       \/ ProposeAdmin(a) /\ Publish(AdminTransferProposed(pendingAdmin'))
       \/ TransferAdmin(a) /\ Publish(AdminTransferred(a))
  \/ ExecuteAdmin /\ Publish(AdminTransferred(pendingAdmin.new_address))
  \/ CancelAdmin /\ UNCHANGED index

\* add_market and remove_market announce a change only, set_market_contract any call.
MarketEvent ==
  \/ \E k \in MarketInputs :
       \/ /\ AddMarket(k)
          /\ IF k \in markets THEN UNCHANGED index ELSE Publish(MarketAdded(k))
       \/ SetMarketContract(k) /\ Publish(MarketContractSet(k))
       \/ /\ RemoveMarket(k)
          /\ IF k \in markets THEN Publish(MarketRemoved(k)) ELSE UNCHANGED index
       \/ ProposeMarketContract(k) /\ Publish(MarketContractProposed(pendingMarket'))
  \/ ExecuteMarketContract /\ Publish(MarketContractSet(pendingMarket.new_address))
  \/ CancelMarketContract /\ UNCHANGED index

ShareEvent ==
  \/ \E list \in ListInputs :
       ProposeStakeholders(list) /\ Publish(StakeholdersProposed(pendingStakeholders'))
  \/ ExecuteStakeholders /\ Publish(StakeholdersUpdated(stakeholders'))
  \/ CancelStakeholders /\ UNCHANGED index

HaltEvent ==
  \/ TRUE \in PauseInputs /\ Pause /\ Publish(TreasuryPaused)
  \/ FALSE \in PauseInputs /\ Unpause /\ Publish(TreasuryUnpaused)
  \/ \E new_mode \in ModeInputs :
       SetEmergencyMode(new_mode) /\ Publish(TreasuryEmergencyModeChanged(new_mode))

EventsInit == Init /\ index = Silence

EventsNext ==
  \/ Tick /\ UNCHANGED index
  \/ MoneyEvent \/ AdminEvent \/ MarketEvent \/ ShareEvent \/ HaltEvent

EventsSpec == EventsInit /\ [][EventsNext]_eventVars

-------------------------------------------------------------------------------
\* Properties.

\* A reader of the events knows the books, who governs and what is in force; every
\* new balance is explained by the amount in its event; and no change is pending that
\* was not announced with its list or address and its time (#689, "so an off-chain
\* indexer can reconstruct the proposed split without a separate on-chain read").
IndexFollows ==
  /\ <<index.admin, index.markets, index.stakeholders, index.paused, index.mode>>
       = <<admin, markets, stakeholders, paused, mode>>
  /\ index.balance = balance /\ index.cumulative = cumulative /\ index.gaps = {}
  /\ pendingAdmin # Unset => index.announcedAdmin = pendingAdmin
  /\ pendingMarket # Unset => index.announcedMarket = pendingMarket
  /\ pendingStakeholders # Unset => index.announcedSplit = pendingStakeholders
===============================================================================
