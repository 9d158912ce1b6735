------------------------------ MODULE MarketEvents ------------------------------
(***************************************************************************)
(* The events of the market ledger (events.rs), and what an indexer learns *)
(* from them (docs/events-reference.md, "Notes for indexers").             *)
(*                                                                         *)
(* Every action of MarketLedger is taken together with the events it       *)
(* publishes, in order.  The events of a call that fails are discarded by  *)
(* the host and are no part of the stream.  Of an event only what the      *)
(* books of the indexer use is kept: no schema version, no admin and no    *)
(* timestamp, and no event that only comments on another one.              *)
(***************************************************************************)
EXTENDS MarketLedger, SequencesExt

VARIABLES
  index,    \* what the indexer believes
  silent    \* history: positions whose deposit a call changed without an event

eventVars == <<vars, index, silent>>

-------------------------------------------------------------------------------
\* The events, as the emit functions publish them.

CollateralDeposited(user, m, amount, new_total) ==
  [topic |-> "collateral_deposited", user |-> user, market_id |-> m,
   amount |-> amount, new_total |-> new_total]

\* Fault: what leaves the position is announced instead of what reaches the user.
CollateralWithdrawnGross(user, m, amount, new_total) ==
  [topic |-> "collateral_withdrawn", user |-> user, market_id |-> m,
   amount |-> position[m][user].total_deposited - new_total, new_total |-> new_total]

CollateralWithdrawn(user, m, amount, new_total) ==
  [topic |-> "collateral_withdrawn", user |-> user, market_id |-> m,
   amount |-> amount, new_total |-> new_total]

\* The third field is named available_after_fee; it is what was there before it.
FeeCalculated(m, user, fee_amount, available_after_fee) ==
  [topic |-> "fee_calculated", market_id |-> m, user |-> user,
   fee_amount |-> fee_amount, available_after_fee |-> available_after_fee]

FeeRetainedNoTreasury(m, user, fee_amount) ==
  [topic |-> "fee_retained_no_treasury", market_id |-> m, user |-> user,
   fee_amount |-> fee_amount]

PositionUpdated(m, user, yes_shares, no_shares, locked_collateral) ==
  [topic |-> "position_updated", market_id |-> m, user |-> user,
   yes_shares |-> yes_shares, no_shares |-> no_shares,
   locked_collateral |-> locked_collateral]

PositionSettled(m, user, payout) ==
  [topic |-> "position_settled", market_id |-> m, user |-> user, payout |-> payout]

\* The two lists of the event, users and payouts, as one function.
PositionsBatchSettled(m, payouts) ==
  [topic |-> "positions_batch_settled", market_id |-> m, payouts |-> payouts]

MarketResolved(m, outcome) ==
  [topic |-> "market_resolved", market_id |-> m, outcome |-> outcome]

MarketCanceled(m) == [topic |-> "market_canceled", market_id |-> m]

MarketReopened(m) == [topic |-> "market_reopened", market_id |-> m]

MarketClosedToDeposits(m) == [topic |-> "market_closed_to_deposits", market_id |-> m]

EmergencyModeChanged(new_mode) ==
  [topic |-> "emergency_mode_changed", new_mode |-> new_mode]

FeeRateChangeExecuted(new_rate_bps) ==
  [topic |-> "fee_rate_change_executed", new_rate_bps |-> new_rate_bps]

FeeWaiverAdded(account) == [topic |-> "fee_waiver_added", account |-> account]

FeeWaiverRemoved(account) == [topic |-> "fee_waiver_removed", account |-> account]

TreasurySet == [topic |-> "treasury_set"]

OutcomeTokenSet == [topic |-> "outcome_token_set"]

-------------------------------------------------------------------------------
\* The indexer.

Silence ==
  [total |-> [m \in Markets |-> [u \in Users |-> 0]],
   shares |-> [m \in Markets |-> [u \in Users |-> NoTokens]],
   locked |-> [m \in Markets |-> [u \in Users |-> 0]],
   settlements |-> [m \in Markets |-> [u \in Users |-> <<>>]],
   status |-> [m \in Markets |-> "Active"],
   result |-> [m \in Markets |-> Unset],
   closed |-> {},
   gaps |-> {},                 \* positions whose events did not add up
   fee |-> 0,                   \* fee_calculated of this call
   retained |-> 0, mode |-> "Normal", feeRate |-> 0, waivers |-> {},
   treasurySet |-> FALSE, tokenSet |-> FALSE]

\* What the indexer makes of a new total: it is taken as it is, and one that the
\* amounts do not explain is noted.
WithTotal(i, e, expected) ==
  [i EXCEPT !.total[e.market_id][e.user] = e.new_total,
            !.gaps = IF e.new_total = expected THEN @ ELSE @ \cup {<<e.market_id, e.user>>},
            !.fee = 0]

Heard(i, e) ==
  CASE e.topic = "collateral_deposited" ->
         WithTotal(i, e, i.total[e.market_id][e.user] + e.amount)
    [] e.topic = "collateral_withdrawn" ->
         WithTotal(i, e, i.total[e.market_id][e.user] - e.amount - i.fee)
    [] e.topic = "fee_calculated" -> [i EXCEPT !.fee = e.fee_amount]
    [] e.topic = "fee_retained_no_treasury" -> [i EXCEPT !.retained = @ + e.fee_amount]
    [] e.topic = "position_updated" ->
         [i EXCEPT !.shares[e.market_id][e.user] = [yes |-> e.yes_shares, no |-> e.no_shares],
                   !.locked[e.market_id][e.user] = e.locked_collateral]
    [] e.topic = "position_settled" ->
         [i EXCEPT !.settlements[e.market_id][e.user] = Append(@, e.payout)]
    [] e.topic = "positions_batch_settled" ->
         [i EXCEPT !.settlements[e.market_id] =
            [u \in Users |-> IF u \in DOMAIN e.payouts THEN Append(@[u], e.payouts[u]) ELSE @[u]]]
    [] e.topic = "market_resolved" ->
         [i EXCEPT !.status[e.market_id] = "Resolved", !.result[e.market_id] = e.outcome]
    [] e.topic = "market_canceled" -> [i EXCEPT !.status[e.market_id] = "Canceled"]
    [] e.topic = "market_reopened" -> [i EXCEPT !.status[e.market_id] = "Active"]
    [] e.topic = "market_closed_to_deposits" -> [i EXCEPT !.closed = @ \cup {e.market_id}]
    [] e.topic = "emergency_mode_changed" -> [i EXCEPT !.mode = e.new_mode]
    [] e.topic = "fee_rate_change_executed" -> [i EXCEPT !.feeRate = e.new_rate_bps]
    [] e.topic = "fee_waiver_added" -> [i EXCEPT !.waivers = @ \cup {e.account}]
    [] e.topic = "fee_waiver_removed" -> [i EXCEPT !.waivers = @ \ {e.account}]
    [] e.topic = "treasury_set" -> [i EXCEPT !.treasurySet = TRUE]
    [] e.topic = "outcome_token_set" -> [i EXCEPT !.tokenSet = TRUE]

Publish(events) == index' = FoldLeft(Heard, index, events)

-------------------------------------------------------------------------------
\* Every call with its events.

\* The update of a position as storage holds it after the call.
Updated(m, u) ==
  LET p == position'[m][u]
  IN  PositionUpdated(m, u, p.yes_shares, p.no_shares, p.locked_collateral)

DepositEvents(u, m, amount) ==
  <<CollateralDeposited(u, m, amount, position'[m][u].total_deposited)>>

WithdrawEvents(u, m, amount) ==
  LET fee == WithdrawalFee(u, amount)
      feeEvents == IF fee > 0 THEN <<FeeCalculated(m, u, fee, Available(m, u))>> ELSE <<>>
      retainedEvents == IF fee > 0 /\ ~treasurySet THEN <<FeeRetainedNoTreasury(m, u, fee)>>
                        ELSE <<>>
  IN  feeEvents \o retainedEvents
        \o <<CollateralWithdrawn(u, m, amount, position'[m][u].total_deposited)>>

\* execute_settlement announces the shares as they stay on record, and no lock.
SettleEvents(u, m) ==
  LET p == position[m][u]
  IN  <<PositionUpdated(m, u, p.yes_shares, p.no_shares, 0),
        PositionSettled(m, u, Payout(p, market[m].result))>>

\* Fault: whoever is named is listed, paid before or not.
NamedOfBatch(m, users) == {u \in users : position[m][u].stored}

\* Whom this call settles.
SettledOfBatch(m, users) == {u \in users : Payable(m, u)}

\* One event for the whole list.
BatchEvents(m, users) ==
  <<PositionsBatchSettled(m, [u \in SettledOfBatch(m, users) |->
                                Payout(position[m][u], market[m].result)])>>

\* Calls whose events tell everything they did to a position.
UserEvent(u, m) ==
  \/ \E amount \in AmountInputs :
       \/ Deposit(u, m, amount) /\ Publish(DepositEvents(u, m, amount))
       \/ Withdraw(u, m, amount) /\ Publish(WithdrawEvents(u, m, amount))
  \/ \E yes, no \in DeltaInputs, price \in PriceInputs :
       Trade(u, m, yes, no, price) /\ Publish(<<Updated(m, u)>>)
  \/ Settle(u, m) /\ Publish(SettleEvents(u, m))

TransferEvent(m) ==
  \E u, v \in Users, price \in PriceInputs, request \in RequestIds, yes, no \in DeltaInputs :
    Transfer(m, u, v, yes, no, price, request) /\ Publish(<<Updated(m, u), Updated(m, v)>>)

SettlementEvent(m) ==
  \/ \E n \in 1 .. MAX_BATCH_SETTLE_SIZE :
       \E users \in [1 .. n -> Users] :
         BatchSettle(m, users) /\ Publish(BatchEvents(m, {users[i] : i \in DOMAIN users}))
  \/ \E start, limit \in 0 .. Cardinality(Users) :
       SettlePage(m, start, limit) /\ Publish(BatchEvents(m, OnPage(m, start, limit)))

\* No event tells of the deposit a merge moves, or of a refund.
SilentStep(m) ==
  /\ \/ \E u, v, owner \in Users, price \in PriceInputs, request \in RequestIds :
          Merge(m, owner, u, v, price, request) /\ Publish(<<Updated(m, u), Updated(m, v)>>)
     \/ \E u \in Users : RefundCanceled(u, m) /\ UNCHANGED index
  /\ silent' = silent \cup {<<m, u>> : u \in {v \in Users :
       position'[m][v].total_deposited # position[m][v].total_deposited}}

\* A resolution without a winner has no event that could say so.
MarketEvent(m) ==
  \/ \E result \in ResultInputs :
       /\ Resolve(m, result)
       /\ Publish(IF result = Unset THEN <<>> ELSE <<MarketResolved(m, result)>>)
  \/ /\ "cancel_market" \in AdminCalls
     /\ \/ Cancel(m) /\ Publish(<<MarketCanceled(m)>>)
        \/ Reopen(m) /\ Publish(<<MarketReopened(m)>>)
  \/ /\ "close_market" \in AdminCalls
     /\ CloseToDeposits(m) /\ Publish(<<MarketClosedToDeposits(m)>>)

ConfigEvent ==
  \/ \E new_mode \in ModeInputs :
       SetEmergencyMode(new_mode) /\ Publish(<<EmergencyModeChanged(new_mode)>>)
  \/ \E rate \in FeeInputs :
       SetFeeRate(rate) /\ Publish(<<FeeRateChangeExecuted(rate)>>)
  \/ \E u \in Users :
       \/ AddFeeWaiver(u) /\ Publish(<<FeeWaiverAdded(u)>>)
       \/ RemoveFeeWaiver(u) /\ Publish(<<FeeWaiverRemoved(u)>>)
  \/ "set_treasury" \in AdminCalls /\ SetTreasury /\ Publish(<<TreasurySet>>)
  \/ "set_outcome_token" \in AdminCalls /\ SetOutcomeToken /\ Publish(<<OutcomeTokenSet>>)

\* Steps that change nothing the indexer keeps.
UntoldStep ==
  /\ \/ \E m \in Markets, u \in Users, id \in RepairIds : Reconcile(m, u, id)
     \/ \E m \in Markets, from, to \in Users : MoveToken(m, from, to)
     \/ Tick
  /\ UNCHANGED index

EventsInit == Init /\ index = Silence /\ silent = {}

EventsNext ==
  \/ /\ \/ \E m \in Markets :
            \/ \E u \in Users : UserEvent(u, m)
            \/ TransferEvent(m) \/ SettlementEvent(m) \/ MarketEvent(m)
        \/ ConfigEvent
        \/ UntoldStep
     /\ UNCHANGED silent
  \/ \E m \in Markets : SilentStep(m)

EventsSpec == EventsInit /\ [][EventsNext]_eventVars

-------------------------------------------------------------------------------
\* Properties.

\* Whoever follows the events has the books of the contract: what positions hold and
\* lock, what settlement paid to whom, once, what fees stay here, and the state of
\* the markets and of the contract; and every new total is explained by the amounts
\* (docs/events-reference.md, "Indexer invariants").  The exceptions are deposits of
\* positions that were merged or refunded, and a resolution without a winner.
IndexFollows ==
  /\ \A m \in Markets, u \in Users :
       LET p == position[m][u] IN
       /\ <<m, u>> \notin silent => /\ index.total[m][u] = p.total_deposited
                                    /\ <<m, u>> \notin index.gaps
       /\ index.shares[m][u] = SharesOf(p)
       /\ p.is_settled \/ index.locked[m][u] = p.locked_collateral \/ <<m, u>> \in silent
       /\ index.settlements[m][u] = IF p.is_settled THEN <<paid[m][u]>> ELSE <<>>
  /\ index.retained = retained
  /\ \A m \in Markets :
       /\ \/ index.status[m] = market[m].status
          \/ Resolved(m) /\ market[m].result = Unset
       /\ index.result[m] = market[m].result
       /\ m \in index.closed <=> market[m].closed_to_deposits
  /\ <<index.mode, index.feeRate, index.waivers, index.treasurySet, index.tokenSet>>
       = <<mode, feeRate, waivers, treasurySet, tokenSet>>
===============================================================================
