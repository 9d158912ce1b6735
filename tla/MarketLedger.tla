----------------------------- MODULE MarketLedger -----------------------------
(***************************************************************************)
(* The money side of the Vatix market contract (contracts/market):         *)
(* deposits and withdrawals, positions, their transfer and merge,          *)
(* settlement by user, batch and page, and the reconciliation of positions *)
(* with outcome tokens.  All markets share one collateral token and one    *)
(* contract balance (ADR-002).                                             *)
(*                                                                         *)
(* One action per call; a call is atomic and one that fails is not a step. *)
(* What the entrypoints of market/src/lib.rs do around these functions is  *)
(* external: lib.rs at this commit does not hold them.                     *)
(***************************************************************************)
EXTENDS Integers, Sequences, FiniteSets, Functions

CONSTANTS
  Users, Markets,
  Unset,                        \* no result, no deposit time
  Funds,                        \* collateral tokens of each user at the start
  AmountInputs,                 \* amounts of deposits and withdrawals
  DeltaInputs,                  \* share deltas of a trade, slices of a transfer
  PriceInputs,                  \* market prices in basis points
  FeeInputs,                    \* withdrawal fee rates in basis points
  ResultInputs,                 \* results a market may be resolved with
  ModeInputs,                   \* arguments of set_emergency_mode
  AdminCalls,                   \* which of the calls without arguments are made
  RequestIds,                   \* request ids of transfers and merges
  RepairIds,                    \* correlation ids of reconciliations
  TokenMoves,                   \* TRUE: outcome tokens may change hands
  OneName,                      \* TRUE: a transfer or merge may name one address twice
  BASIS_POINTS, MAX_FEE_WAIVERS, MAX_BATCH_SETTLE_SIZE, WITHDRAW_COOLDOWN_SECONDS,
  EndTime,                      \* end_time of every market
  MaxShares,                    \* bound: shares of one side a trade may reach
  MaxCollateral,                \* bound: CollateralBalance a deposit may reach
  MaxTime                       \* bound: the clock stops here

VARIABLES
  now,          \* env.ledger().timestamp()
  market,       \* status, result and closed_to_deposits of each market
  position,     \* StorageKey::Position(market, user)
  collateral,   \* StorageKey::CollateralBalance(user)
  totalLocked,  \* StorageKey::TotalLockedCollateral(user)
  lastDeposit,  \* time of the latest deposit of each user in each market
  participants, \* the list of participants of each market
  requests,     \* consumed <<owner, request_id>>
  mode,         \* emergency mode
  feeRate,      \* withdrawal fee rate
  waivers,      \* the fee waiver list (a Vec without repetition)
  treasurySet,  \* whether a treasury is registered
  tokenSet,     \* whether an outcome-token contract is registered
  tokens,       \* the outcome-token contract: balances by market and user
  repairs,      \* correlation ids of applied reconciliations
  wallet,       \* the collateral token: what each user holds
  held,         \* and what this contract holds
  retained,     \* history: fees kept here for want of a treasury
  paid,         \* history: what settlement paid, by market and user
  claims        \* history: what all positions could redeem at resolution

configVars == <<mode, feeRate, waivers, treasurySet>>
tokenVars == <<tokenSet, tokens, repairs>>
userVars == <<collateral, totalLocked, lastDeposit>>
moneyVars == <<wallet, held>>
vars == <<now, market, position, userVars, participants, requests, configVars,
          tokenVars, moneyVars, retained, paid, claims>>

Modes == {"Normal", "TradingHalted", "SettleOnly", "GlobalFreeze"}
Results == BOOLEAN \cup {Unset}

Market == [status : {"Active", "Resolved", "Canceled"}, result : Results,
           closed_to_deposits : BOOLEAN]

\* A position that storage does not hold reads as the empty one (new_empty).
Position == [stored : BOOLEAN, yes_shares : Nat, no_shares : Nat,
             locked_collateral : Nat, total_deposited : Nat, is_settled : BOOLEAN]

EmptyPosition == [stored |-> FALSE, yes_shares |-> 0, no_shares |-> 0,
                  locked_collateral |-> 0, total_deposited |-> 0, is_settled |-> FALSE]

Balance == [yes : Int, no : Int]
NoTokens == [yes |-> 0, no |-> 0]

ASSUME ConstantsAssumption ==
  /\ Funds \in Nat /\ AmountInputs \subseteq Int /\ DeltaInputs \subseteq Int
  /\ BASIS_POINTS \in Nat \ {0} /\ PriceInputs \subseteq Int /\ FeeInputs \subseteq Nat
  /\ ResultInputs \subseteq Results /\ ModeInputs \subseteq Modes
  /\ TokenMoves \in BOOLEAN /\ OneName \in BOOLEAN
  /\ MAX_FEE_WAIVERS \in Nat /\ MAX_BATCH_SETTLE_SIZE \in Nat
  /\ WITHDRAW_COOLDOWN_SECONDS \in Nat /\ EndTime \in Nat
  /\ MaxShares \in Nat /\ MaxCollateral \in Nat /\ MaxTime \in Nat
  /\ IsFiniteSet(Users) /\ IsFiniteSet(Markets)
  /\ Unset \notin Int /\ Unset \notin BOOLEAN

TypeOK ==
  /\ now \in Nat
  /\ market \in [Markets -> Market]
  /\ position \in [Markets -> [Users -> Position]]
  /\ collateral \in [Users -> Int] /\ totalLocked \in [Users -> Int]
  /\ lastDeposit \in [Markets -> [Users -> Nat \cup {Unset}]]
  /\ participants \in [Markets -> Seq(Users)]
  /\ requests \subseteq Users \X RequestIds
  /\ mode \in Modes /\ feeRate \in Nat /\ waivers \subseteq Users
  /\ treasurySet \in BOOLEAN /\ tokenSet \in BOOLEAN
  /\ tokens \in [Markets -> [Users -> Balance]] /\ repairs \subseteq RepairIds
  /\ wallet \in [Users -> Int] /\ held \in Int /\ retained \in Int
  /\ paid \in [Markets -> [Users -> Int]] /\ claims \in [Markets -> Int]

Init ==
  /\ now = 0
  /\ market = [m \in Markets |-> [status |-> "Active", result |-> Unset,
                                  closed_to_deposits |-> FALSE]]
  /\ position = [m \in Markets |-> [u \in Users |-> EmptyPosition]]
  /\ collateral = [u \in Users |-> 0] /\ totalLocked = [u \in Users |-> 0]
  /\ lastDeposit = [m \in Markets |-> [u \in Users |-> Unset]]
  /\ participants = [m \in Markets |-> <<>>]
  /\ requests = {}
  /\ mode = "Normal" /\ feeRate = 0 /\ waivers = {} /\ treasurySet = FALSE
  /\ tokenSet = FALSE /\ repairs = {}
  /\ tokens = [m \in Markets |-> [u \in Users |-> NoTokens]]
  /\ wallet = [u \in Users |-> Funds] /\ held = 0 /\ retained = 0
  /\ paid = [m \in Markets |-> [u \in Users |-> 0]]
  /\ claims = [m \in Markets |-> 0]

-------------------------------------------------------------------------------
\* Guards

Active(m) == market[m].status = "Active"
Resolved(m) == market[m].status = "Resolved"

\* Deposits and trades need Normal; withdrawals and settlement only that the
\* contract is not frozen.
ModeAllowsTrading == mode = "Normal"
ModeAllowsExit == mode \in {"Normal", "TradingHalted", "SettleOnly"}

ValidMarketPrice(price) == price \in 0 .. BASIS_POINTS

\* add_market_participant appends a user that is not on the list yet.
WithParticipant(m, u) ==
  IF \E i \in DOMAIN participants[m] : participants[m][i] = u THEN participants
  ELSE [participants EXCEPT ![m] = Append(@, u)]

-------------------------------------------------------------------------------
\* deposit_collateral

Deposit(u, m, amount) ==
  /\ ModeAllowsTrading
  /\ amount > 0
  /\ Active(m) /\ ~market[m].closed_to_deposits /\ now < EndTime
  /\ amount <= wallet[u]
  /\ collateral[u] + amount <= MaxCollateral
  /\ collateral' = [collateral EXCEPT ![u] = @ + amount]
  /\ position' = [position EXCEPT ![m][u].total_deposited = @ + amount,
                                  ![m][u].stored = TRUE]
  /\ participants' = WithParticipant(m, u)
  /\ lastDeposit' = [lastDeposit EXCEPT ![m][u] = now]
  /\ wallet' = [wallet EXCEPT ![u] = @ - amount]
  /\ held' = held + amount
  /\ UNCHANGED <<now, market, totalLocked, requests, configVars, tokenVars,
                 retained, paid, claims>>

-------------------------------------------------------------------------------
\* withdraw_unused_collateral.  The fee is on top of the amount.

CooledDown(m, u) ==
  lastDeposit[m][u] # Unset => now - lastDeposit[m][u] >= WITHDRAW_COOLDOWN_SECONDS

WithdrawalFee(u, amount) ==
  IF u \in waivers THEN 0 ELSE (amount * feeRate) \div BASIS_POINTS

Available(m, u) == position[m][u].total_deposited - position[m][u].locked_collateral

\* Fault: the fee is not asked for.
AffordableWithoutFee(m, u, amount, fee) == amount <= Available(m, u)

Affordable(m, u, amount, fee) == amount + fee <= Available(m, u)

\* Fault: the fee is sent off but the position pays for the amount alone.
DebitAmountOnly(m, u, amount, fee) ==
  /\ position' = [position EXCEPT ![m][u].total_deposited = @ - amount]
  /\ collateral' = [collateral EXCEPT ![u] = @ - amount]

DebitPosition(m, u, amount, fee) ==
  /\ position' = [position EXCEPT ![m][u].total_deposited = @ - (amount + fee)]
  /\ collateral' = [collateral EXCEPT ![u] = @ - (amount + fee)]

\* The fee leaves for the treasury, or stays for want of one.
RouteFee(fee, amount) ==
  IF treasurySet THEN /\ held' = held - amount - fee
                      /\ UNCHANGED retained
  ELSE /\ held' = held - amount
       /\ retained' = retained + fee

Withdraw(u, m, amount) ==
  LET fee == WithdrawalFee(u, amount) IN
  /\ ModeAllowsExit
  /\ amount > 0
  /\ Active(m)
  /\ CooledDown(m, u)
  /\ position[m][u].total_deposited # 0
  /\ feeRate <= BASIS_POINTS
  /\ Affordable(m, u, amount, fee)
  /\ DebitPosition(m, u, amount, fee)
  /\ RouteFee(fee, amount)
  /\ held' >= 0                         \* the token refuses an overdraft
  /\ wallet' = [wallet EXCEPT ![u] = @ + amount]
  /\ UNCHANGED <<now, market, totalLocked, lastDeposit, participants, requests,
                 configVars, tokenVars, paid, claims>>

-------------------------------------------------------------------------------
\* Parity of positions and outcome tokens (reconciliation.rs).  A settled
\* position counts as matched: its shares stay on record, its tokens are burned.

SharesOf(p) == [yes |-> p.yes_shares, no |-> p.no_shares]

\* Fault: a settled position is compared like any other.
MatchedBySharesAlone(m, u) == tokenSet => tokens[m][u] = SharesOf(position[m][u])

IsMatched(m, u) ==
  tokenSet => \/ position[m][u].is_settled
              \/ tokens[m][u] = SharesOf(position[m][u])

\* reconcile_position_tokens: mint or burn until the tokens are the shares.
Reconcile(m, u, id) ==
  /\ ~IsMatched(m, u)
  /\ id \notin repairs
  /\ repairs' = repairs \cup {id}
  /\ tokens' = [tokens EXCEPT ![m][u] = SharesOf(position[m][u])]
  /\ UNCHANGED <<now, market, position, userVars, participants, requests, configVars,
                 tokenSet, moneyVars, retained, paid, claims>>

\* Outcome tokens change hands without the market contract, which is how the two
\* ledgers come apart.
MoveToken(m, from, to) ==
  /\ TokenMoves /\ tokenSet /\ Active(m) /\ from # to
  /\ tokens[m][from].yes > 0
  /\ tokens' = [tokens EXCEPT ![m][from].yes = @ - 1, ![m][to].yes = @ + 1]
  /\ UNCHANGED <<now, market, position, userVars, participants, requests, configVars,
                 tokenSet, repairs, moneyVars, retained, paid, claims>>

-------------------------------------------------------------------------------
\* Positions

\* calculate_locked_collateral
LockedCollateral(yes, no, price) ==
  IF yes > no THEN ((yes - no) * price) \div BASIS_POINTS
  ELSE ((no - yes) * (BASIS_POINTS - price)) \div BASIS_POINTS

WithShares(p, yes, no, price) ==
  [p EXCEPT !.stored = TRUE, !.yes_shares = yes, !.no_shares = no,
            !.locked_collateral = LockedCollateral(yes, no, price)]

\* check_protocol_collateral: the lock of one market beside those elsewhere.
CoversLock(u, lock, elsewhere) == lock + elsewhere <= collateral[u]

\* update_position.  Only a growing lock is checked; outcome tokens follow the
\* shares, which is what the parity guard has just compared them with.
Trade(u, m, yes_delta, no_delta, price) ==
  LET p == position[m][u]
      yes == p.yes_shares + yes_delta
      no == p.no_shares + no_delta
      lock == LockedCollateral(yes, no, price)
  IN
  /\ ModeAllowsTrading
  /\ Active(m) /\ now < EndTime
  /\ ValidMarketPrice(price)
  /\ IsMatched(m, u)
  /\ yes \in 0 .. MaxShares /\ no \in 0 .. MaxShares
  /\ lock > p.locked_collateral =>
       CoversLock(u, lock, totalLocked[u] - p.locked_collateral)
  /\ position' = [position EXCEPT ![m][u] = WithShares(p, yes, no, price)]
  /\ totalLocked' = [totalLocked EXCEPT ![u] = @ - p.locked_collateral + lock]
  /\ participants' = WithParticipant(m, u)
  /\ tokens' = IF tokenSet THEN [tokens EXCEPT ![m][u] = [yes |-> yes, no |-> no]]
               ELSE tokens
  /\ UNCHANGED <<now, market, collateral, lastDeposit, requests, configVars,
                 tokenSet, repairs, moneyVars, retained, paid, claims>>

\* consume_request_id.  The caller is the owner or acts for the owner; nothing
\* else of the caller is looked at.
ConsumeRequest(owner, request) ==
  /\ <<owner, request>> \notin requests
  /\ requests' = requests \cup {<<owner, request>>}

\* validate_position_change, for shares that leave a position.
Holds(p, yes, no) == yes <= p.yes_shares /\ no <= p.no_shares

\* Fault: only the source is asked whether it was settled.
SourceOpen(m, from, to) == position[m][from].stored /\ ~position[m][from].is_settled

\* The source exists, and neither side is settled.
Transferable(m, from, to) ==
  /\ position[m][from].stored
  /\ ~position[m][from].is_settled
  /\ ~position[m][to].is_settled

\* transfer_position.  Both positions are read before either is written, the
\* destination last, and totalLocked is not touched.
Transfer(m, from, to, yes, no, price, request) ==
  LET source == position[m][from]
      dest == position[m][to]
  IN
  /\ from # to \/ OneName
  /\ ValidMarketPrice(price)
  /\ ConsumeRequest(from, request)
  /\ yes >= 0 /\ no >= 0
  /\ Transferable(m, from, to)
  /\ Holds(source, yes, no)
  /\ position' = [position EXCEPT
       ![m][from] = WithShares(source, source.yes_shares - yes, source.no_shares - no, price),
       ![m][to] = WithShares(dest, dest.yes_shares + yes, dest.no_shares + no, price)]
  /\ UNCHANGED <<now, market, userVars, participants, configVars, tokenVars,
                 moneyVars, retained, paid, claims>>

\* The merged position, and what is left of the other.
Merged(p, q, price) ==
  [WithShares(p, p.yes_shares + q.yes_shares, p.no_shares + q.no_shares, price)
     EXCEPT !.total_deposited = @ + q.total_deposited]

\* Fault: the other position keeps its deposit.
EmptiedOfShares(q) ==
  [q EXCEPT !.yes_shares = 0, !.no_shares = 0, !.locked_collateral = 0]

Emptied(q) ==
  [q EXCEPT !.yes_shares = 0, !.no_shares = 0, !.locked_collateral = 0,
            !.total_deposited = 0]

\* merge_positions: the other position is written last.
Merge(m, owner, primary, other, price, request) ==
  LET p == position[m][primary]
      q == position[m][other]
  IN
  /\ primary # other \/ OneName
  /\ ValidMarketPrice(price)
  /\ ConsumeRequest(owner, request)
  /\ p.stored /\ q.stored
  /\ ~p.is_settled /\ ~q.is_settled
  /\ position' = [position EXCEPT ![m][primary] = Merged(p, q, price),
                                  ![m][other] = Emptied(q)]
  /\ UNCHANGED <<now, market, userVars, participants, configVars, tokenVars,
                 moneyVars, retained, paid, claims>>

-------------------------------------------------------------------------------
\* Settlement

\* calculate_payout, and the refund of a market without a winner.
Payout(p, result) ==
  IF result = Unset THEN p.total_deposited
  ELSE IF result THEN p.yes_shares ELSE p.no_shares

\* Fault: a settled position is settled again.
PayableAgain(m, u) == position[m][u].stored /\ IsMatched(m, u)

\* What compute_settlement requires of a position of a resolved market.
Payable(m, u) ==
  /\ position[m][u].stored
  /\ ~position[m][u].is_settled
  /\ IsMatched(m, u)

\* burn_settled_outcome_tokens: as many tokens as there are shares, of both sides.
AfterBurn(m, u) == [yes |-> tokens[m][u].yes - position[m][u].yes_shares,
                    no |-> tokens[m][u].no - position[m][u].no_shares]

\* Settle every payable position of users: mark it, burn its tokens, pay it.
\* A position is marked before the next user of a list is looked at, so a
\* user named twice is paid once and the order of the list does not matter.
SettleAll(m, users) ==
  LET due == {u \in users : Payable(m, u)}
      payout == [u \in Users |-> IF u \in due THEN Payout(position[m][u], market[m].result)
                                 ELSE 0]
  IN
  /\ due # {}
  /\ position' = [position EXCEPT ![m] =
       [u \in Users |-> IF u \in due THEN [position[m][u] EXCEPT !.is_settled = TRUE]
                        ELSE position[m][u]]]
  /\ tokens' = [tokens EXCEPT ![m] =
       [u \in Users |-> IF u \in due /\ tokenSet THEN AfterBurn(m, u) ELSE tokens[m][u]]]
  /\ paid' = [paid EXCEPT ![m] = [u \in Users |-> paid[m][u] + payout[u]]]
  /\ wallet' = [u \in Users |-> wallet[u] + payout[u]]
  /\ held' = held - SumFunction(payout)
  /\ held' >= 0                         \* one refused transfer undoes the call
  /\ UNCHANGED <<now, market, userVars, participants, requests, configVars,
                 tokenSet, repairs, retained, claims>>

\* settle_position: one user, who must be payable.
Settle(u, m) ==
  /\ ModeAllowsExit
  /\ Resolved(m)
  /\ SettleAll(m, {u})

\* batch_settle_positions: the caller names the users; others are passed over.
BatchSettle(m, users) ==
  /\ ModeAllowsExit
  /\ Len(users) \in 1 .. MAX_BATCH_SETTLE_SIZE
  /\ Resolved(m)
  /\ SettleAll(m, {users[i] : i \in DOMAIN users})

\* Participants start + 1 to start + limit.
OnPage(m, start, limit) ==
  {participants[m][i] : i \in DOMAIN participants[m] \cap (start + 1 .. start + limit)}

\* settle_positions_page
SettlePage(m, start, limit) ==
  /\ ModeAllowsExit
  /\ Resolved(m)
  /\ SettleAll(m, OnPage(m, start, limit))

-------------------------------------------------------------------------------
\* The life of a market, and the admin's calls.

\* resolve_market records the result; claims remembers what it is worth.
Resolve(m, result) ==
  /\ Active(m)
  /\ market' = [market EXCEPT ![m].status = "Resolved", ![m].result = result]
  /\ claims' = [claims EXCEPT ![m] =
       SumFunction([u \in Users |-> Payout(position[m][u], result)])]
  /\ UNCHANGED <<now, position, userVars, participants, requests, configVars,
                 tokenVars, moneyVars, retained, paid>>

SetMarket(m, record) ==
  /\ market' = [market EXCEPT ![m] = record]
  /\ UNCHANGED <<now, position, userVars, participants, requests, configVars,
                 tokenVars, moneyVars, retained, paid, claims>>

Cancel(m) == Active(m) /\ SetMarket(m, [market[m] EXCEPT !.status = "Canceled"])

Reopen(m) ==
  /\ market[m].status = "Canceled"
  /\ SetMarket(m, [market[m] EXCEPT !.status = "Active"])

CloseToDeposits(m) ==
  /\ Active(m) /\ ~market[m].closed_to_deposits
  /\ SetMarket(m, [market[m] EXCEPT !.closed_to_deposits = TRUE])

\* withdraw_canceled_collateral zeroes the two amounts of the position; no
\* document says that it debits CollateralBalance.
RefundCanceled(u, m) ==
  LET refund == position[m][u].total_deposited IN
  /\ market[m].status = "Canceled"
  /\ refund > 0
  /\ position' = [position EXCEPT ![m][u].total_deposited = 0,
                                  ![m][u].locked_collateral = 0]
  /\ held' = held - refund
  /\ held' >= 0
  /\ wallet' = [wallet EXCEPT ![u] = @ + refund]
  /\ UNCHANGED <<now, market, userVars, participants, requests, configVars,
                 tokenVars, retained, paid, claims>>

SetConfig(new_mode, rate, list, registered) ==
  /\ mode' = new_mode /\ feeRate' = rate /\ waivers' = list
  /\ treasurySet' = registered
  /\ UNCHANGED <<now, market, position, userVars, participants, requests,
                 tokenVars, moneyVars, retained, paid, claims>>

SetEmergencyMode(new_mode) == SetConfig(new_mode, feeRate, waivers, treasurySet)
SetFeeRate(rate) == SetConfig(mode, rate, waivers, treasurySet)
SetTreasury == ~treasurySet /\ SetConfig(mode, feeRate, waivers, TRUE)

\* add_fee_waiver keeps the list without repetition and below its cap.
AddFeeWaiver(u) ==
  /\ u \notin waivers
  /\ Cardinality(waivers) < MAX_FEE_WAIVERS
  /\ SetConfig(mode, feeRate, waivers \cup {u}, treasurySet)

RemoveFeeWaiver(u) ==
  /\ u \in waivers
  /\ SetConfig(mode, feeRate, waivers \ {u}, treasurySet)

\* set_outcome_token_contract: until then there is no second ledger.
SetOutcomeToken ==
  /\ ~tokenSet /\ tokenSet' = TRUE
  /\ UNCHANGED <<now, market, position, userVars, participants, requests, configVars,
                 tokens, repairs, moneyVars, retained, paid, claims>>

Tick ==
  /\ now < MaxTime /\ now' = now + 1
  /\ UNCHANGED <<market, position, userVars, participants, requests, configVars,
                 tokenVars, moneyVars, retained, paid, claims>>

-------------------------------------------------------------------------------
UserStep(u, m) ==
  \/ \E amount \in AmountInputs : Deposit(u, m, amount) \/ Withdraw(u, m, amount)
  \/ \E yes, no \in DeltaInputs, price \in PriceInputs : Trade(u, m, yes, no, price)
  \/ Settle(u, m)
  \/ RefundCanceled(u, m)

PositionStep(m) ==
  \E u, v \in Users, price \in PriceInputs, request \in RequestIds :
    \/ \E yes, no \in DeltaInputs : Transfer(m, u, v, yes, no, price, request)
    \/ \E owner \in Users : Merge(m, owner, u, v, price, request)

SettlementStep(m) ==
  \/ \E n \in 1 .. MAX_BATCH_SETTLE_SIZE :
       \E users \in [1 .. n -> Users] : BatchSettle(m, users)
  \/ \E start, limit \in 0 .. Cardinality(Users) : SettlePage(m, start, limit)

AdminStep ==
  \/ \E m \in Markets :
       \/ \E result \in ResultInputs : Resolve(m, result)
       \/ "cancel_market" \in AdminCalls /\ (Cancel(m) \/ Reopen(m))
       \/ "close_market" \in AdminCalls /\ CloseToDeposits(m)
       \/ \E u \in Users, id \in RepairIds : Reconcile(m, u, id)
  \/ \E new_mode \in ModeInputs : SetEmergencyMode(new_mode)
  \/ \E rate \in FeeInputs : SetFeeRate(rate)
  \/ \E u \in Users : AddFeeWaiver(u) \/ RemoveFeeWaiver(u)
  \/ "set_treasury" \in AdminCalls /\ SetTreasury
  \/ "set_outcome_token" \in AdminCalls /\ SetOutcomeToken

Next ==
  \/ \E m \in Markets :
       \/ \E u \in Users : UserStep(u, m)
       \/ PositionStep(m)
       \/ SettlementStep(m)
       \/ \E from, to \in Users : MoveToken(m, from, to)
  \/ AdminStep
  \/ Tick

Spec == Init /\ [][Next]_vars

-------------------------------------------------------------------------------
\* Properties

DepositsOf(m) == SumFunction([u \in Users |-> position[m][u].total_deposited])

\* What the position of u in m can still redeem.
OpenClaim(m, u) ==
  IF position[m][u].is_settled THEN 0 ELSE Payout(position[m][u], market[m].result)

\* The contract holds what the positions say was deposited and the fees it kept,
\* less what settlement paid, whatever was withdrawn with or without a fee, a
\* waiver or a treasury, merged, or refunded (withdraw.rs, "fees are never dropped").
CustodyMatchesBooks ==
  held + SumFunction([m \in Markets |-> SumFunction(paid[m])])
    = SumFunction([m \in Markets |-> DepositsOf(m)]) + retained

\* After resolution no claim is created, lost or met twice: what was paid and what
\* the unsettled positions can still redeem add up to what all positions could
\* redeem when the result was recorded, though positions may still be transferred
\* and merged, and three calls settle the same ones (settlement.rs).
ClaimsConserved ==
  \A m \in Markets : Resolved(m) =>
    SumFunction(paid[m]) + SumFunction([u \in Users |-> OpenClaim(m, u)]) = claims[m]

\* Whoever was paid holds no outcome tokens of that market any more, and no repair
\* mints them again (settlement.rs #931, reconciliation.rs #708).
SettledHoldNoTokens ==
  \A m \in Markets, u \in Users :
    position[m][u].is_settled => tokens[m][u] = NoTokens

\* A settled position is a record: no later call adds to it, takes from it or
\* settles it again (types.rs, is_settled "blocks double settlement").
SettledForGood ==
  [][\A m \in Markets, u \in Users :
       position[m][u].is_settled =>
         position'[m][u] = position[m][u] /\ paid'[m][u] = paid[m][u]]_vars
===============================================================================
