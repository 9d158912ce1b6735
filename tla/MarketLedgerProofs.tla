-------------------------- MODULE MarketLedgerProofs --------------------------
(***************************************************************************)
(* Theorems about MarketLedger and its events, for any users, markets,     *)
(* prices and bounds: a settled position is a record nothing changes, its  *)
(* outcome tokens stay burned, and whoever hears the events of the market  *)
(* has its books.                                                          *)
(***************************************************************************)
EXTENDS MarketEvents, SumTheorems, SequenceTheorems, TLAPS

USE DEF configVars, tokenVars, userVars, moneyVars

-------------------------------------------------------------------------------
\* The inductive invariant.

\* The part of TypeOK the argument needs.
LedgerTyped ==
  /\ market \in [Markets -> Market]
  /\ position \in [Markets -> [Users -> Position]]
  /\ tokens \in [Markets -> [Users -> Balance]]
  /\ paid \in [Markets -> [Users -> Int]]
  /\ feeRate \in Nat

\* Positions are settled in resolved markets only, and resolved is for good, so
\* deposits, trades, withdrawals and refunds never meet a settled position.
SettledWhenResolved ==
  \A m \in Markets, u \in Users : position[m][u].is_settled => Resolved(m)

\* Without a token contract nobody holds tokens, so that registering one after a
\* settlement brings none back.
NoTokensUnregistered ==
  ~tokenSet => \A m \in Markets, u \in Users : tokens[m][u] = NoTokens

LedgerInv ==
  LedgerTyped /\ SettledWhenResolved /\ NoTokensUnregistered /\ SettledHoldNoTokens

\* What SettledForGood says of one step.
SettledKept ==
  \A m \in Markets, u \in Users :
    position[m][u].is_settled =>
      position'[m][u] = position[m][u] /\ paid'[m][u] = paid[m][u]

-------------------------------------------------------------------------------
\* A step that leaves positions, tokens and payments alone, and no market that is
\* resolved, preserves the invariant and every settled position.
LEMMA FrameStep ==
  ASSUME LedgerInv, UNCHANGED <<position, tokens, paid, feeRate>>,
         market' \in [Markets -> Market],
         \A m \in Markets : Resolved(m) => Resolved(m)',
         tokenSet => tokenSet'
  PROVE  LedgerInv' /\ SettledKept
<1> USE DEF LedgerInv
<1>1. LedgerTyped'
  BY DEF LedgerTyped
<1>2. SettledWhenResolved'
  BY DEF SettledWhenResolved
<1>3. NoTokensUnregistered'
  BY DEF NoTokensUnregistered
<1>4. SettledHoldNoTokens'
  BY DEF SettledHoldNoTokens
<1> QED
  BY <1>1, <1>2, <1>3, <1>4 DEF SettledKept

\* So does one that leaves the settled positions and their tokens alone, settles
\* none, and moves tokens only if there are any.
LEMMA OpenStep ==
  ASSUME LedgerInv, UNCHANGED <<market, paid, feeRate, tokenSet>>,
         position' \in [Markets -> [Users -> Position]],
         tokens' \in [Markets -> [Users -> Balance]],
         ~tokenSet => tokens' = tokens,
         \A m \in Markets, u \in Users :
           IF position[m][u].is_settled
           THEN position'[m][u] = position[m][u] /\ tokens'[m][u] = tokens[m][u]
           ELSE ~position'[m][u].is_settled
  PROVE  LedgerInv' /\ SettledKept
<1> USE DEF LedgerInv
<1>1. LedgerTyped'
  BY DEF LedgerTyped
<1>2. SettledWhenResolved'
  BY DEF SettledWhenResolved, Resolved
<1>3. NoTokensUnregistered'
  BY DEF NoTokensUnregistered
<1>4. SettledHoldNoTokens'
  BY DEF SettledHoldNoTokens
<1>5. SettledKept
  BY DEF SettledKept
<1> QED
  BY <1>1, <1>2, <1>3, <1>4, <1>5

\* In particular one that rewrites a position that is not settled.
LEMMA WriteOpenPosition ==
  ASSUME LedgerInv, NEW n \in Markets, NEW v \in Users,
         NEW p \in Position, ~position[n][v].is_settled, ~p.is_settled,
         position' = [position EXCEPT ![n] = [@ EXCEPT ![v] = p]],
         UNCHANGED <<market, paid, feeRate, tokenSet, tokens>>
  PROVE  LedgerInv' /\ SettledKept
<1>1. position \in [Markets -> [Users -> Position]]
  BY DEF LedgerInv, LedgerTyped
<1>2. /\ position' \in [Markets -> [Users -> Position]]
      /\ \A m \in Markets, u \in Users :
           position'[m][u] = IF m = n /\ u = v THEN p ELSE position[m][u]
  BY <1>1
<1>3. tokens' \in [Markets -> [Users -> Balance]]
  BY DEF LedgerInv, LedgerTyped
<1> QED
  BY <1>2, <1>3, OpenStep

-------------------------------------------------------------------------------
\* A lock is a natural number: whatever the price, no side locks less than nothing.
LEMMA ScaledIsNat ==
  ASSUME NEW a \in Nat, NEW b \in Nat
  PROVE  (a * b) \div BASIS_POINTS \in Nat
<1>1. a * b \in Nat
  OBVIOUS
<1>2. \A c \in Nat : c \div BASIS_POINTS \in Nat
  BY ConstantsAssumption
<1> QED
  BY <1>1, <1>2

LEMMA LockIsNat ==
  ASSUME NEW yes \in Nat, NEW no \in Nat, NEW price, ValidMarketPrice(price)
  PROVE  LockedCollateral(yes, no, price) \in Nat
<1>1. price \in Nat /\ BASIS_POINTS - price \in Nat
  BY ConstantsAssumption DEF ValidMarketPrice
<1>2. CASE yes > no
  <2>1. yes - no \in Nat
    BY <1>2
  <2> QED
    BY <1>1, <1>2, <2>1, ScaledIsNat DEF LockedCollateral
<1>3. CASE ~(yes > no)
  <2>1. no - yes \in Nat
    BY <1>3
  <2> QED
    BY <1>1, <1>3, <2>1, ScaledIsNat DEF LockedCollateral
<1> QED
  BY <1>2, <1>3

LEMMA WithSharesTyped ==
  ASSUME NEW p \in Position, NEW yes \in Nat, NEW no \in Nat, NEW price,
         ValidMarketPrice(price)
  PROVE  /\ WithShares(p, yes, no, price) \in Position
         /\ WithShares(p, yes, no, price).is_settled = p.is_settled
BY LockIsNat DEF WithShares, Position

-------------------------------------------------------------------------------
\* Action by action.

LEMMA DepositKeeps ==
  ASSUME LedgerInv, NEW m \in Markets, NEW u \in Users, NEW amount \in AmountInputs,
         Deposit(u, m, amount)
  PROVE  LedgerInv' /\ SettledKept
<1> DEFINE p == [position[m][u] EXCEPT !.total_deposited = @ + amount, !.stored = TRUE]
<1>1. position[m][u] \in Position /\ ~position[m][u].is_settled
  BY DEF LedgerInv, LedgerTyped, SettledWhenResolved, Resolved, Active, Deposit
<1>2. amount \in Nat
  BY ConstantsAssumption DEF Deposit
<1>3. p \in Position /\ ~p.is_settled
  <2>1. position[m][u].total_deposited + amount \in Nat
    BY <1>1, <1>2 DEF Position
  <2>2. ~p.is_settled
    BY <1>1 DEF Position
  <2> QED
    BY <1>1, <2>1, <2>2 DEF Position
<1>4. position' = [position EXCEPT ![m] = [@ EXCEPT ![u] = p]]
  BY <1>1 DEF Deposit, LedgerInv, LedgerTyped, Position
<1>5. UNCHANGED <<market, paid, feeRate, tokenSet, tokens>>
  BY DEF Deposit
<1> QED
  BY <1>1, <1>3, <1>4, <1>5, WriteOpenPosition

LEMMA WithdrawKeeps ==
  ASSUME LedgerInv, NEW m \in Markets, NEW u \in Users, NEW amount \in AmountInputs,
         Withdraw(u, m, amount)
  PROVE  LedgerInv' /\ SettledKept
<1> DEFINE fee == WithdrawalFee(u, amount)
           p == [position[m][u] EXCEPT !.total_deposited = @ - (amount + fee)]
<1>1. position[m][u] \in Position /\ ~position[m][u].is_settled
  BY DEF LedgerInv, LedgerTyped, SettledWhenResolved, Resolved, Active, Withdraw
<1>2. amount \in Nat /\ feeRate \in Nat
  BY ConstantsAssumption DEF Withdraw, LedgerInv, LedgerTyped
<1>3. fee \in Nat
  BY <1>2, ScaledIsNat DEF WithdrawalFee
<1>4. amount + fee <= position[m][u].total_deposited - position[m][u].locked_collateral
  BY DEF Withdraw, Affordable, Available
<1>5. p \in Position /\ ~p.is_settled
  <2> HIDE DEF fee
  <2> QED
    BY <1>1, <1>2, <1>3, <1>4 DEF Position
<1>6. position' = [position EXCEPT ![m] = [@ EXCEPT ![u] = p]]
  <2>1. position' = [position EXCEPT ![m][u].total_deposited = @ - (amount + fee)]
    BY DEF Withdraw, DebitPosition
  <2> HIDE DEF fee
  <2> QED
    BY <1>1, <2>1 DEF LedgerInv, LedgerTyped, Position
<1>7. UNCHANGED <<market, paid, feeRate, tokenSet, tokens>>
  BY DEF Withdraw
<1> QED
  BY <1>1, <1>5, <1>6, <1>7, WriteOpenPosition

LEMMA RefundKeeps ==
  ASSUME LedgerInv, NEW m \in Markets, NEW u \in Users, RefundCanceled(u, m)
  PROVE  LedgerInv' /\ SettledKept
<1> DEFINE p == [position[m][u] EXCEPT !.total_deposited = 0, !.locked_collateral = 0]
<1>1. position[m][u] \in Position /\ ~position[m][u].is_settled
  BY DEF LedgerInv, LedgerTyped, SettledWhenResolved, Resolved, RefundCanceled
<1>2. p \in Position /\ ~p.is_settled
  BY <1>1 DEF Position
<1>3. position' = [position EXCEPT ![m] = [@ EXCEPT ![u] = p]]
  BY <1>1 DEF RefundCanceled, LedgerInv, LedgerTyped, Position
<1>4. UNCHANGED <<market, paid, feeRate, tokenSet, tokens>>
  BY DEF RefundCanceled
<1> QED
  BY <1>1, <1>2, <1>3, <1>4, WriteOpenPosition

LEMMA TradeKeeps ==
  ASSUME LedgerInv, NEW m \in Markets, NEW u \in Users,
         NEW yes_delta \in DeltaInputs, NEW no_delta \in DeltaInputs,
         NEW price \in PriceInputs, Trade(u, m, yes_delta, no_delta, price)
  PROVE  LedgerInv' /\ SettledKept
<1> DEFINE yes == position[m][u].yes_shares + yes_delta
           no == position[m][u].no_shares + no_delta
           p == WithShares(position[m][u], yes, no, price)
<1>1. position[m][u] \in Position /\ ~position[m][u].is_settled
  BY DEF LedgerInv, LedgerTyped, SettledWhenResolved, Resolved, Active, Trade
<1>2. yes \in Nat /\ no \in Nat /\ ValidMarketPrice(price)
  BY ConstantsAssumption DEF Trade
<1>3. /\ position' = [position EXCEPT ![m] = [@ EXCEPT ![u] = p]]
      /\ tokens' = IF tokenSet
                   THEN [tokens EXCEPT ![m] = [@ EXCEPT ![u] = [yes |-> yes, no |-> no]]]
                   ELSE tokens
      /\ UNCHANGED <<market, paid, feeRate, tokenSet>>
  BY DEF Trade
<1> HIDE DEF yes, no
<1>4. p \in Position /\ ~p.is_settled
  BY <1>1, <1>2, WithSharesTyped
<1> HIDE DEF p
<1>5. /\ position \in [Markets -> [Users -> Position]]
      /\ tokens \in [Markets -> [Users -> Balance]]
      /\ [yes |-> yes, no |-> no] \in Balance
  BY <1>2 DEF LedgerInv, LedgerTyped, Balance
<1>6. /\ position' \in [Markets -> [Users -> Position]]
      /\ tokens' \in [Markets -> [Users -> Balance]]
      /\ \A n \in Markets, v \in Users : ~(n = m /\ v = u) =>
           position'[n][v] = position[n][v] /\ tokens'[n][v] = tokens[n][v]
      /\ position'[m][u] = p
  BY <1>3, <1>4, <1>5
<1>7. \A n \in Markets, v \in Users :
        IF position[n][v].is_settled
        THEN position'[n][v] = position[n][v] /\ tokens'[n][v] = tokens[n][v]
        ELSE ~position'[n][v].is_settled
  BY <1>1, <1>4, <1>6
<1> QED
  BY <1>3, <1>6, <1>7, OpenStep

LEMMA TransferKeeps ==
  ASSUME LedgerInv, NEW m \in Markets, NEW from \in Users, NEW to \in Users,
         NEW yes \in DeltaInputs, NEW no \in DeltaInputs, NEW price \in PriceInputs,
         NEW request \in RequestIds, Transfer(m, from, to, yes, no, price, request)
  PROVE  LedgerInv' /\ SettledKept
<1> DEFINE source == position[m][from]
           dest == position[m][to]
           p == WithShares(source, source.yes_shares - yes, source.no_shares - no, price)
           q == WithShares(dest, dest.yes_shares + yes, dest.no_shares + no, price)
<1>1. position \in [Markets -> [Users -> Position]] /\ source \in Position /\ dest \in Position
  BY DEF LedgerInv, LedgerTyped
<1>2. ~source.is_settled /\ ~dest.is_settled /\ ValidMarketPrice(price)
  BY DEF Transfer, Transferable
<1>3. /\ source.yes_shares - yes \in Nat /\ source.no_shares - no \in Nat
      /\ dest.yes_shares + yes \in Nat /\ dest.no_shares + no \in Nat
  <2>1. /\ yes \in Nat /\ no \in Nat
        /\ yes <= source.yes_shares /\ no <= source.no_shares
    BY ConstantsAssumption DEF Transfer, Holds
  <2> QED
    BY <1>1, <2>1 DEF Position
<1>4. p \in Position /\ ~p.is_settled /\ q \in Position /\ ~q.is_settled
  <2> DEFINE given == source.yes_shares - yes
             left == source.no_shares - no
             taken == dest.yes_shares + yes
             added == dest.no_shares + no
  <2>1. given \in Nat /\ left \in Nat /\ taken \in Nat /\ added \in Nat
    BY <1>3
  <2> HIDE DEF source, dest, given, left, taken, added
  <2>2. LET r == WithShares(source, given, left, price)
        IN  r \in Position /\ ~r.is_settled
    BY <1>1, <1>2, <2>1, WithSharesTyped
  <2>3. LET r == WithShares(dest, taken, added, price)
        IN  r \in Position /\ ~r.is_settled
    BY <1>1, <1>2, <2>1, WithSharesTyped
  <2> QED
    BY <2>2, <2>3 DEF source, dest, given, left, taken, added
<1>5. /\ position' = [position EXCEPT ![m][from] = p, ![m][to] = q]
      /\ UNCHANGED <<market, paid, feeRate, tokenSet, tokens>>
  BY DEF Transfer
<1> HIDE DEF p, q
<1>6. /\ position' \in [Markets -> [Users -> Position]]
      /\ \A n \in Markets, u \in Users :
           position'[n][u] = IF n = m /\ u = to THEN q
                             ELSE IF n = m /\ u = from THEN p ELSE position[n][u]
  BY <1>1, <1>4, <1>5
<1>7. tokens' \in [Markets -> [Users -> Balance]]
  BY <1>5 DEF LedgerInv, LedgerTyped
<1>8. \A n \in Markets, u \in Users :
        IF position[n][u].is_settled
        THEN position'[n][u] = position[n][u] /\ tokens'[n][u] = tokens[n][u]
        ELSE ~position'[n][u].is_settled
  BY <1>2, <1>4, <1>5, <1>6
<1> QED
  BY <1>5, <1>6, <1>7, <1>8, OpenStep

LEMMA MergedTyped ==
  ASSUME NEW p \in Position, NEW q \in Position, NEW price, ValidMarketPrice(price)
  PROVE  /\ Merged(p, q, price) \in Position /\ Merged(p, q, price).is_settled = p.is_settled
         /\ Emptied(q) \in Position /\ Emptied(q).is_settled = q.is_settled
<1> DEFINE yes == p.yes_shares + q.yes_shares
           no == p.no_shares + q.no_shares
           r == WithShares(p, yes, no, price)
<1>1. yes \in Nat /\ no \in Nat /\ q.total_deposited \in Nat
  BY DEF Position
<1> HIDE DEF yes, no
<1>2. r \in Position /\ r.is_settled = p.is_settled
  BY <1>1, WithSharesTyped
<1>3. Merged(p, q, price) = [r EXCEPT !.total_deposited = @ + q.total_deposited]
  BY DEF Merged, yes, no
<1> HIDE DEF r
<1>4. r.total_deposited + q.total_deposited \in Nat
  BY <1>1, <1>2 DEF Position
<1>5. Merged(p, q, price) \in Position /\ Merged(p, q, price).is_settled = r.is_settled
  BY <1>2, <1>3, <1>4 DEF Position
<1>6. Emptied(q) \in Position /\ Emptied(q).is_settled = q.is_settled
  BY DEF Emptied, Position
<1> QED
  BY <1>2, <1>5, <1>6

LEMMA MergeKeeps ==
  ASSUME LedgerInv, NEW m \in Markets, NEW owner \in Users, NEW primary \in Users,
         NEW other \in Users, NEW price \in PriceInputs, NEW request \in RequestIds,
         Merge(m, owner, primary, other, price, request)
  PROVE  LedgerInv' /\ SettledKept
<1> DEFINE p == Merged(position[m][primary], position[m][other], price)
           q == Emptied(position[m][other])
<1>1. /\ position \in [Markets -> [Users -> Position]]
      /\ position[m][primary] \in Position /\ position[m][other] \in Position
  BY DEF LedgerInv, LedgerTyped
<1>2. /\ ~position[m][primary].is_settled /\ ~position[m][other].is_settled
      /\ ValidMarketPrice(price)
  BY DEF Merge
<1>3. p \in Position /\ ~p.is_settled /\ q \in Position /\ ~q.is_settled
  BY <1>1, <1>2, MergedTyped
<1>4. /\ position' = [position EXCEPT ![m][primary] = p, ![m][other] = q]
      /\ UNCHANGED <<market, paid, feeRate, tokenSet, tokens>>
  BY DEF Merge
<1> HIDE DEF p, q
<1>5. /\ position' \in [Markets -> [Users -> Position]]
      /\ \A n \in Markets, u \in Users :
           position'[n][u] = IF n = m /\ u = other THEN q
                             ELSE IF n = m /\ u = primary THEN p ELSE position[n][u]
  BY <1>1, <1>3, <1>4
<1>6. tokens' \in [Markets -> [Users -> Balance]]
  BY <1>4 DEF LedgerInv, LedgerTyped
<1>7. \A n \in Markets, u \in Users :
        IF position[n][u].is_settled
        THEN position'[n][u] = position[n][u] /\ tokens'[n][u] = tokens[n][u]
        ELSE ~position'[n][u].is_settled
  BY <1>2, <1>3, <1>4, <1>5
<1> QED
  BY <1>4, <1>5, <1>6, <1>7, OpenStep

LEMMA ReconcileKeeps ==
  ASSUME LedgerInv, NEW m \in Markets, NEW u \in Users, NEW id \in RepairIds,
         Reconcile(m, u, id)
  PROVE  LedgerInv' /\ SettledKept
<1>1. ~position[m][u].is_settled /\ tokenSet
  BY DEF Reconcile, IsMatched
<1>2. /\ position \in [Markets -> [Users -> Position]]
      /\ tokens \in [Markets -> [Users -> Balance]]
      /\ SharesOf(position[m][u]) \in Balance
  BY DEF LedgerInv, LedgerTyped, SharesOf, Balance, Position
<1>3. /\ tokens' = [tokens EXCEPT ![m] = [@ EXCEPT ![u] = SharesOf(position[m][u])]]
      /\ UNCHANGED <<market, position, paid, feeRate, tokenSet>>
  BY DEF Reconcile
<1>4. /\ tokens' \in [Markets -> [Users -> Balance]]
      /\ \A n \in Markets, v \in Users : ~(n = m /\ v = u) => tokens'[n][v] = tokens[n][v]
  BY <1>2, <1>3
<1> QED
  BY <1>1, <1>2, <1>3, <1>4, OpenStep

LEMMA MoveTokenKeeps ==
  ASSUME LedgerInv, NEW m \in Markets, NEW from \in Users, NEW to \in Users,
         MoveToken(m, from, to)
  PROVE  LedgerInv' /\ SettledKept
<1>1. /\ position \in [Markets -> [Users -> Position]]
      /\ tokens \in [Markets -> [Users -> Balance]]
      /\ tokenSet /\ \A u \in Users : ~position[m][u].is_settled
  BY DEF LedgerInv, LedgerTyped, SettledWhenResolved, Resolved, Active, MoveToken
<1>2. /\ [tokens[m][from] EXCEPT !.yes = @ - 1] \in Balance
      /\ [tokens[m][to] EXCEPT !.yes = @ + 1] \in Balance
  BY <1>1 DEF Balance
<1>3. /\ tokens' = [tokens EXCEPT ![m][from].yes = @ - 1, ![m][to].yes = @ + 1]
      /\ from # to
      /\ UNCHANGED <<market, position, paid, feeRate, tokenSet>>
  BY DEF MoveToken
<1>4. \A n \in Markets, u \in Users :
        tokens'[n][u] = IF n = m /\ u = to THEN [tokens[m][to] EXCEPT !.yes = @ + 1]
                        ELSE IF n = m /\ u = from THEN [tokens[m][from] EXCEPT !.yes = @ - 1]
                        ELSE tokens[n][u]
  BY <1>1, <1>3 DEF Balance
<1>5. tokens' \in [Markets -> [Users -> Balance]]
  BY <1>1, <1>2, <1>3, <1>4
<1> QED
  BY <1>1, <1>3, <1>4, <1>5, OpenStep

\* The core of the three calls that settle.  Parity makes the burn exact: what a due
\* position holds in tokens is what it holds in shares.
LEMMA SettleAllKeeps ==
  ASSUME LedgerInv, NEW m \in Markets, NEW users, Resolved(m), SettleAll(m, users)
  PROVE  LedgerInv' /\ SettledKept
<1> DEFINE due == {u \in users : Payable(m, u)}
           payout == [u \in Users |-> IF u \in due THEN Payout(position[m][u], market[m].result)
                                      ELSE 0]
           settled(u) == IF u \in due THEN [position[m][u] EXCEPT !.is_settled = TRUE]
                         ELSE position[m][u]
           burned(u) == IF u \in due /\ tokenSet THEN AfterBurn(m, u) ELSE tokens[m][u]
<1>1. /\ market \in [Markets -> Market]
      /\ position \in [Markets -> [Users -> Position]]
      /\ tokens \in [Markets -> [Users -> Balance]]
      /\ paid \in [Markets -> [Users -> Int]]
  BY DEF LedgerInv, LedgerTyped
<1>2. /\ position' = [position EXCEPT ![m] = [u \in Users |-> settled(u)]]
      /\ tokens' = [tokens EXCEPT ![m] = [u \in Users |-> burned(u)]]
      /\ paid' = [paid EXCEPT ![m] = [u \in Users |-> paid[m][u] + payout[u]]]
      /\ UNCHANGED <<market, feeRate, tokenSet>>
  BY <1>1 DEF SettleAll
<1>3. \A u \in due : /\ ~position[m][u].is_settled
                     /\ tokenSet => tokens[m][u] = SharesOf(position[m][u])
  BY DEF Payable, IsMatched
<1>4. \A u \in Users :
        /\ settled(u) \in Position
        /\ u \in due => settled(u).is_settled
        /\ u \notin due => settled(u) = position[m][u]
  <2> HIDE DEF due
  <2> SUFFICES ASSUME NEW u \in Users
               PROVE  /\ settled(u) \in Position
                      /\ u \in due => settled(u).is_settled
                      /\ u \notin due => settled(u) = position[m][u]
    OBVIOUS
  <2>1. position[m][u] \in Position
    BY <1>1
  <2>2. /\ [position[m][u] EXCEPT !.is_settled = TRUE] \in Position
        /\ [position[m][u] EXCEPT !.is_settled = TRUE].is_settled
    BY <2>1 DEF Position
  <2>3. CASE u \in due
    BY <2>2, <2>3
  <2>4. CASE u \notin due
    BY <2>1, <2>4
  <2> QED
    BY <2>3, <2>4
<1>5. \A u \in Users : u \in due /\ tokenSet => burned(u) = NoTokens
  <2> SUFFICES ASSUME NEW u \in Users, u \in due, tokenSet
               PROVE  burned(u) = NoTokens
    OBVIOUS
  <2>1. /\ tokens[m][u].yes = position[m][u].yes_shares
        /\ tokens[m][u].no = position[m][u].no_shares
        /\ position[m][u].yes_shares \in Nat /\ position[m][u].no_shares \in Nat
    <3>1. tokens[m][u] = SharesOf(position[m][u]) /\ position[m][u] \in Position
      BY <1>1, <1>3
    <3> QED
      BY <3>1 DEF SharesOf, Position
  <2>2. AfterBurn(m, u).yes = 0 /\ AfterBurn(m, u).no = 0
    BY <2>1 DEF AfterBurn
  <2> QED
    BY <2>2 DEF NoTokens, AfterBurn
<1>6. \A u \in Users : burned(u) \in Balance
  BY <1>1, <1>5 DEF Balance, NoTokens
<1>7. \A u \in Users : payout[u] \in Int /\ (u \notin due => payout[u] = 0)
  BY <1>1 DEF Payout, Position
<1> HIDE DEF due, payout, settled, burned
<1>8. LedgerTyped'
  <2>1. position' \in [Markets -> [Users -> Position]]
    BY <1>1, <1>2, <1>4
  <2>2. tokens' \in [Markets -> [Users -> Balance]]
    BY <1>1, <1>2, <1>6
  <2>3. paid' \in [Markets -> [Users -> Int]]
    BY <1>1, <1>2, <1>7
  <2> QED
    BY <1>2, <2>1, <2>2, <2>3 DEF LedgerInv, LedgerTyped
<1>9. \A n \in Markets, u \in Users :
        /\ position'[n][u] = IF n = m THEN settled(u) ELSE position[n][u]
        /\ tokens'[n][u] = IF n = m THEN burned(u) ELSE tokens[n][u]
        /\ paid'[n][u] = IF n = m THEN paid[m][u] + payout[u] ELSE paid[n][u]
  BY <1>1, <1>2
<1>10. SettledWhenResolved'
  BY <1>2, <1>9 DEF LedgerInv, SettledWhenResolved, Resolved
<1>11. NoTokensUnregistered'
  BY <1>2, <1>9 DEF LedgerInv, NoTokensUnregistered, burned
<1>12. SettledHoldNoTokens'
  <2> SUFFICES ASSUME NEW n \in Markets, NEW u \in Users, position'[n][u].is_settled
               PROVE  tokens'[n][u] = NoTokens
    BY DEF SettledHoldNoTokens
  <2>1. CASE n = m /\ u \in due /\ tokenSet
    BY <1>5, <1>9, <2>1
  <2>2. CASE n = m /\ u \in due /\ ~tokenSet
    BY <1>9, <2>2 DEF burned, LedgerInv, NoTokensUnregistered
  <2>3. CASE n = m /\ u \notin due
    BY <1>4, <1>9, <2>3 DEF burned, LedgerInv, SettledHoldNoTokens
  <2>4. CASE n # m
    BY <1>9, <2>4 DEF LedgerInv, SettledHoldNoTokens
  <2> QED
    BY <2>1, <2>2, <2>3, <2>4
<1>13. SettledKept
  <2> SUFFICES ASSUME NEW n \in Markets, NEW u \in Users, position[n][u].is_settled
               PROVE  position'[n][u] = position[n][u] /\ paid'[n][u] = paid[n][u]
    BY DEF SettledKept
  <2>1. CASE n = m
    <3>1. u \notin due
      BY <1>3, <2>1
    <3> QED
      BY <1>1, <1>4, <1>7, <1>9, <2>1, <3>1
  <2>2. CASE n # m
    BY <1>9, <2>2
  <2> QED
    BY <2>1, <2>2
<1> QED
  BY <1>8, <1>10, <1>11, <1>12, <1>13 DEF LedgerInv

-------------------------------------------------------------------------------
\* The calls that move neither positions nor tokens.
LEMMA ConfigKeeps ==
  ASSUME LedgerInv, NEW new_mode, NEW rate \in Nat, NEW list, NEW registered,
         SetConfig(new_mode, rate, list, registered)
  PROVE  LedgerInv' /\ SettledKept
<1>1. /\ UNCHANGED <<market, position, tokens, paid, tokenSet>> /\ feeRate' = rate
  BY DEF SetConfig
<1> QED
  BY <1>1 DEF LedgerInv, LedgerTyped, SettledWhenResolved, Resolved, NoTokensUnregistered,
              SettledHoldNoTokens, SettledKept

LEMMA LifeKeeps ==
  ASSUME LedgerInv, NEW m \in Markets,
         \/ \E result \in ResultInputs : Resolve(m, result)
         \/ Cancel(m) \/ Reopen(m) \/ CloseToDeposits(m)
  PROVE  LedgerInv' /\ SettledKept
<1>1. market \in [Markets -> Market] /\ ResultInputs \subseteq Results
  BY ConstantsAssumption DEF LedgerInv, LedgerTyped
<1>2. CASE \E result \in ResultInputs : Resolve(m, result)
  <2>1. PICK result \in ResultInputs : Resolve(m, result)
    BY <1>2
  <2>2. /\ market' = [market EXCEPT ![m] = [@ EXCEPT !.status = "Resolved", !.result = result]]
        /\ UNCHANGED <<position, tokens, paid, feeRate, tokenSet>>
    BY <2>1 DEF Resolve
  <2>3. [market[m] EXCEPT !.status = "Resolved", !.result = result] \in Market
    BY <1>1 DEF Market
  <2>4. market' \in [Markets -> Market] /\ \A n \in Markets : Resolved(n) => Resolved(n)'
    BY <1>1, <2>2, <2>3 DEF Resolved
  <2> QED
    BY <2>2, <2>4, FrameStep
<1>3. CASE Cancel(m) \/ Reopen(m) \/ CloseToDeposits(m)
  <2>1. PICK r : /\ market' = [market EXCEPT ![m] = r]
                 /\ r \in Market /\ (Resolved(m) => r.status = "Resolved")
                 /\ UNCHANGED <<position, tokens, paid, feeRate, tokenSet>>
    <3>1. CASE Cancel(m)
      BY <1>1, <3>1 DEF Cancel, SetMarket, Active, Resolved, Market
    <3>2. CASE Reopen(m)
      BY <1>1, <3>2 DEF Reopen, SetMarket, Resolved, Market
    <3>3. CASE CloseToDeposits(m)
      BY <1>1, <3>3 DEF CloseToDeposits, SetMarket, Active, Resolved, Market
    <3> QED
      BY <1>3, <3>1, <3>2, <3>3
  <2>2. market' \in [Markets -> Market] /\ \A n \in Markets : Resolved(n) => Resolved(n)'
    BY <1>1, <2>1 DEF Resolved
  <2> QED
    BY <2>1, <2>2, FrameStep
<1> QED
  BY <1>2, <1>3

-------------------------------------------------------------------------------
\* The three calls that settle, the positions that move, the admin's calls.
LEMMA SettlementKeeps ==
  ASSUME LedgerInv, NEW m \in Markets, SettlementStep(m) \/ \E u \in Users : Settle(u, m)
  PROVE  LedgerInv' /\ SettledKept
<1>1. CASE \E u \in Users : Settle(u, m)
  BY <1>1, SettleAllKeeps DEF Settle
<1>2. CASE \E n \in 1 .. MAX_BATCH_SETTLE_SIZE :
             \E users \in [1 .. n -> Users] : BatchSettle(m, users)
  BY <1>2, SettleAllKeeps DEF BatchSettle
<1>3. CASE \E start, limit \in 0 .. Cardinality(Users) : SettlePage(m, start, limit)
  BY <1>3, SettleAllKeeps DEF SettlePage
<1> QED
  BY <1>1, <1>2, <1>3 DEF SettlementStep

LEMMA UserKeeps ==
  ASSUME LedgerInv, NEW m \in Markets, NEW u \in Users, UserStep(u, m)
  PROVE  LedgerInv' /\ SettledKept
<1>1. CASE \E amount \in AmountInputs : Deposit(u, m, amount) \/ Withdraw(u, m, amount)
  BY <1>1, DepositKeeps, WithdrawKeeps
<1>2. CASE \E yes, no \in DeltaInputs, price \in PriceInputs : Trade(u, m, yes, no, price)
  BY <1>2, TradeKeeps
<1>3. CASE Settle(u, m)
  BY <1>3, SettlementKeeps
<1>4. CASE RefundCanceled(u, m)
  BY <1>4, RefundKeeps
<1> QED
  BY <1>1, <1>2, <1>3, <1>4 DEF UserStep

LEMMA PositionKeeps ==
  ASSUME LedgerInv, NEW m \in Markets, PositionStep(m)
  PROVE  LedgerInv' /\ SettledKept
<1>1. PICK u \in Users, v \in Users, price \in PriceInputs, request \in RequestIds :
        \/ \E yes, no \in DeltaInputs : Transfer(m, u, v, yes, no, price, request)
        \/ \E owner \in Users : Merge(m, owner, u, v, price, request)
  BY DEF PositionStep
<1>2. CASE \E yes, no \in DeltaInputs : Transfer(m, u, v, yes, no, price, request)
  BY <1>2, TransferKeeps
<1>3. CASE \E owner \in Users : Merge(m, owner, u, v, price, request)
  BY <1>3, MergeKeeps
<1> QED
  BY <1>1, <1>2, <1>3

LEMMA AdminKeeps ==
  ASSUME LedgerInv, AdminStep
  PROVE  LedgerInv' /\ SettledKept
<1>1. CASE \E m \in Markets : \/ \E result \in ResultInputs : Resolve(m, result)
                              \/ Cancel(m) \/ Reopen(m) \/ CloseToDeposits(m)
  BY <1>1, LifeKeeps
<1>2. CASE \E m \in Markets, u \in Users, id \in RepairIds : Reconcile(m, u, id)
  BY <1>2, ReconcileKeeps
<1>3. CASE \/ \E new_mode \in ModeInputs : SetEmergencyMode(new_mode)
           \/ \E rate \in FeeInputs : SetFeeRate(rate)
           \/ \E u \in Users : AddFeeWaiver(u) \/ RemoveFeeWaiver(u)
           \/ SetTreasury
  <2>1. feeRate \in Nat /\ FeeInputs \subseteq Nat
    BY ConstantsAssumption DEF LedgerInv, LedgerTyped
  <2> QED
    BY <1>3, <2>1, ConfigKeeps
    DEF SetEmergencyMode, SetFeeRate, AddFeeWaiver, RemoveFeeWaiver, SetTreasury
<1>4. CASE SetOutcomeToken
  <2>1. UNCHANGED <<market, position, tokens, paid, feeRate>> /\ tokenSet'
    BY <1>4 DEF SetOutcomeToken
  <2>2. market' \in [Markets -> Market] /\ \A m \in Markets : Resolved(m) => Resolved(m)'
    BY <2>1 DEF LedgerInv, LedgerTyped, Resolved
  <2> QED
    BY <2>1, <2>2, FrameStep
<1> QED
  BY <1>1, <1>2, <1>3, <1>4 DEF AdminStep

LEMMA IdleKeeps ==
  ASSUME LedgerInv, UNCHANGED <<market, position, tokens, paid, feeRate, tokenSet>>
  PROVE  LedgerInv' /\ SettledKept
<1>1. market' \in [Markets -> Market] /\ \A m \in Markets : Resolved(m) => Resolved(m)'
  BY DEF LedgerInv, LedgerTyped, Resolved
<1> QED
  BY <1>1, FrameStep

LEMMA NextKeeps ==
  ASSUME LedgerInv, [Next]_vars
  PROVE  LedgerInv' /\ SettledKept
<1>1. CASE \E m \in Markets, u \in Users : UserStep(u, m)
  BY <1>1, UserKeeps
<1>2. CASE \E m \in Markets : PositionStep(m)
  BY <1>2, PositionKeeps
<1>3. CASE \E m \in Markets : SettlementStep(m)
  BY <1>3, SettlementKeeps
<1>4. CASE \E m \in Markets, from, to \in Users : MoveToken(m, from, to)
  BY <1>4, MoveTokenKeeps
<1>5. CASE AdminStep
  BY <1>5, AdminKeeps
<1>6. CASE Tick
  BY <1>6, IdleKeeps DEF Tick
<1>7. CASE UNCHANGED vars
  BY <1>7, IdleKeeps DEF vars
<1> QED
  BY <1>1, <1>2, <1>3, <1>4, <1>5, <1>6, <1>7 DEF Next

-------------------------------------------------------------------------------
LEMMA InitLedger ==
  ASSUME Init
  PROVE  LedgerInv
<1>1. LedgerTyped
  BY DEF Init, LedgerTyped, Market, Results, Position, EmptyPosition, Balance, NoTokens
<1>2. SettledWhenResolved /\ SettledHoldNoTokens
  BY DEF Init, SettledWhenResolved, SettledHoldNoTokens, EmptyPosition
<1>3. NoTokensUnregistered
  BY DEF Init, NoTokensUnregistered
<1> QED
  BY <1>1, <1>2, <1>3 DEF LedgerInv

\* The invariant holds always.
THEOREM LedgerAlways == Spec => []LedgerInv
<1>1. Init => LedgerInv
  BY InitLedger
<1>2. LedgerInv /\ [Next]_vars => LedgerInv'
  BY NextKeeps
<1> QED
  BY <1>1, <1>2, PTL DEF Spec

\* Whoever was paid by settlement holds no outcome tokens of that market, whatever is
\* traded, transferred, merged or repaired before, and even when the token contract is
\* registered after the settlement (settlement.rs #931, reconciliation.rs #708).
THEOREM SettledPositionsHoldNoTokens == Spec => []SettledHoldNoTokens
<1>1. LedgerInv => SettledHoldNoTokens
  BY DEF LedgerInv
<1> QED
  BY <1>1, LedgerAlways, PTL

\* No step, after any history, changes a settled position or pays it again, through
\* any of the three calls that settle (types.rs, is_settled).
THEOREM SettledPositionsAreFinal == Spec => SettledForGood
<1>1. LedgerInv /\ [Next]_vars =>
        [\A m \in Markets, u \in Users :
           position[m][u].is_settled =>
             position'[m][u] = position[m][u] /\ paid'[m][u] = paid[m][u]]_vars
  BY NextKeeps DEF SettledKept
<1> QED
  BY <1>1, LedgerAlways, PTL DEF Spec, SettledForGood

-------------------------------------------------------------------------------
\* The events.  FoldLeft is a fold over the places of the sequence, last one outermost;
\* calls publish up to three events, so that each fold is worked out in full.

\* One turn of the fold: what the last of the events T makes of the ones before it.
Turn(i, s, g, T) == IF T = {} THEN i ELSE Heard(g[T \ {Max(T)}], s[Max(T)])

HeardInTurn(i, s, g) == g = [T \in SUBSET DOMAIN s |-> Turn(i, s, g, T)]

LEMMA FoldInTurn ==
  ASSUME NEW i, NEW s, \E g : HeardInTurn(i, s, g)
  PROVE  \E g : HeardInTurn(i, s, g) /\ FoldLeft(Heard, i, s) = g[DOMAIN s]
<1> DEFINE h == CHOOSE g : g = [T \in SUBSET DOMAIN s |-> IF T = {} THEN i
                 ELSE LET x == Max(T) IN Heard(g[T \ {x}], s[x])]
<1>1. FoldLeft(Heard, i, s) = h[DOMAIN s]
  BY Zenon DEF FoldLeft, MapThenFoldSet
<1>2. h = [T \in SUBSET DOMAIN s |-> IF T = {} THEN i
                 ELSE LET x == Max(T) IN Heard(h[T \ {x}], s[x])]
  BY Zenon DEF HeardInTurn, Turn
<1>3. HeardInTurn(i, s, h)
  BY <1>2, Zenon DEF HeardInTurn, Turn
<1> QED
  BY <1>1, <1>3, Zenon

\* The event k, if it is one of T, after what was heard before it.
ThenHeard(s, T, k, i) == IF k \in T THEN Heard(i, s[k]) ELSE i

LEMMA LastOf ==
  ASSUME NEW T, T \subseteq 1 .. 3, T # {}
  PROVE  Max(T) = IF 3 \in T THEN 3 ELSE IF 2 \in T THEN 2 ELSE 1
<1> DEFINE k == IF 3 \in T THEN 3 ELSE IF 2 \in T THEN 2 ELSE 1
<1>1. \A y \in T : y = 1 \/ y = 2 \/ y = 3
  OBVIOUS
<1>2. k \in T
  BY <1>1
<1>3. \A y \in T : k >= y
  BY <1>1
<1>4. k \in Int
  OBVIOUS
<1> HIDE DEF k
<1>5. Max(T) \in T /\ \A y \in T : Max(T) >= y
  BY <1>2, <1>3 DEF Max
<1>6. k >= Max(T) /\ Max(T) >= k
  BY <1>2, <1>3, <1>5, Zenon
<1>7. Max(T) = 1 \/ Max(T) = 2 \/ Max(T) = 3
  BY <1>1, <1>5, Zenon
<1>8. Max(T) = k
  BY <1>4, <1>6, <1>7
<1> QED
  BY <1>8 DEF k

\* Up to three events are heard one after the other.
LEMMA HeardInOrder ==
  ASSUME NEW i, NEW s, DOMAIN s \subseteq 1 .. 3
  PROVE  FoldLeft(Heard, i, s)
           = ThenHeard(s, DOMAIN s, 3, ThenHeard(s, DOMAIN s, 2, ThenHeard(s, DOMAIN s, 1, i)))
<1> DEFINE all(T) == ThenHeard(s, T, 3, ThenHeard(s, T, 2, ThenHeard(s, T, 1, i)))
           g == [T \in SUBSET DOMAIN s |-> all(T)]
<1>1. ASSUME NEW T \in SUBSET DOMAIN s, NEW f,
             \A U \in SUBSET T : U # T => f[U] = all(U)
      PROVE  Turn(i, s, f, T) = all(T)
  <2>1. CASE T = {}
    BY <2>1, Zenon DEF Turn, ThenHeard
  <2>2. CASE T # {}
    <3> DEFINE last == Max(T)
               rest == T \ {last}
    <3>1. last = IF 3 \in T THEN 3 ELSE IF 2 \in T THEN 2 ELSE 1
      BY <2>2, LastOf
    <3>2. last \in T /\ rest \in SUBSET T /\ rest # T
      BY <2>2, <3>1
    <3>3. Turn(i, s, f, T) = Heard(all(rest), s[last])
      BY <1>1, <2>2, <3>2, Zenon DEF Turn
    <3>4. CASE 3 \in T
      <4>1. last = 3 /\ 3 \notin rest /\ (2 \in rest <=> 2 \in T) /\ (1 \in rest <=> 1 \in T)
        BY <3>1, <3>4
      <4> QED
        BY <3>3, <3>4, <4>1, Zenon DEF ThenHeard
    <3>5. CASE 3 \notin T /\ 2 \in T
      <4>1. last = 2 /\ 3 \notin rest /\ 2 \notin rest /\ (1 \in rest <=> 1 \in T)
        BY <3>1, <3>5
      <4> QED
        BY <3>3, <3>5, <4>1, Zenon DEF ThenHeard
    <3>6. CASE 3 \notin T /\ 2 \notin T
      <4>1. last = 1 /\ 3 \notin rest /\ 2 \notin rest /\ 1 \notin rest /\ 1 \in T
        BY <2>2, <3>1, <3>2, <3>6
      <4> QED
        BY <3>3, <3>6, <4>1, Zenon DEF ThenHeard
    <3> QED
      BY <3>4, <3>5, <3>6
  <2> QED
    BY <2>1, <2>2
<1>2. HeardInTurn(i, s, g)
  <2>1. ASSUME NEW T \in SUBSET DOMAIN s PROVE g[T] = Turn(i, s, g, T)
    <3>1. \A U \in SUBSET T : g[U] = all(U)
      OBVIOUS
    <3> HIDE DEF g, all
    <3> QED
      BY <1>1, <3>1, Zenon
  <2> QED
    BY <2>1 DEF HeardInTurn
<1>3. PICK h : HeardInTurn(i, s, h) /\ FoldLeft(Heard, i, s) = h[DOMAIN s]
  BY <1>2, FoldInTurn, Zenon
<1> DEFINE Q == {T \in SUBSET DOMAIN s : h[T] = all(T)}
<1>4. ASSUME NEW T \in SUBSET DOMAIN s, \A U \in SUBSET T : U # T => U \in Q
      PROVE  T \in Q
  <2>1. h[T] = Turn(i, s, h, T)
    BY <1>3 DEF HeardInTurn
  <2>2. \A U \in SUBSET T : U # T => h[U] = all(U)
    BY <1>4
  <2> HIDE DEF all
  <2> QED
    BY <1>1, <2>1, <2>2
<1>5. IsFiniteSet(DOMAIN s)
  <2>1. \A a, b \in Int : IsFiniteSet(a .. b)
    BY FS_Interval
  <2> QED
    BY <2>1, FS_Subset
<1> HIDE DEF Q
<1>6. \A T \in SUBSET DOMAIN s : T \in Q
  BY <1>4, <1>5, SubsetInduction, Zenon
<1>7. h[DOMAIN s] = all(DOMAIN s)
  BY <1>6 DEF Q
<1> QED
  BY <1>3, <1>7

LEMMA HeardNone == ASSUME NEW i PROVE FoldLeft(Heard, i, <<>>) = i
<1>1. DOMAIN <<>> \subseteq 1 .. 3 /\ 1 \notin DOMAIN <<>> /\ 2 \notin DOMAIN <<>> /\ 3 \notin DOMAIN <<>>
  OBVIOUS
<1> QED
  BY <1>1, HeardInOrder, Zenon DEF ThenHeard

LEMMA HeardOne ==
  ASSUME NEW i, NEW a
  PROVE  FoldLeft(Heard, i, <<a>>) = Heard(i, a)
<1> DEFINE s == <<a>>
<1>1. /\ DOMAIN s \subseteq 1 .. 3 /\ 1 \in DOMAIN s /\ 2 \notin DOMAIN s /\ 3 \notin DOMAIN s
      /\ s[1] = a
  OBVIOUS
<1> HIDE DEF s
<1>2. FoldLeft(Heard, i, s) = Heard(i, a)
  BY <1>1, HeardInOrder, Zenon DEF ThenHeard
<1> QED
  BY <1>2 DEF s

\* Whoever believes i and hears the events s believes j.
Yields(i, s, j) == j = FoldLeft(Heard, i, s)

LEMMA HeardTwo ==
  ASSUME NEW i, NEW a, NEW b
  PROVE  Yields(i, <<a, b>>, Heard(Heard(i, a), b))
<1> DEFINE s == <<a, b>>
<1>1. /\ DOMAIN s \subseteq 1 .. 3 /\ 1 \in DOMAIN s /\ 2 \in DOMAIN s /\ 3 \notin DOMAIN s
      /\ s[1] = a /\ s[2] = b
  OBVIOUS
<1> HIDE DEF s
<1>2. FoldLeft(Heard, i, s) = Heard(Heard(i, a), b)
  BY <1>1, HeardInOrder, Zenon DEF ThenHeard
<1> QED
  BY <1>2, Zenon DEF s, Yields

-------------------------------------------------------------------------------
\* What one event changes.

Index ==
  [total : [Markets -> [Users -> Int]], shares : [Markets -> [Users -> Balance]],
   locked : [Markets -> [Users -> Int]], settlements : [Markets -> [Users -> Seq(Int)]],
   status : [Markets -> {"Active", "Resolved", "Canceled"}], result : [Markets -> Results],
   closed : SUBSET Markets, gaps : SUBSET (Markets \X Users), fee : Int, retained : Int,
   mode : Modes, feeRate : Nat, waivers : SUBSET Users, treasurySet : BOOLEAN,
   tokenSet : BOOLEAN]

SameTotals(i, j) == j.total = i.total /\ j.gaps = i.gaps
SameShares(i, j) == j.shares = i.shares /\ j.locked = i.locked
SameMarkets(i, j) == j.status = i.status /\ j.result = i.result /\ j.closed = i.closed
SameConfig(i, j) ==
  /\ j.mode = i.mode /\ j.feeRate = i.feeRate /\ j.waivers = i.waivers
  /\ j.treasurySet = i.treasurySet /\ j.tokenSet = i.tokenSet

\* A new total, taken as it is; one that is not the expected total is noted.
TellsTotal(i, j, m, u, expected, new) ==
  /\ j \in Index
  /\ \A n \in Markets, v \in Users :
       j.total[n][v] = IF n = m /\ v = u THEN new ELSE i.total[n][v]
  /\ j.gaps = IF new = expected THEN i.gaps ELSE i.gaps \cup {<<m, u>>}
  /\ j.fee = 0
  /\ SameShares(i, j) /\ SameMarkets(i, j) /\ SameConfig(i, j) /\ j.settlements = i.settlements
  /\ j.retained = i.retained

TellsPosition(i, j, m, u, shares, lock) ==
  /\ j \in Index
  /\ \A n \in Markets, v \in Users :
       /\ j.shares[n][v] = IF n = m /\ v = u THEN shares ELSE i.shares[n][v]
       /\ j.locked[n][v] = IF n = m /\ v = u THEN lock ELSE i.locked[n][v]
  /\ SameTotals(i, j) /\ SameMarkets(i, j) /\ SameConfig(i, j) /\ j.settlements = i.settlements
  /\ j.fee = i.fee /\ j.retained = i.retained

TellsFee(i, j, fee, kept) ==
  /\ j \in Index
  /\ j.fee = fee /\ j.retained = i.retained + kept
  /\ SameTotals(i, j) /\ SameShares(i, j) /\ SameMarkets(i, j) /\ SameConfig(i, j)
  /\ j.settlements = i.settlements

\* Of the users due, one payment each.
TellsPayments(i, j, m, due, payouts) ==
  /\ j \in Index
  /\ \A n \in Markets, v \in Users :
       j.settlements[n][v] = IF n = m /\ v \in due THEN Append(i.settlements[n][v], payouts[v])
                             ELSE i.settlements[n][v]
  /\ SameTotals(i, j) /\ SameShares(i, j) /\ SameMarkets(i, j) /\ SameConfig(i, j)
  /\ j.fee = i.fee /\ j.retained = i.retained

TellsMarket(i, j, m, status, result, closed) ==
  /\ j \in Index
  /\ \A n \in Markets :
       /\ j.status[n] = IF n = m THEN status ELSE i.status[n]
       /\ j.result[n] = IF n = m THEN result ELSE i.result[n]
  /\ j.closed = closed
  /\ SameTotals(i, j) /\ SameShares(i, j) /\ SameConfig(i, j) /\ j.settlements = i.settlements
  /\ j.fee = i.fee /\ j.retained = i.retained

TellsConfig(i, j, new_mode, rate, list, treasury, token) ==
  /\ j \in Index
  /\ j.mode = new_mode /\ j.feeRate = rate /\ j.waivers = list
  /\ j.treasurySet = treasury /\ j.tokenSet = token
  /\ SameTotals(i, j) /\ SameShares(i, j) /\ SameMarkets(i, j) /\ j.settlements = i.settlements
  /\ j.fee = i.fee /\ j.retained = i.retained

\* The index with some of its fields written anew is an index.
WritesTotal(i, j, total, gaps, fee) ==
  /\ total \in [Markets -> [Users -> Int]] /\ gaps \subseteq Markets \X Users /\ fee \in Int
  /\ j = [i EXCEPT !.total = total, !.gaps = gaps, !.fee = fee]

LEMMA TotalWritten ==
  ASSUME NEW i \in Index, NEW total, NEW gaps, NEW fee,
         NEW j, WritesTotal(i, j, total, gaps, fee)
  PROVE  j \in Index /\ j.total = total /\ j.gaps = gaps /\ j.fee = fee
BY DEF Index, WritesTotal

LEMMA FeeWritten ==
  ASSUME NEW i \in Index, NEW fee \in Int, NEW j, j = [i EXCEPT !.fee = fee]
  PROVE  j \in Index /\ j.fee = fee
BY DEF Index

LEMMA RetainedWritten ==
  ASSUME NEW i \in Index, NEW fee \in Int, NEW j, j = [i EXCEPT !.retained = fee]
  PROVE  j \in Index /\ j.retained = fee
BY DEF Index

\* Event by event.
LEMMA DepositedHeard ==
  ASSUME NEW i \in Index, NEW m \in Markets, NEW u \in Users, NEW amount \in Int, NEW new \in Int
  PROVE  TellsTotal(i, Heard(i, CollateralDeposited(u, m, amount, new)), m, u,
                    i.total[m][u] + amount, new)
<1> DEFINE j == Heard(i, CollateralDeposited(u, m, amount, new))
           total == [i.total EXCEPT ![m] = [@ EXCEPT ![u] = new]]
           gaps == IF new = i.total[m][u] + amount THEN i.gaps
                   ELSE i.gaps \cup {<<m, u>>}
<1>1. j = [i EXCEPT !.total = total, !.gaps = gaps, !.fee = 0]
  BY DEF Heard, CollateralDeposited, Index, WithTotal
<1>2. total \in [Markets -> [Users -> Int]]
  BY DEF Index, Balance, Results
<1>3. gaps \in SUBSET (Markets \X Users)
  BY DEF Index, Balance, Results
<1>4. \A n \in Markets, v \in Users :
        total[n][v] = IF n = m /\ v = u THEN new ELSE i.total[n][v]
  BY DEF Index
<1> HIDE DEF j, total, gaps
<1>5. j \in Index /\ j.total = total /\ j.gaps = gaps /\ j.fee = 0
  <2>1. WritesTotal(i, j, total, gaps, 0)
    BY <1>1, <1>2, <1>3 DEF WritesTotal
  <2> QED
    BY <2>1, TotalWritten
<1>6. /\ SameShares(i, j) /\ SameMarkets(i, j) /\ SameConfig(i, j)
      /\ j.settlements = i.settlements /\ j.retained = i.retained
  BY <1>1 DEF Index, SameTotals, SameShares, SameMarkets, SameConfig
<1> QED
  BY <1>1, <1>2, <1>3, <1>4, <1>5, <1>6 DEF TellsTotal, j, gaps

LEMMA WithdrawnHeard ==
  ASSUME NEW i \in Index, NEW m \in Markets, NEW u \in Users, NEW amount \in Int, NEW new \in Int
  PROVE  TellsTotal(i, Heard(i, CollateralWithdrawn(u, m, amount, new)), m, u,
                    i.total[m][u] - amount - i.fee, new)
<1> DEFINE j == Heard(i, CollateralWithdrawn(u, m, amount, new))
           total == [i.total EXCEPT ![m] = [@ EXCEPT ![u] = new]]
           gaps == IF new = i.total[m][u] - amount - i.fee THEN i.gaps
                   ELSE i.gaps \cup {<<m, u>>}
<1>1. j = [i EXCEPT !.total = total, !.gaps = gaps, !.fee = 0]
  BY DEF Heard, CollateralWithdrawn, Index, WithTotal
<1>2. total \in [Markets -> [Users -> Int]]
  BY DEF Index, Balance, Results
<1>3. gaps \in SUBSET (Markets \X Users)
  BY DEF Index, Balance, Results
<1>4. \A n \in Markets, v \in Users :
        total[n][v] = IF n = m /\ v = u THEN new ELSE i.total[n][v]
  BY DEF Index
<1> HIDE DEF j, total, gaps
<1>5. j \in Index /\ j.total = total /\ j.gaps = gaps /\ j.fee = 0
  <2>1. WritesTotal(i, j, total, gaps, 0)
    BY <1>1, <1>2, <1>3 DEF WritesTotal
  <2> QED
    BY <2>1, TotalWritten
<1>6. /\ SameShares(i, j) /\ SameMarkets(i, j) /\ SameConfig(i, j)
      /\ j.settlements = i.settlements /\ j.retained = i.retained
  BY <1>1 DEF Index, SameTotals, SameShares, SameMarkets, SameConfig
<1> QED
  BY <1>1, <1>2, <1>3, <1>4, <1>5, <1>6 DEF TellsTotal, j, gaps

LEMMA PositionHeard ==
  ASSUME NEW i \in Index, NEW m \in Markets, NEW u \in Users,
         NEW yes \in Int, NEW no \in Int, NEW lock \in Int
  PROVE  TellsPosition(i, Heard(i, PositionUpdated(m, u, yes, no, lock)),
                       m, u, [yes |-> yes, no |-> no], lock)
<1> DEFINE j == Heard(i, PositionUpdated(m, u, yes, no, lock))
           shares == [i.shares EXCEPT ![m] = [@ EXCEPT ![u] = [yes |-> yes, no |-> no]]]
           locked == [i.locked EXCEPT ![m] = [@ EXCEPT ![u] = lock]]
<1>1. j = [i EXCEPT !.shares = shares, !.locked = locked]
  BY DEF Heard, PositionUpdated, Index
<1>2. shares \in [Markets -> [Users -> Balance]]
  BY DEF Index, Balance, Results
<1>3. locked \in [Markets -> [Users -> Int]]
  BY DEF Index, Balance, Results
<1>4. \A n \in Markets, v \in Users :
        shares[n][v] = IF n = m /\ v = u THEN [yes |-> yes, no |-> no] ELSE i.shares[n][v]
  BY DEF Index
<1>5. \A n \in Markets, v \in Users :
        locked[n][v] = IF n = m /\ v = u THEN lock ELSE i.locked[n][v]
  BY DEF Index
<1> HIDE DEF j, shares, locked
<1>6. j \in Index /\ j.shares = shares /\ j.locked = locked
  BY <1>1, <1>2, <1>3, <1>4, <1>5 DEF Index
<1>7. /\ SameTotals(i, j) /\ SameMarkets(i, j) /\ SameConfig(i, j)
      /\ j.settlements = i.settlements /\ j.fee = i.fee /\ j.retained = i.retained
  BY <1>1 DEF Index, SameTotals, SameShares, SameMarkets, SameConfig
<1> QED
  BY <1>1, <1>2, <1>3, <1>4, <1>5, <1>6, <1>7 DEF TellsPosition, j

LEMMA FeeHeard ==
  ASSUME NEW i \in Index, NEW m \in Markets, NEW u \in Users, NEW fee \in Int, NEW available
  PROVE  TellsFee(i, Heard(i, FeeCalculated(m, u, fee, available)), fee, 0)
<1> DEFINE j == Heard(i, FeeCalculated(m, u, fee, available))
<1>1. j = [i EXCEPT !.fee = fee]
  BY DEF Heard, FeeCalculated, Index
<1> HIDE DEF j
<1>2. j \in Index /\ j.fee = fee
  BY <1>1, FeeWritten, Zenon
<1>4. i.retained = i.retained + 0
  BY DEF Index
<1>3. /\ SameTotals(i, j) /\ SameShares(i, j) /\ SameMarkets(i, j)
      /\ SameConfig(i, j) /\ j.settlements = i.settlements /\ j.retained = i.retained
  BY <1>1 DEF Index, SameTotals, SameShares, SameMarkets, SameConfig
<1> QED
  BY <1>2, <1>3, <1>4, Zenon DEF TellsFee, j

LEMMA RetainedHeard ==
  ASSUME NEW i \in Index, NEW m \in Markets, NEW u \in Users, NEW fee \in Int
  PROVE  TellsFee(i, Heard(i, FeeRetainedNoTreasury(m, u, fee)), i.fee, fee)
<1> DEFINE j == Heard(i, FeeRetainedNoTreasury(m, u, fee))
<1>1. j = [i EXCEPT !.retained = i.retained + fee]
  BY DEF Heard, FeeRetainedNoTreasury, Index
<1> DEFINE kept == i.retained + fee
<1>2. kept \in Int
  BY DEF Index
<1> HIDE DEF j, kept
<1>4. j = [i EXCEPT !.retained = kept]
  BY <1>1 DEF kept
<1>5. j \in Index /\ j.retained = kept
  BY <1>2, <1>4, RetainedWritten, Zenon
<1>3. /\ SameTotals(i, j) /\ SameShares(i, j) /\ SameMarkets(i, j)
      /\ SameConfig(i, j) /\ j.settlements = i.settlements /\ j.fee = i.fee
  BY <1>4 DEF Index, SameTotals, SameShares, SameMarkets, SameConfig
<1> QED
  BY <1>3, <1>5, Zenon DEF TellsFee, j, kept

LEMMA SettledHeard ==
  ASSUME NEW i \in Index, NEW m \in Markets, NEW u \in Users, NEW payout \in Int
  PROVE  TellsPayments(i, Heard(i, PositionSettled(m, u, payout)), m, {u}, [v \in {u} |-> payout])
<1> DEFINE j == Heard(i, PositionSettled(m, u, payout))
           entry == Append(i.settlements[m][u], payout)
           settlements == [i.settlements EXCEPT ![m] = [@ EXCEPT ![u] = entry]]
<1>1. j = [i EXCEPT !.settlements = settlements]
  BY DEF Heard, PositionSettled, Index
<1>2. entry \in Seq(Int) /\ i.settlements \in [Markets -> [Users -> Seq(Int)]]
  BY DEF Index
<1> HIDE DEF entry
<1>3. /\ settlements \in [Markets -> [Users -> Seq(Int)]]
      /\ \A n \in Markets, v \in Users :
           settlements[n][v] = IF n = m /\ v = u THEN entry ELSE i.settlements[n][v]
  BY <1>2
<1> HIDE DEF j, settlements
<1>4. j \in Index /\ j.settlements = settlements
  BY <1>1, <1>3 DEF Index
<1>5. /\ SameTotals(i, j) /\ SameShares(i, j) /\ SameMarkets(i, j)
      /\ SameConfig(i, j) /\ j.fee = i.fee /\ j.retained = i.retained
  BY <1>1 DEF Index, SameTotals, SameShares, SameMarkets, SameConfig
<1>6. \A n \in Markets, v \in Users :
        j.settlements[n][v] = IF n = m /\ v \in {u}
                              THEN Append(i.settlements[n][v], [w \in {u} |-> payout][v])
                              ELSE i.settlements[n][v]
  BY <1>3, <1>4 DEF entry
<1> QED
  BY <1>4, <1>5, <1>6 DEF TellsPayments, j

LEMMA BatchHeard ==
  ASSUME NEW i \in Index, NEW m \in Markets, NEW due, NEW payouts, DOMAIN payouts = due,
         \A v \in Users : v \in due => payouts[v] \in Int
  PROVE  TellsPayments(i, Heard(i, PositionsBatchSettled(m, payouts)), m, due, payouts)
<1> DEFINE j == Heard(i, PositionsBatchSettled(m, payouts))
           row == [v \in Users |-> IF v \in due THEN Append(i.settlements[m][v], payouts[v])
                                   ELSE i.settlements[m][v]]
           settlements == [i.settlements EXCEPT ![m] = row]
<1>1. j = [i EXCEPT !.settlements = settlements]
  BY DEF Heard, PositionsBatchSettled, Index
<1>2. i.settlements \in [Markets -> [Users -> Seq(Int)]]
  BY DEF Index
<1>3. \A v \in Users : row[v] \in Seq(Int)
  BY <1>2
<1>4. row \in [Users -> Seq(Int)]
  BY <1>3
<1>5. \A v \in Users : row[v] = IF v \in due THEN Append(i.settlements[m][v], payouts[v])
                                ELSE i.settlements[m][v]
  OBVIOUS
<1> HIDE DEF row
<1>6. /\ settlements \in [Markets -> [Users -> Seq(Int)]]
      /\ \A n \in Markets : settlements[n] = IF n = m THEN row ELSE i.settlements[n]
  BY <1>2, <1>4
<1> HIDE DEF j, settlements
<1>7. j \in Index /\ j.settlements = settlements
  BY <1>1, <1>6 DEF Index
<1>8. /\ SameTotals(i, j) /\ SameShares(i, j) /\ SameMarkets(i, j)
      /\ SameConfig(i, j) /\ j.fee = i.fee /\ j.retained = i.retained
  BY <1>1 DEF Index, SameTotals, SameShares, SameMarkets, SameConfig
<1> QED
  BY <1>5, <1>6, <1>7, <1>8 DEF TellsPayments, j

LEMMA ResolvedHeard ==
  ASSUME NEW i \in Index, NEW m \in Markets, NEW outcome \in Results
  PROVE  TellsMarket(i, Heard(i, MarketResolved(m, outcome)), m, "Resolved", outcome, i.closed)
<1> DEFINE j == Heard(i, MarketResolved(m, outcome))
           status == [i.status EXCEPT ![m] = "Resolved"]
           result == [i.result EXCEPT ![m] = outcome]
<1>1. j = [i EXCEPT !.status = status, !.result = result]
  BY DEF Heard, MarketResolved, Index
<1>2. status \in [Markets -> {"Active", "Resolved", "Canceled"}]
  BY DEF Index, Balance, Results
<1>3. result \in [Markets -> Results]
  BY DEF Index, Balance, Results
<1> HIDE DEF j, status, result
<1>4. j \in Index /\ j.status = status /\ j.result = result
  BY <1>1, <1>2, <1>3 DEF Index
<1>5. /\ SameTotals(i, j) /\ SameShares(i, j) /\ SameConfig(i, j)
      /\ j.settlements = i.settlements /\ j.fee = i.fee /\ j.retained = i.retained
  BY <1>1 DEF Index, SameTotals, SameShares, SameMarkets, SameConfig
<1> QED
  BY <1>1, <1>2, <1>3, <1>4, <1>5 DEF TellsMarket, j, status, result

LEMMA CanceledHeard ==
  ASSUME NEW i \in Index, NEW m \in Markets
  PROVE  TellsMarket(i, Heard(i, MarketCanceled(m)), m, "Canceled", i.result[m], i.closed)
<1> DEFINE j == Heard(i, MarketCanceled(m))
           status == [i.status EXCEPT ![m] = "Canceled"]
<1>1. j = [i EXCEPT !.status = status]
  BY DEF Heard, MarketCanceled, Index
<1>2. status \in [Markets -> {"Active", "Resolved", "Canceled"}]
  BY DEF Index, Balance, Results
<1> HIDE DEF j, status
<1>3. j \in Index /\ j.status = status
  BY <1>1, <1>2 DEF Index
<1>4. /\ SameTotals(i, j) /\ SameShares(i, j) /\ SameConfig(i, j)
      /\ j.settlements = i.settlements /\ j.fee = i.fee /\ j.retained = i.retained
  BY <1>1 DEF Index, SameTotals, SameShares, SameMarkets, SameConfig
<1> QED
  BY <1>1, <1>2, <1>3, <1>4 DEF TellsMarket, j, status

LEMMA ReopenedHeard ==
  ASSUME NEW i \in Index, NEW m \in Markets
  PROVE  TellsMarket(i, Heard(i, MarketReopened(m)), m, "Active", i.result[m], i.closed)
<1> DEFINE j == Heard(i, MarketReopened(m))
           status == [i.status EXCEPT ![m] = "Active"]
<1>1. j = [i EXCEPT !.status = status]
  BY DEF Heard, MarketReopened, Index
<1>2. status \in [Markets -> {"Active", "Resolved", "Canceled"}]
  BY DEF Index, Balance, Results
<1> HIDE DEF j, status
<1>3. j \in Index /\ j.status = status
  BY <1>1, <1>2 DEF Index
<1>4. /\ SameTotals(i, j) /\ SameShares(i, j) /\ SameConfig(i, j)
      /\ j.settlements = i.settlements /\ j.fee = i.fee /\ j.retained = i.retained
  BY <1>1 DEF Index, SameTotals, SameShares, SameMarkets, SameConfig
<1> QED
  BY <1>1, <1>2, <1>3, <1>4 DEF TellsMarket, j, status

LEMMA ClosedHeard ==
  ASSUME NEW i \in Index, NEW m \in Markets
  PROVE  TellsMarket(i, Heard(i, MarketClosedToDeposits(m)), m,
                     i.status[m], i.result[m], i.closed \cup {m})
<1> DEFINE j == Heard(i, MarketClosedToDeposits(m))
<1>1. j = [i EXCEPT !.closed = i.closed \cup {m}]
  BY DEF Heard, MarketClosedToDeposits, Index
<1> HIDE DEF j
<1>2. j \in Index /\ j.closed = i.closed \cup {m}
  BY <1>1 DEF Index
<1>3. /\ SameTotals(i, j) /\ SameShares(i, j) /\ SameConfig(i, j)
      /\ j.settlements = i.settlements /\ j.fee = i.fee /\ j.retained = i.retained
  BY <1>1 DEF Index, SameTotals, SameShares, SameMarkets, SameConfig
<1> QED
  BY <1>1, <1>2, <1>3 DEF TellsMarket, j

LEMMA ModeHeard ==
  ASSUME NEW i \in Index, NEW new_mode \in Modes
  PROVE  TellsConfig(i, Heard(i, EmergencyModeChanged(new_mode)),
                     new_mode, i.feeRate, i.waivers, i.treasurySet, i.tokenSet)
<1> DEFINE j == Heard(i, EmergencyModeChanged(new_mode))
<1>1. j = [i EXCEPT !.mode = new_mode]
  BY DEF Heard, EmergencyModeChanged, Index
<1> HIDE DEF j
<1>2. j \in Index /\ j.mode = new_mode
  BY <1>1 DEF Index
<1>3. /\ SameTotals(i, j) /\ SameShares(i, j) /\ SameMarkets(i, j)
      /\ j.settlements = i.settlements /\ j.fee = i.fee /\ j.retained = i.retained
  BY <1>1 DEF Index, SameTotals, SameShares, SameMarkets, SameConfig
<1> QED
  BY <1>1, <1>2, <1>3 DEF TellsConfig, j

LEMMA RateHeard ==
  ASSUME NEW i \in Index, NEW rate \in Nat
  PROVE  TellsConfig(i, Heard(i, FeeRateChangeExecuted(rate)),
                     i.mode, rate, i.waivers, i.treasurySet, i.tokenSet)
<1> DEFINE j == Heard(i, FeeRateChangeExecuted(rate))
<1>1. j = [i EXCEPT !.feeRate = rate]
  BY DEF Heard, FeeRateChangeExecuted, Index
<1> HIDE DEF j
<1>2. j \in Index /\ j.feeRate = rate
  BY <1>1 DEF Index
<1>3. /\ SameTotals(i, j) /\ SameShares(i, j) /\ SameMarkets(i, j)
      /\ j.settlements = i.settlements /\ j.fee = i.fee /\ j.retained = i.retained
  BY <1>1 DEF Index, SameTotals, SameShares, SameMarkets, SameConfig
<1> QED
  BY <1>1, <1>2, <1>3 DEF TellsConfig, j

LEMMA WaiverAddedHeard ==
  ASSUME NEW i \in Index, NEW u \in Users
  PROVE  TellsConfig(i, Heard(i, FeeWaiverAdded(u)),
                     i.mode, i.feeRate, i.waivers \cup {u}, i.treasurySet, i.tokenSet)
<1> DEFINE j == Heard(i, FeeWaiverAdded(u))
<1>1. j = [i EXCEPT !.waivers = i.waivers \cup {u}]
  BY DEF Heard, FeeWaiverAdded, Index
<1> HIDE DEF j
<1>2. j \in Index /\ j.waivers = i.waivers \cup {u}
  BY <1>1 DEF Index
<1>3. /\ SameTotals(i, j) /\ SameShares(i, j) /\ SameMarkets(i, j)
      /\ j.settlements = i.settlements /\ j.fee = i.fee /\ j.retained = i.retained
  BY <1>1 DEF Index, SameTotals, SameShares, SameMarkets, SameConfig
<1> QED
  BY <1>1, <1>2, <1>3 DEF TellsConfig, j

LEMMA WaiverRemovedHeard ==
  ASSUME NEW i \in Index, NEW u \in Users
  PROVE  TellsConfig(i, Heard(i, FeeWaiverRemoved(u)),
                     i.mode, i.feeRate, i.waivers \ {u}, i.treasurySet, i.tokenSet)
<1> DEFINE j == Heard(i, FeeWaiverRemoved(u))
<1>1. j = [i EXCEPT !.waivers = i.waivers \ {u}]
  BY DEF Heard, FeeWaiverRemoved, Index
<1> HIDE DEF j
<1>2. j \in Index /\ j.waivers = i.waivers \ {u}
  BY <1>1 DEF Index
<1>3. /\ SameTotals(i, j) /\ SameShares(i, j) /\ SameMarkets(i, j)
      /\ j.settlements = i.settlements /\ j.fee = i.fee /\ j.retained = i.retained
  BY <1>1 DEF Index, SameTotals, SameShares, SameMarkets, SameConfig
<1> QED
  BY <1>1, <1>2, <1>3 DEF TellsConfig, j

LEMMA TreasuryHeard ==
  ASSUME NEW i \in Index
  PROVE  TellsConfig(i, Heard(i, TreasurySet),
                     i.mode, i.feeRate, i.waivers, TRUE, i.tokenSet)
<1> DEFINE j == Heard(i, TreasurySet)
<1>1. j = [i EXCEPT !.treasurySet = TRUE]
  BY DEF Heard, TreasurySet, Index
<1> HIDE DEF j
<1>2. j \in Index /\ j.treasurySet = TRUE
  BY <1>1 DEF Index
<1>3. /\ SameTotals(i, j) /\ SameShares(i, j) /\ SameMarkets(i, j)
      /\ j.settlements = i.settlements /\ j.fee = i.fee /\ j.retained = i.retained
  BY <1>1 DEF Index, SameTotals, SameShares, SameMarkets, SameConfig
<1> QED
  BY <1>1, <1>2, <1>3 DEF TellsConfig, j

LEMMA TokenHeard ==
  ASSUME NEW i \in Index
  PROVE  TellsConfig(i, Heard(i, OutcomeTokenSet),
                     i.mode, i.feeRate, i.waivers, i.treasurySet, TRUE)
<1> DEFINE j == Heard(i, OutcomeTokenSet)
<1>1. j = [i EXCEPT !.tokenSet = TRUE]
  BY DEF Heard, OutcomeTokenSet, Index
<1> HIDE DEF j
<1>2. j \in Index /\ j.tokenSet = TRUE
  BY <1>1 DEF Index
<1>3. /\ SameTotals(i, j) /\ SameShares(i, j) /\ SameMarkets(i, j)
      /\ j.settlements = i.settlements /\ j.fee = i.fee /\ j.retained = i.retained
  BY <1>1 DEF Index, SameTotals, SameShares, SameMarkets, SameConfig
<1> QED
  BY <1>1, <1>2, <1>3 DEF TellsConfig, j

-------------------------------------------------------------------------------
\* The inductive invariant.

TotalsFollow ==
  \A m \in Markets, u \in Users :
    <<m, u>> \notin silent => /\ index.total[m][u] = position[m][u].total_deposited
                             /\ <<m, u>> \notin index.gaps

SharesFollow ==
  \A m \in Markets, u \in Users : index.shares[m][u] = SharesOf(position[m][u])

LocksFollow ==
  \A m \in Markets, u \in Users :
    \/ position[m][u].is_settled \/ <<m, u>> \in silent
    \/ index.locked[m][u] = position[m][u].locked_collateral

\* A position is paid when it is settled, and not before.
PaymentsFollow ==
  \A m \in Markets, u \in Users :
    IF position[m][u].is_settled THEN index.settlements[m][u] = <<paid[m][u]>>
    ELSE index.settlements[m][u] = <<>> /\ paid[m][u] = 0

\* A market without a result has not had one before: nothing takes a result back.
MarketsFollow ==
  \A m \in Markets :
    /\ \/ index.status[m] = market[m].status
       \/ Resolved(m) /\ market[m].result = Unset
    /\ index.result[m] = market[m].result
    /\ m \in index.closed <=> market[m].closed_to_deposits
    /\ ~Resolved(m) => market[m].result = Unset

\* No fee is left over from one call to the next.
ConfigFollows ==
  /\ index.retained = retained /\ index.fee = 0
  /\ index.mode = mode /\ index.feeRate = feeRate /\ index.waivers = waivers
  /\ index.treasurySet = treasurySet /\ index.tokenSet = tokenSet

IndexInv ==
  /\ index \in Index
  /\ TotalsFollow /\ SharesFollow /\ LocksFollow /\ PaymentsFollow
  /\ MarketsFollow /\ ConfigFollows

-------------------------------------------------------------------------------
\* What a call leaves alone stays followed.

LEMMA TotalsKept ==
  ASSUME TotalsFollow, SameTotals(index, index'), silent \subseteq silent',
         \A m \in Markets, u \in Users : <<m, u>> \notin silent' =>
           position'[m][u].total_deposited = position[m][u].total_deposited
  PROVE  TotalsFollow'
BY DEF TotalsFollow, SameTotals

LEMMA SharesKept ==
  ASSUME SharesFollow, LocksFollow, SameShares(index, index'), silent \subseteq silent',
         \A m \in Markets, u \in Users :
           /\ position'[m][u].yes_shares = position[m][u].yes_shares
           /\ position'[m][u].no_shares = position[m][u].no_shares
           /\ position'[m][u].locked_collateral = position[m][u].locked_collateral
           /\ position[m][u].is_settled => position'[m][u].is_settled
  PROVE  SharesFollow' /\ LocksFollow'
BY DEF SharesFollow, LocksFollow, SameShares, SharesOf

LEMMA PaymentsKept ==
  ASSUME PaymentsFollow, index'.settlements = index.settlements, UNCHANGED paid,
         \A m \in Markets, u \in Users :
           position'[m][u].is_settled = position[m][u].is_settled
  PROVE  PaymentsFollow'
BY DEF PaymentsFollow

LEMMA MarketsKept ==
  ASSUME MarketsFollow, SameMarkets(index, index'), UNCHANGED market
  PROVE  MarketsFollow'
BY DEF MarketsFollow, SameMarkets, Resolved

LEMMA ConfigKept ==
  ASSUME ConfigFollows, SameConfig(index, index'), UNCHANGED <<configVars, tokenSet, retained>>,
         index'.fee = 0, index'.retained = index.retained
  PROVE  ConfigFollows'
BY DEF ConfigFollows, SameConfig

\* The events of a withdrawal, in order, with those that are left out.
LEMMA ConcatOne ==
  ASSUME NEW S, NEW s \in Seq(S), NEW a \in S
  PROVE  /\ s \o <<a>> \in Seq(S)
         /\ DOMAIN (s \o <<a>>) = 1 .. Len(s) + 1
         /\ Len(s \o <<a>>) = Len(s) + 1
         /\ (s \o <<a>>)[Len(s) + 1] = a
         /\ \A i \in 1 .. Len(s) : (s \o <<a>>)[i] = s[i]
<1>1. s \o <<a>> = Append(s, a)
  BY AppendIsConcat
<1>2. /\ Append(s, a) \in Seq(S)
      /\ Len(Append(s, a)) = Len(s) + 1 /\ DOMAIN Append(s, a) = 1 .. Len(s) + 1
      /\ Append(s, a)[Len(s) + 1] = a
      /\ \A i \in 1 .. Len(s) : Append(s, a)[i] = s[i]
  OBVIOUS
<1> QED
  BY <1>1, <1>2, Zenon

ThreeTold(a, b, c) == <<a>> \o <<b>> \o <<c>>
TwoTold(a, c) == <<a>> \o <<>> \o <<c>>
OneTold(c) == <<>> \o <<>> \o <<c>>

LEMMA Concatenated ==
  ASSUME NEW i, NEW a, NEW b, NEW c
  PROVE  /\ Yields(i, ThreeTold(a, b, c), Heard(Heard(Heard(i, a), b), c))
         /\ Yields(i, TwoTold(a, c), Heard(Heard(i, a), c))
         /\ Yields(i, OneTold(c), Heard(i, c))
<1> DEFINE S == {a, b, c}
           ab == <<a>> \o <<b>>
           an == <<a>> \o <<>>
           nn == <<>> \o <<>>
<1>1. <<a>> \in Seq(S) /\ Len(<<a>>) = 1 /\ <<a>>[1] = a /\ a \in S /\ b \in S /\ c \in S
  OBVIOUS
<1>2. <<>> \in Seq(S) /\ Len(<<>>) = 0
  OBVIOUS
<1> HIDE DEF S
<1>3. an = <<a>> /\ nn = <<>>
  BY <1>1, <1>2, ConcatEmptySeq
<1>4. ab \in Seq(S) /\ Len(ab) = 2 /\ ab[1] = a /\ ab[2] = b
  BY <1>1, ConcatOne
<1> HIDE DEF ab, an, nn
<1>5. DOMAIN (ab \o <<c>>) = 1 .. 3 /\ (ab \o <<c>>)[1] = a /\ (ab \o <<c>>)[2] = b /\ (ab \o <<c>>)[3] = c
  <2>1. Len(ab) + 1 = 3 /\ 1 \in 1 .. Len(ab) /\ 2 \in 1 .. Len(ab)
    BY <1>4
  <2>2. /\ DOMAIN (ab \o <<c>>) = 1 .. Len(ab) + 1 /\ (ab \o <<c>>)[Len(ab) + 1] = c
        /\ \A k \in 1 .. Len(ab) : (ab \o <<c>>)[k] = ab[k]
    <3>1. ab \in Seq(S) /\ c \in S
      BY <1>1, <1>4
    <3> QED
      BY <3>1, ConcatOne
  <2> QED
    BY <1>1, <1>4, <2>1, <2>2
<1>6. DOMAIN (an \o <<c>>) = 1 .. 2 /\ (an \o <<c>>)[1] = a /\ (an \o <<c>>)[2] = c
  <2>1. Len(an) + 1 = 2 /\ 1 \in 1 .. Len(an) /\ an[1] = a /\ an \in Seq(S)
    BY <1>1, <1>3
  <2>2. /\ DOMAIN (an \o <<c>>) = 1 .. Len(an) + 1 /\ (an \o <<c>>)[Len(an) + 1] = c
        /\ \A k \in 1 .. Len(an) : (an \o <<c>>)[k] = an[k]
    BY <1>1, <2>1, ConcatOne
  <2> QED
    BY <1>1, <2>1, <2>2
<1>7. DOMAIN (nn \o <<c>>) = 1 .. 1 /\ (nn \o <<c>>)[1] = c
  <2>1. Len(nn) + 1 = 1 /\ nn \in Seq(S)
    BY <1>2, <1>3
  <2>2. /\ DOMAIN (nn \o <<c>>) = 1 .. Len(nn) + 1 /\ (nn \o <<c>>)[Len(nn) + 1] = c
        /\ \A k \in 1 .. Len(nn) : (nn \o <<c>>)[k] = nn[k]
    BY <1>1, <2>1, ConcatOne
  <2> QED
    BY <1>1, <2>1, <2>2
<1>8. FoldLeft(Heard, i, ab \o <<c>>) = Heard(Heard(Heard(i, a), b), c)
  <2>1. PICK s : s = ab \o <<c>>
    OBVIOUS
  <2>2. DOMAIN s = 1 .. 3 /\ s[1] = a /\ s[2] = b /\ s[3] = c
    BY <1>5, <2>1, Zenon
  <2>3. DOMAIN s \subseteq 1 .. 3 /\ 1 \in DOMAIN s /\ 2 \in DOMAIN s /\ 3 \in DOMAIN s
    BY <2>2
  <2> QED
    BY <2>1, <2>2, <2>3, HeardInOrder, Zenon DEF ThenHeard
<1>9. FoldLeft(Heard, i, an \o <<c>>) = Heard(Heard(i, a), c)
  <2>1. PICK s : s = an \o <<c>>
    OBVIOUS
  <2>2. DOMAIN s = 1 .. 2 /\ s[1] = a /\ s[2] = c
    BY <1>6, <2>1, Zenon
  <2>3. DOMAIN s \subseteq 1 .. 3 /\ 1 \in DOMAIN s /\ 2 \in DOMAIN s /\ 3 \notin DOMAIN s
    BY <2>2
  <2> QED
    BY <2>1, <2>2, <2>3, HeardInOrder, Zenon DEF ThenHeard
<1>10. FoldLeft(Heard, i, nn \o <<c>>) = Heard(i, c)
  <2>1. PICK s : s = nn \o <<c>>
    OBVIOUS
  <2>2. DOMAIN s = 1 .. 1 /\ s[1] = c
    BY <1>7, <2>1, Zenon
  <2>3. DOMAIN s \subseteq 1 .. 3 /\ 1 \in DOMAIN s /\ 2 \notin DOMAIN s /\ 3 \notin DOMAIN s
    BY <2>2
  <2> QED
    BY <2>1, <2>2, <2>3, HeardInOrder, Zenon DEF ThenHeard
<1> QED
  BY <1>8, <1>9, <1>10, Zenon DEF ab, an, nn, ThreeTold, TwoTold, OneTold, Yields

\* A new total is followed by an event that tells it, whatever fees j told before.
LEMMA TotalStep ==
  ASSUME IndexInv, NEW m \in Markets, NEW u \in Users, NEW p, NEW j, NEW expected,
         \A n \in Markets, v \in Users :
           position'[n][v] = IF n = m /\ v = u THEN p ELSE position[n][v],
         /\ p.yes_shares = position[m][u].yes_shares
         /\ p.no_shares = position[m][u].no_shares
         /\ p.locked_collateral = position[m][u].locked_collateral
         /\ p.is_settled = position[m][u].is_settled,
         SameTotals(index, j), SameShares(index, j), SameMarkets(index, j),
         SameConfig(index, j), j.settlements = index.settlements, j.retained = retained',
         TellsTotal(j, index', m, u, expected, p.total_deposited),
         <<m, u>> \notin silent => expected = p.total_deposited,
         UNCHANGED <<silent, market, paid, configVars, tokenSet>>
  PROVE  IndexInv'
<1>1. TotalsFollow'
  BY DEF IndexInv, TotalsFollow, TellsTotal, SameTotals
<1>2. SameShares(index, index') /\ SameMarkets(index, index') /\ SameConfig(index, index')
  BY DEF TellsTotal, SameShares, SameMarkets, SameConfig
<1>3. SharesFollow' /\ LocksFollow'
  BY <1>2, SharesKept DEF IndexInv
<1>4. PaymentsFollow'
  BY PaymentsKept DEF IndexInv, TellsTotal
<1>5. MarketsFollow'
  BY <1>2, MarketsKept DEF IndexInv
<1>6. ConfigFollows'
  BY <1>2 DEF IndexInv, ConfigFollows, SameConfig, TellsTotal
<1> QED
  BY <1>1, <1>3, <1>4, <1>5, <1>6 DEF IndexInv, TellsTotal

LEMMA DepositFollowed ==
  ASSUME IndexInv, LedgerInv, NEW m \in Markets, NEW u \in Users, NEW amount \in AmountInputs,
         Deposit(u, m, amount), Publish(DepositEvents(u, m, amount)), UNCHANGED silent
  PROVE  IndexInv'
<1> DEFINE new == position[m][u].total_deposited + amount
           p == [position[m][u] EXCEPT !.total_deposited = @ + amount, !.stored = TRUE]
<1>1. position[m][u] \in Position
  BY DEF LedgerInv, LedgerTyped
<1>2. amount \in Int /\ new \in Int
  BY <1>1, ConstantsAssumption DEF Position
<1>3. position' = [position EXCEPT ![m] = [@ EXCEPT ![u] = p]]
  BY <1>1 DEF Deposit, LedgerInv, LedgerTyped, Position
<1>4. /\ p.yes_shares = position[m][u].yes_shares
      /\ p.no_shares = position[m][u].no_shares
      /\ p.locked_collateral = position[m][u].locked_collateral
      /\ p.is_settled = position[m][u].is_settled
      /\ p.total_deposited = new
  BY <1>1 DEF Position
<1> HIDE DEF p, new
<1>5. \A n \in Markets, v \in Users :
        position'[n][v] = IF n = m /\ v = u THEN p ELSE position[n][v]
  <2>1. position \in [Markets -> [Users -> Position]]
    BY DEF LedgerInv, LedgerTyped
  <2> QED
    BY <1>3, <2>1
<1>6. index' = Heard(index, CollateralDeposited(u, m, amount, new))
  <2>1. position'[m][u].total_deposited = new
    BY <1>4, <1>5
  <2> QED
    BY <2>1, HeardOne, Zenon DEF Publish, DepositEvents
<1>7. TellsTotal(index, index', m, u, index.total[m][u] + amount, p.total_deposited)
  <2>1. index \in Index
    BY DEF IndexInv
  <2>2. TellsTotal(index, index', m, u, index.total[m][u] + amount, new)
    BY <1>2, <1>6, <2>1, DepositedHeard, Zenon
  <2> QED
    BY <1>4, <2>2, Zenon
<1>8. <<m, u>> \notin silent => index.total[m][u] + amount = p.total_deposited
  BY <1>4 DEF IndexInv, TotalsFollow, new
<1>9. UNCHANGED <<silent, market, paid, configVars, tokenSet>> /\ index.retained = retained'
  BY DEF Deposit, IndexInv, ConfigFollows
<1>10. SameTotals(index, index) /\ SameShares(index, index) /\ SameMarkets(index, index)
       /\ SameConfig(index, index)
  BY Zenon DEF SameTotals, SameShares, SameMarkets, SameConfig
<1>11. PICK expected : expected = index.total[m][u] + amount
  OBVIOUS
<1>12. TellsTotal(index, index', m, u, expected, p.total_deposited)
       /\ (<<m, u>> \notin silent => expected = p.total_deposited)
  BY <1>7, <1>8, <1>11, Zenon
<1> QED
  BY <1>4, <1>5, <1>9, <1>10, <1>12, TotalStep

\* What a withdrawal announces.
Told(m, u, amount, fee, new, available) ==
  (IF fee > 0 THEN <<FeeCalculated(m, u, fee, available)>> ELSE <<>>)
    \o (IF fee > 0 /\ ~treasurySet THEN <<FeeRetainedNoTreasury(m, u, fee)>> ELSE <<>>)
    \o <<CollateralWithdrawn(u, m, amount, new)>>

LEMMA FeesHeard ==
  ASSUME IndexInv, NEW m \in Markets, NEW u \in Users, NEW amount \in Int, NEW fee \in Nat,
         NEW new \in Int, NEW available,
         Yields(index, Told(m, u, amount, fee, new, available), index')
  PROVE  \E j : /\ TellsTotal(j, index', m, u, index.total[m][u] - amount - fee, new)
                /\ SameTotals(index, j) /\ SameShares(index, j) /\ SameMarkets(index, j)
                /\ SameConfig(index, j) /\ j.settlements = index.settlements
                /\ j.retained = index.retained + (IF treasurySet THEN 0 ELSE fee)
<1> DEFINE F == FeeCalculated(m, u, fee, available)
           R == FeeRetainedNoTreasury(m, u, fee)
           W == CollateralWithdrawn(u, m, amount, new)
           f == Heard(index, F)
           r == Heard(f, R)
<1>1. index \in Index /\ index.retained \in Int /\ index.fee = 0 /\ fee \in Int
  <2>1. index \in Index /\ index.fee = 0
    BY Zenon DEF IndexInv, ConfigFollows
  <2>2. \A i \in Index : i.retained \in Int
    BY DEF Index
  <2> QED
    BY <2>1, <2>2
<1>2. TellsFee(index, f, fee, 0)
  BY <1>1, FeeHeard, Zenon
<1>3. f \in Index
  BY <1>2, Zenon DEF TellsFee
<1>4. TellsFee(f, r, f.fee, fee)
  BY <1>1, <1>3, RetainedHeard, Zenon
<1>5. r \in Index
  BY <1>4, Zenon DEF TellsFee
<1> HIDE DEF F, R, f, r
<1>6. ASSUME NEW j \in Index, index' = Heard(j, W)
      PROVE  TellsTotal(j, index', m, u, j.total[m][u] - amount - j.fee, new)
  BY <1>6, WithdrawnHeard, Zenon
<1> HIDE DEF W
<1>7. CASE fee > 0 /\ ~treasurySet
  <2>1. Yields(index, ThreeTold(F, R, W), index')
    BY <1>7, Zenon DEF F, R, W, ThreeTold, TwoTold, OneTold, Told
  <2>2. index' = Heard(r, W)
    <3>1. Yields(index, ThreeTold(F, R, W), Heard(Heard(Heard(index, F), R), W))
      BY Concatenated, Zenon
    <3> QED
      BY <2>1, <3>1, Zenon DEF r, f, Yields
  <2>4. TellsTotal(r, index', m, u, r.total[m][u] - amount - r.fee, new)
    BY <1>5, <1>6, <2>2, Zenon
  <2>5. /\ r.total = index.total /\ r.fee = fee
        /\ r.retained = index.retained + fee
        /\ SameTotals(index, r) /\ SameShares(index, r) /\ SameMarkets(index, r)
        /\ SameConfig(index, r) /\ r.settlements = index.settlements
    BY <1>1, <1>2, <1>4 DEF TellsFee, SameTotals, SameShares, SameMarkets, SameConfig
  <2> QED
    BY <1>7, <2>4, <2>5, Zenon
<1>8. CASE fee > 0 /\ treasurySet
  <2>1. Yields(index, TwoTold(F, W), index')
    BY <1>8, Zenon DEF F, R, W, ThreeTold, TwoTold, OneTold, Told
  <2>2. index' = Heard(f, W)
    <3>1. Yields(index, TwoTold(F, W), Heard(Heard(index, F), W))
      BY Concatenated, Zenon
    <3> QED
      BY <2>1, <3>1, Zenon DEF f, Yields
  <2>4. TellsTotal(f, index', m, u, f.total[m][u] - amount - f.fee, new)
    BY <1>3, <1>6, <2>2, Zenon
  <2>5. /\ f.total = index.total /\ f.fee = fee
        /\ f.retained = index.retained + 0
        /\ SameTotals(index, f) /\ SameShares(index, f) /\ SameMarkets(index, f)
        /\ SameConfig(index, f) /\ f.settlements = index.settlements
    BY <1>1, <1>2 DEF TellsFee, SameTotals, SameShares, SameMarkets, SameConfig
  <2> QED
    BY <1>8, <2>4, <2>5, Zenon
<1>9. CASE ~(fee > 0)
  <2>1. Yields(index, OneTold(W), index')
    BY <1>9, Zenon DEF F, R, W, ThreeTold, TwoTold, OneTold, Told
  <2>2. index' = Heard(index, W)
    <3>1. Yields(index, OneTold(W), Heard(index, W))
      BY Concatenated, Zenon
    <3> QED
      BY <2>1, <3>1, Zenon DEF Yields
  <2>4. TellsTotal(index, index', m, u, index.total[m][u] - amount - index.fee, new)
    BY <1>1, <1>6, <2>2, Zenon
  <2>5. fee = 0 /\ index.fee = fee
    BY <1>1, <1>9
  <2>6. index.retained = index.retained + (IF treasurySet THEN 0 ELSE fee)
    BY <1>1, <2>5
  <2>7. /\ SameTotals(index, index) /\ SameShares(index, index) /\ SameMarkets(index, index)
        /\ SameConfig(index, index)
    BY Zenon DEF SameTotals, SameShares, SameMarkets, SameConfig
  <2>8. TellsTotal(index, index', m, u, index.total[m][u] - amount - fee, new)
    BY <2>4, <2>5, Zenon
  <2> QED
    BY <2>6, <2>7, <2>8, Zenon
<1> QED
  BY <1>7, <1>8, <1>9, Zenon

LEMMA WithdrawFollowed ==
  ASSUME IndexInv, LedgerInv, NEW m \in Markets, NEW u \in Users, NEW amount \in AmountInputs,
         Withdraw(u, m, amount), Publish(WithdrawEvents(u, m, amount)), UNCHANGED silent
  PROVE  IndexInv'
<1> DEFINE fee == WithdrawalFee(u, amount)
           new == position[m][u].total_deposited - (amount + fee)
           p == [position[m][u] EXCEPT !.total_deposited = @ - (amount + fee)]
<1>1. position[m][u] \in Position /\ feeRate \in Nat
  BY DEF LedgerInv, LedgerTyped
<1>2. amount \in Nat
  BY ConstantsAssumption DEF Withdraw
<1>3. fee \in Nat
  BY <1>1, <1>2, ScaledIsNat DEF WithdrawalFee
<1>4. position' = [position EXCEPT ![m] = [@ EXCEPT ![u] = p]]
  <2>1. position' = [position EXCEPT ![m][u].total_deposited = @ - (amount + fee)]
    BY DEF Withdraw, DebitPosition
  <2> HIDE DEF fee
  <2> QED
    BY <1>1, <2>1 DEF LedgerInv, LedgerTyped, Position
<1>5. retained' = retained + (IF treasurySet THEN 0 ELSE fee)
  <2>1. CASE treasurySet
    <3>1. retained' = retained
      BY <2>1 DEF Withdraw, RouteFee
    <3>2. retained \in Int
      BY DEF IndexInv, Index, ConfigFollows
    <3> QED
      BY <2>1, <3>1, <3>2
  <2>2. CASE ~treasurySet
    BY <2>2, Zenon DEF Withdraw, RouteFee
  <2> QED
    BY <2>1, <2>2
<1>6. Publish((IF fee > 0 THEN <<FeeCalculated(m, u, fee, Available(m, u))>> ELSE <<>>)
              \o (IF fee > 0 /\ ~treasurySet THEN <<FeeRetainedNoTreasury(m, u, fee)>> ELSE <<>>)
              \o <<CollateralWithdrawn(u, m, amount, position'[m][u].total_deposited)>>)
  BY Zenon DEF WithdrawEvents
<1> HIDE DEF fee
<1>7. /\ p.yes_shares = position[m][u].yes_shares
      /\ p.no_shares = position[m][u].no_shares
      /\ p.locked_collateral = position[m][u].locked_collateral
      /\ p.is_settled = position[m][u].is_settled
      /\ p.total_deposited = new
  BY <1>1 DEF Position
<1>8. new \in Int /\ amount \in Int
  BY <1>1, <1>2, <1>3 DEF Position
<1> HIDE DEF p, new
<1>9. \A n \in Markets, v \in Users :
        position'[n][v] = IF n = m /\ v = u THEN p ELSE position[n][v]
  <2>1. position \in [Markets -> [Users -> Position]]
    BY DEF LedgerInv, LedgerTyped
  <2> QED
    BY <1>4, <2>1
<1>10. position'[m][u].total_deposited = new
  BY <1>7, <1>9
<1>11. PICK j : /\ TellsTotal(j, index', m, u, index.total[m][u] - amount - fee, new)
                /\ SameTotals(index, j) /\ SameShares(index, j) /\ SameMarkets(index, j)
                /\ SameConfig(index, j) /\ j.settlements = index.settlements
                /\ j.retained = index.retained + (IF treasurySet THEN 0 ELSE fee)
  <2>1. PICK available : available = Available(m, u)
    OBVIOUS
  <2>2. Yields(index, Told(m, u, amount, fee, new, available), index')
    BY <1>6, <1>10, <2>1, Zenon DEF Publish, Yields, Told
  <2> QED
    BY <1>3, <1>8, <2>2, FeesHeard, Zenon
<1>12. <<m, u>> \notin silent => index.total[m][u] - amount - fee = new
  BY <1>1, <1>2, <1>3 DEF IndexInv, TotalsFollow, new, Position
<1>13. UNCHANGED <<silent, market, paid, configVars, tokenSet>>
  BY DEF Withdraw
<1>14. j.retained = retained'
  BY <1>5, <1>11 DEF IndexInv, ConfigFollows
<1>15. PICK expected : expected = index.total[m][u] - amount - fee
  OBVIOUS
<1>16. TellsTotal(j, index', m, u, expected, p.total_deposited)
       /\ (<<m, u>> \notin silent => expected = p.total_deposited)
  BY <1>7, <1>11, <1>12, <1>15, Zenon
<1> QED
  BY <1>7, <1>9, <1>11, <1>13, <1>14, <1>16, TotalStep

-------------------------------------------------------------------------------
\* Shares and locks of the users W of m are told as storage holds them after the call.
TellsUpdates(i, j, m, W) ==
  /\ j \in Index
  /\ \A n \in Markets, u \in Users :
       /\ j.shares[n][u] = IF n = m /\ u \in W THEN SharesOf(position'[n][u])
                           ELSE i.shares[n][u]
       /\ j.locked[n][u] = IF n = m /\ u \in W THEN position'[n][u].locked_collateral
                           ELSE i.locked[n][u]
  /\ SameTotals(i, j) /\ SameMarkets(i, j) /\ SameConfig(i, j) /\ j.settlements = i.settlements
  /\ j.fee = i.fee /\ j.retained = i.retained

LEMMA UpdatedHeard ==
  ASSUME NEW i \in Index, NEW m \in Markets, NEW u \in Users, position'[m][u] \in Position
  PROVE  TellsUpdates(i, Heard(i, Updated(m, u)), m, {u})
<1> DEFINE p == position'[m][u]
           j == Heard(i, Updated(m, u))
<1>1. p.yes_shares \in Int /\ p.no_shares \in Int /\ p.locked_collateral \in Int
  BY DEF Position
<1>2. j = Heard(i, PositionUpdated(m, u, p.yes_shares, p.no_shares, p.locked_collateral))
  BY Zenon DEF Updated
<1> HIDE DEF j
<1>3. TellsPosition(i, j, m, u, [yes |-> p.yes_shares, no |-> p.no_shares], p.locked_collateral)
  BY <1>1, <1>2, PositionHeard
<1>4. TellsUpdates(i, j, m, {u})
  BY <1>3 DEF TellsPosition, TellsUpdates, SharesOf
<1> QED
  BY <1>4 DEF j

LEMMA BothHeard ==
  ASSUME NEW i \in Index, NEW m \in Markets, NEW u \in Users, NEW v \in Users,
         position'[m][u] \in Position, position'[m][v] \in Position
  PROVE  TellsUpdates(i, Heard(Heard(i, Updated(m, u)), Updated(m, v)), m, {u, v})
<1> DEFINE j == Heard(i, Updated(m, u))
           k == Heard(j, Updated(m, v))
<1>1. TellsUpdates(i, j, m, {u})
  BY UpdatedHeard
<1> HIDE DEF j
<1>2. j \in Index
  BY <1>1 DEF TellsUpdates
<1>3. TellsUpdates(j, k, m, {v})
  BY <1>2, UpdatedHeard
<1> HIDE DEF k
<1>4. TellsUpdates(i, k, m, {u, v})
  BY <1>1, <1>3 DEF TellsUpdates, SameTotals, SameMarkets, SameConfig
<1> QED
  BY <1>4 DEF k, j

\* A call that only changes shares and locks, and tells them, or that moves deposits
\* in silence.
LEMMA UpdatesFollowed ==
  ASSUME IndexInv, NEW m \in Markets, NEW W, TellsUpdates(index, index', m, W),
         \A n \in Markets, u \in Users :
           /\ n # m \/ u \notin W => position'[n][u] = position[n][u]
           /\ position'[n][u].is_settled = position[n][u].is_settled
           /\ <<n, u>> \notin silent' =>
                position'[n][u].total_deposited = position[n][u].total_deposited,
         silent \subseteq silent',
         UNCHANGED <<market, paid, configVars, tokenSet, retained>>
  PROVE  IndexInv'
<1>1. /\ index' \in Index /\ SameTotals(index, index') /\ SameMarkets(index, index')
      /\ SameConfig(index, index') /\ index'.settlements = index.settlements
      /\ index'.fee = 0 /\ index'.retained = index.retained
  BY DEF TellsUpdates, IndexInv, ConfigFollows
<1>2. TotalsFollow'
  BY <1>1, TotalsKept DEF IndexInv
<1>3. SharesFollow'
  <2> SUFFICES ASSUME NEW n \in Markets, NEW u \in Users
               PROVE  index'.shares[n][u] = SharesOf(position'[n][u])
    BY DEF SharesFollow
  <2>1. index'.shares[n][u] = IF n = m /\ u \in W THEN SharesOf(position'[n][u])
                              ELSE index.shares[n][u]
    BY Zenon DEF TellsUpdates
  <2>2. index.shares[n][u] = SharesOf(position[n][u])
    BY Zenon DEF IndexInv, SharesFollow
  <2>3. n # m \/ u \notin W => position'[n][u] = position[n][u]
    OBVIOUS
  <2> QED
    BY <2>1, <2>2, <2>3, Zenon
<1>4. LocksFollow'
  <2> SUFFICES ASSUME NEW n \in Markets, NEW u \in Users
               PROVE  \/ position'[n][u].is_settled \/ <<n, u>> \in silent'
                      \/ index'.locked[n][u] = position'[n][u].locked_collateral
    BY DEF LocksFollow
  <2>1. index'.locked[n][u] = IF n = m /\ u \in W THEN position'[n][u].locked_collateral
                              ELSE index.locked[n][u]
    BY Zenon DEF TellsUpdates
  <2>2. \/ position[n][u].is_settled \/ <<n, u>> \in silent
        \/ index.locked[n][u] = position[n][u].locked_collateral
    BY Zenon DEF IndexInv, LocksFollow
  <2>3. /\ n # m \/ u \notin W => position'[n][u] = position[n][u]
        /\ position'[n][u].is_settled = position[n][u].is_settled
    OBVIOUS
  <2> QED
    BY <2>1, <2>2, <2>3
<1>5. PaymentsFollow'
  BY <1>1, PaymentsKept DEF IndexInv
<1>6. MarketsFollow' /\ ConfigFollows'
  BY <1>1, MarketsKept, ConfigKept DEF IndexInv
<1> QED
  BY <1>1, <1>2, <1>3, <1>4, <1>5, <1>6 DEF IndexInv

LEMMA WithSharesDeposit ==
  ASSUME NEW p \in Position, NEW yes, NEW no, NEW price
  PROVE  /\ WithShares(p, yes, no, price).is_settled = p.is_settled
         /\ WithShares(p, yes, no, price).total_deposited = p.total_deposited
BY DEF WithShares, Position

LEMMA TradeFollowed ==
  ASSUME IndexInv, LedgerInv, NEW m \in Markets, NEW u \in Users,
         NEW yes_delta \in DeltaInputs, NEW no_delta \in DeltaInputs,
         NEW price \in PriceInputs, Trade(u, m, yes_delta, no_delta, price),
         Publish(<<Updated(m, u)>>), UNCHANGED silent
  PROVE  IndexInv'
<1> DEFINE yes == position[m][u].yes_shares + yes_delta
           no == position[m][u].no_shares + no_delta
           p == WithShares(position[m][u], yes, no, price)
<1>1. position \in [Markets -> [Users -> Position]] /\ position[m][u] \in Position
  BY DEF LedgerInv, LedgerTyped
<1>2. LedgerInv'
  BY TradeKeeps
<1>3. position'[m][u] \in Position
  BY <1>2 DEF LedgerInv, LedgerTyped
<1>4. position' = [position EXCEPT ![m] = [@ EXCEPT ![u] = p]]
  BY DEF Trade
<1>5. p.is_settled = position[m][u].is_settled /\ p.total_deposited = position[m][u].total_deposited
  BY <1>1, WithSharesDeposit
<1> HIDE DEF p
<1>6. \A n \in Markets, v \in Users :
        position'[n][v] = IF n = m /\ v = u THEN p ELSE position[n][v]
  BY <1>1, <1>4
<1>7. index' = Heard(index, Updated(m, u))
  BY HeardOne, Zenon DEF Publish
<1>8. TellsUpdates(index, index', m, {u})
  BY <1>3, <1>7, UpdatedHeard DEF IndexInv
<1>9. \A n \in Markets, v \in Users :
        /\ n # m \/ v \notin {u} => position'[n][v] = position[n][v]
        /\ position'[n][v].is_settled = position[n][v].is_settled
        /\ <<n, v>> \notin silent' =>
             position'[n][v].total_deposited = position[n][v].total_deposited
  BY <1>5, <1>6
<1>10. UNCHANGED <<market, paid, configVars, tokenSet, retained>>
  BY DEF Trade
<1> QED
  BY <1>8, <1>9, <1>10, UpdatesFollowed

LEMMA TransferFollowed ==
  ASSUME IndexInv, LedgerInv, NEW m \in Markets, NEW from \in Users, NEW to \in Users,
         NEW yes \in DeltaInputs, NEW no \in DeltaInputs, NEW price \in PriceInputs,
         NEW request \in RequestIds, Transfer(m, from, to, yes, no, price, request),
         Publish(<<Updated(m, from), Updated(m, to)>>), UNCHANGED silent
  PROVE  IndexInv'
<1> DEFINE source == position[m][from]
           dest == position[m][to]
           p == WithShares(source, source.yes_shares - yes, source.no_shares - no, price)
           q == WithShares(dest, dest.yes_shares + yes, dest.no_shares + no, price)
<1>1. position \in [Markets -> [Users -> Position]] /\ source \in Position /\ dest \in Position
  BY DEF LedgerInv, LedgerTyped
<1>2. LedgerInv'
  BY TransferKeeps
<1>3. position'[m][from] \in Position /\ position'[m][to] \in Position
  BY <1>2 DEF LedgerInv, LedgerTyped
<1>4. position' = [position EXCEPT ![m][from] = p, ![m][to] = q]
  BY DEF Transfer
<1>5. /\ p.is_settled = source.is_settled /\ p.total_deposited = source.total_deposited
      /\ q.is_settled = dest.is_settled /\ q.total_deposited = dest.total_deposited
  BY <1>1, WithSharesDeposit
<1> HIDE DEF p, q
<1>6. \A n \in Markets, u \in Users :
        position'[n][u] = IF n = m /\ u = to THEN q
                          ELSE IF n = m /\ u = from THEN p ELSE position[n][u]
  BY <1>1, <1>4
<1>7. index' = Heard(Heard(index, Updated(m, from)), Updated(m, to))
  <2>1. Yields(index, <<Updated(m, from), Updated(m, to)>>, index')
    BY Zenon DEF Publish, Yields
  <2>2. Yields(index, <<Updated(m, from), Updated(m, to)>>,
               Heard(Heard(index, Updated(m, from)), Updated(m, to)))
    BY HeardTwo, Zenon
  <2> QED
    BY <2>1, <2>2, Zenon DEF Yields
<1>8. TellsUpdates(index, index', m, {from, to})
  BY <1>3, <1>7, BothHeard DEF IndexInv
<1>9. \A n \in Markets, v \in Users :
        /\ n # m \/ v \notin {from, to} => position'[n][v] = position[n][v]
        /\ position'[n][v].is_settled = position[n][v].is_settled
        /\ <<n, v>> \notin silent' =>
             position'[n][v].total_deposited = position[n][v].total_deposited
  BY <1>5, <1>6
<1>10. UNCHANGED <<market, paid, configVars, tokenSet, retained>>
  BY DEF Transfer
<1> QED
  BY <1>8, <1>9, <1>10, UpdatesFollowed

LEMMA MergeFollowed ==
  ASSUME IndexInv, LedgerInv, NEW m \in Markets, NEW owner \in Users, NEW primary \in Users,
         NEW other \in Users, NEW price \in PriceInputs, NEW request \in RequestIds,
         Merge(m, owner, primary, other, price, request),
         Publish(<<Updated(m, primary), Updated(m, other)>>),
         silent' = silent \cup {<<m, u>> : u \in {v \in Users :
           position'[m][v].total_deposited # position[m][v].total_deposited}}
  PROVE  IndexInv'
<1> DEFINE p == Merged(position[m][primary], position[m][other], price)
           q == Emptied(position[m][other])
<1>1. /\ position \in [Markets -> [Users -> Position]]
      /\ position[m][primary] \in Position /\ position[m][other] \in Position
      /\ ValidMarketPrice(price)
  BY DEF LedgerInv, LedgerTyped, Merge
<1>2. LedgerInv'
  BY MergeKeeps
<1>3. position'[m][primary] \in Position /\ position'[m][other] \in Position
  BY <1>2 DEF LedgerInv, LedgerTyped
<1>4. position' = [position EXCEPT ![m][primary] = p, ![m][other] = q]
  BY DEF Merge
<1>5. p.is_settled = position[m][primary].is_settled /\ q.is_settled = position[m][other].is_settled
  BY <1>1, MergedTyped
<1> HIDE DEF p, q
<1>6. \A n \in Markets, u \in Users :
        position'[n][u] = IF n = m /\ u = other THEN q
                          ELSE IF n = m /\ u = primary THEN p ELSE position[n][u]
  BY <1>1, <1>4
<1>7. index' = Heard(Heard(index, Updated(m, primary)), Updated(m, other))
  <2>1. Yields(index, <<Updated(m, primary), Updated(m, other)>>, index')
    BY Zenon DEF Publish, Yields
  <2>2. Yields(index, <<Updated(m, primary), Updated(m, other)>>,
               Heard(Heard(index, Updated(m, primary)), Updated(m, other)))
    BY HeardTwo, Zenon
  <2> QED
    BY <2>1, <2>2, Zenon DEF Yields
<1>8. TellsUpdates(index, index', m, {primary, other})
  BY <1>3, <1>7, BothHeard DEF IndexInv
<1>9. \A n \in Markets, v \in Users :
        /\ n # m \/ v \notin {primary, other} => position'[n][v] = position[n][v]
        /\ position'[n][v].is_settled = position[n][v].is_settled
        /\ <<n, v>> \notin silent' =>
             position'[n][v].total_deposited = position[n][v].total_deposited
  BY <1>5, <1>6
<1>10. UNCHANGED <<market, paid, configVars, tokenSet, retained>>
  BY DEF Merge
<1>11. silent \subseteq silent'
  OBVIOUS
<1> QED
  BY <1>8, <1>9, <1>10, <1>11, UpdatesFollowed

LEMMA RefundFollowed ==
  ASSUME IndexInv, LedgerInv, NEW m \in Markets, NEW u \in Users, RefundCanceled(u, m),
         UNCHANGED index,
         silent' = silent \cup {<<m, w>> : w \in {v \in Users :
           position'[m][v].total_deposited # position[m][v].total_deposited}}
  PROVE  IndexInv'
<1> DEFINE p == [position[m][u] EXCEPT !.total_deposited = 0, !.locked_collateral = 0]
<1>1. position \in [Markets -> [Users -> Position]] /\ position[m][u] \in Position
  BY DEF LedgerInv, LedgerTyped
<1>2. position' = [position EXCEPT ![m] = [@ EXCEPT ![u] = p]]
  BY <1>1 DEF RefundCanceled, Position
<1>3. /\ p.yes_shares = position[m][u].yes_shares /\ p.no_shares = position[m][u].no_shares
      /\ p.is_settled = position[m][u].is_settled /\ p.total_deposited = 0
      /\ position[m][u].total_deposited > 0
  BY <1>1 DEF Position, RefundCanceled
<1> HIDE DEF p
<1>4. \A n \in Markets, v \in Users :
        position'[n][v] = IF n = m /\ v = u THEN p ELSE position[n][v]
  BY <1>1, <1>2
<1>5. <<m, u>> \in silent' /\ silent \subseteq silent'
  BY <1>3, <1>4
<1>6. /\ SameTotals(index, index') /\ SameMarkets(index, index') /\ SameConfig(index, index')
      /\ index'.settlements = index.settlements /\ index'.fee = 0
      /\ index'.retained = index.retained
  BY DEF SameTotals, SameMarkets, SameConfig, IndexInv, ConfigFollows
<1>7. \A n \in Markets, v \in Users : <<n, v>> \notin silent' =>
        position'[n][v].total_deposited = position[n][v].total_deposited
  BY <1>4, <1>5
<1>8. TotalsFollow'
  BY <1>5, <1>6, <1>7, TotalsKept DEF IndexInv
<1>9. SharesFollow'
  BY <1>3, <1>4 DEF IndexInv, SharesFollow, SharesOf
<1>10. LocksFollow'
  <2> SUFFICES ASSUME NEW n \in Markets, NEW v \in Users
               PROVE  \/ position'[n][v].is_settled \/ <<n, v>> \in silent'
                      \/ index'.locked[n][v] = position'[n][v].locked_collateral
    BY DEF LocksFollow
  <2>1. CASE n = m /\ v = u
    BY <1>5, <2>1
  <2>2. CASE ~(n = m /\ v = u)
    <3>1. position'[n][v] = position[n][v]
      BY <1>4, <2>2
    <3> QED
      BY <1>5, <3>1 DEF IndexInv, LocksFollow
  <2> QED
    BY <2>1, <2>2
<1>11. UNCHANGED <<market, paid, configVars, tokenSet, retained>>
  BY DEF RefundCanceled
<1>12. PaymentsFollow'
  BY <1>3, <1>4, <1>6, <1>11, PaymentsKept DEF IndexInv
<1>13. MarketsFollow' /\ ConfigFollows'
  BY <1>6, <1>11, MarketsKept, ConfigKept DEF IndexInv
<1> QED
  BY <1>8, <1>9, <1>10, <1>12, <1>13 DEF IndexInv

-------------------------------------------------------------------------------
\* What settlement does to the positions and payments: Due is whom this call pays.
Due(m, users) == {u \in users : Payable(m, u)}

Settles(m, W) ==
  \A n \in Markets, v \in Users :
    IF n = m /\ v \in W
    THEN /\ ~position[n][v].is_settled /\ position'[n][v].is_settled
         /\ SharesOf(position'[n][v]) = SharesOf(position[n][v])
         /\ position'[n][v].total_deposited = position[n][v].total_deposited
         /\ Payout(position[n][v], market[n].result) \in Int
         /\ paid'[n][v] = paid[n][v] + Payout(position[n][v], market[n].result)
    ELSE position'[n][v] = position[n][v] /\ paid'[n][v] = paid[n][v]

LEMMA SettleAllSettles ==
  ASSUME LedgerInv, NEW m \in Markets, NEW users, SettleAll(m, users)
  PROVE  Settles(m, Due(m, users))
<1> DEFINE W == Due(m, users)
           payout == [u \in Users |-> IF u \in W THEN Payout(position[m][u], market[m].result)
                                      ELSE 0]
           settled(u) == IF u \in W THEN [position[m][u] EXCEPT !.is_settled = TRUE]
                         ELSE position[m][u]
<1>1. /\ position \in [Markets -> [Users -> Position]]
      /\ paid \in [Markets -> [Users -> Int]]
  BY DEF LedgerInv, LedgerTyped
<1>2. /\ position' = [position EXCEPT ![m] = [u \in Users |-> settled(u)]]
      /\ paid' = [paid EXCEPT ![m] = [u \in Users |-> paid[m][u] + payout[u]]]
  BY DEF SettleAll, Due
<1>3. \A u \in W : ~position[m][u].is_settled
  BY DEF Payable, Due
<1>4. \A u \in Users :
        /\ Payout(position[m][u], market[m].result) \in Int
        /\ u \in W => payout[u] = Payout(position[m][u], market[m].result)
        /\ u \notin W => payout[u] = 0
  BY <1>1 DEF Payout, Position
<1>5. ASSUME NEW u \in Users, u \in W
      PROVE  /\ settled(u).is_settled /\ SharesOf(settled(u)) = SharesOf(position[m][u])
             /\ settled(u).total_deposited = position[m][u].total_deposited
  <2>1. position[m][u] \in Position
    BY <1>1
  <2>2. settled(u) = [position[m][u] EXCEPT !.is_settled = TRUE]
    BY <1>5, Zenon
  <2> HIDE DEF settled
  <2> QED
    BY <2>1, <2>2 DEF SharesOf, Position
<1>6. \A u \in Users : u \notin W => settled(u) = position[m][u]
  BY Zenon
<1> HIDE DEF payout, settled, W
<1>7. \A n \in Markets, u \in Users :
        /\ position'[n][u] = IF n = m THEN settled(u) ELSE position[n][u]
        /\ paid'[n][u] = IF n = m THEN paid[m][u] + payout[u] ELSE paid[n][u]
  BY <1>1, <1>2
<1>8. SUFFICES ASSUME NEW n \in Markets, NEW v \in Users
               PROVE
    IF n = m /\ v \in W
    THEN /\ ~position[n][v].is_settled /\ position'[n][v].is_settled
         /\ SharesOf(position'[n][v]) = SharesOf(position[n][v])
         /\ position'[n][v].total_deposited = position[n][v].total_deposited
         /\ Payout(position[n][v], market[n].result) \in Int
         /\ paid'[n][v] = paid[n][v] + Payout(position[n][v], market[n].result)
    ELSE position'[n][v] = position[n][v] /\ paid'[n][v] = paid[n][v]
  BY Zenon DEF Settles, W
<1>9. CASE n = m /\ v \in W
  <2>1. position'[n][v] = settled(v) /\ paid'[n][v] = paid[m][v] + payout[v]
    BY <1>7, <1>9
  <2> QED
    BY <1>3, <1>4, <1>5, <1>9, <2>1, Zenon
<1>10. CASE n = m /\ v \notin W
  <2>1. position'[n][v] = settled(v) /\ paid'[n][v] = paid[m][v] + payout[v]
    BY <1>7, <1>10
  <2>2. payout[v] = 0 /\ paid[m][v] \in Int /\ settled(v) = position[m][v]
    BY <1>1, <1>4, <1>6, <1>10
  <2>3. paid'[n][v] = paid[n][v]
    BY <1>10, <2>1, <2>2
  <2> QED
    BY <1>10, <2>1, <2>2, <2>3, Zenon
<1>11. CASE n # m
  BY <1>7, <1>11
<1> QED
  BY <1>9, <1>10, <1>11

\* Settled and told: each of W is paid once, in the books and in the index.
LEMMA SettlementFollowed ==
  ASSUME IndexInv, LedgerInv, NEW m \in Markets, NEW W, NEW j, NEW payouts,
         Settles(m, W), TellsPayments(j, index', m, W, payouts),
         \A v \in Users : v \in W => payouts[v] = Payout(position[m][v], market[m].result),
         \A n \in Markets, v \in Users :
           /\ j.shares[n][v] = index.shares[n][v]
           /\ ~(n = m /\ v \in W) => j.locked[n][v] = index.locked[n][v],
         SameTotals(index, j), SameMarkets(index, j), SameConfig(index, j),
         j.settlements = index.settlements, j.fee = index.fee, j.retained = index.retained,
         UNCHANGED <<silent, market, configVars, tokenSet, retained>>
  PROVE  IndexInv'
<1>1. /\ index' \in Index /\ SameTotals(index, index') /\ SameMarkets(index, index')
      /\ SameConfig(index, index') /\ SameShares(j, index') /\ index'.fee = 0
      /\ index'.retained = index.retained
  BY DEF TellsPayments, SameTotals, SameShares, SameMarkets, SameConfig, IndexInv, ConfigFollows
<1>2. \A n \in Markets, v \in Users :
        position'[n][v].total_deposited = position[n][v].total_deposited
  BY Zenon DEF Settles
<1>3. TotalsFollow'
  BY <1>1, <1>2, TotalsKept DEF IndexInv
<1>4. SharesFollow'
  <2> SUFFICES ASSUME NEW n \in Markets, NEW v \in Users
               PROVE  index'.shares[n][v] = SharesOf(position'[n][v])
    BY DEF SharesFollow
  <2>1. SharesOf(position'[n][v]) = SharesOf(position[n][v])
    BY Zenon DEF Settles
  <2>2. index'.shares[n][v] = index.shares[n][v]
    BY <1>1 DEF SameShares
  <2>3. index.shares[n][v] = SharesOf(position[n][v])
    BY Zenon DEF IndexInv, SharesFollow
  <2> QED
    BY <2>1, <2>2, <2>3, Zenon
<1>5. LocksFollow'
  <2> SUFFICES ASSUME NEW n \in Markets, NEW v \in Users
               PROVE  \/ position'[n][v].is_settled \/ <<n, v>> \in silent'
                      \/ index'.locked[n][v] = position'[n][v].locked_collateral
    BY DEF LocksFollow
  <2>1. CASE n = m /\ v \in W
    BY <2>1, Zenon DEF Settles
  <2>2. CASE ~(n = m /\ v \in W)
    <3>1. position'[n][v] = position[n][v]
      BY <2>2, Zenon DEF Settles
    <3>2. index'.locked[n][v] = index.locked[n][v]
      BY <1>1, <2>2 DEF SameShares
    <3>3. \/ position[n][v].is_settled \/ <<n, v>> \in silent
          \/ index.locked[n][v] = position[n][v].locked_collateral
      BY Zenon DEF IndexInv, LocksFollow
    <3> QED
      BY <3>1, <3>2, <3>3
  <2> QED
    BY <2>1, <2>2
<1>6. PaymentsFollow'
  <2> SUFFICES ASSUME NEW n \in Markets, NEW v \in Users
               PROVE  IF position'[n][v].is_settled THEN index'.settlements[n][v] = <<paid'[n][v]>>
                      ELSE index'.settlements[n][v] = <<>> /\ paid'[n][v] = 0
    BY DEF PaymentsFollow
  <2>1. IF position[n][v].is_settled THEN index.settlements[n][v] = <<paid[n][v]>>
        ELSE index.settlements[n][v] = <<>> /\ paid[n][v] = 0
    BY Zenon DEF IndexInv, PaymentsFollow
  <2>2. index'.settlements[n][v] = IF n = m /\ v \in W
                                   THEN Append(index.settlements[n][v], payouts[v])
                                   ELSE index.settlements[n][v]
    BY Zenon DEF TellsPayments
  <2>3. CASE n = m /\ v \in W
    <3> DEFINE due == Payout(position[n][v], market[n].result)
    <3>1. /\ ~position[n][v].is_settled /\ position'[n][v].is_settled
          /\ due \in Int /\ paid'[n][v] = paid[n][v] + due /\ payouts[v] = due
      BY <2>3, Zenon DEF Settles
    <3> HIDE DEF due
    <3>2. index.settlements[n][v] = <<>> /\ paid[n][v] = 0
      BY <2>1, <3>1
    <3>3. paid'[n][v] = due
      BY <3>1, <3>2
    <3>4. index'.settlements[n][v] = Append(<<>>, due)
      BY <2>2, <2>3, <3>1, <3>2
    <3>5. Append(<<>>, due) = <<due>>
      OBVIOUS
    <3> QED
      BY <3>1, <3>3, <3>4, <3>5, Zenon
  <2>4. CASE ~(n = m /\ v \in W)
    <3>1. position'[n][v] = position[n][v] /\ paid'[n][v] = paid[n][v]
      BY <2>4, Zenon DEF Settles
    <3> QED
      BY <2>1, <2>2, <2>4, <3>1, Zenon
  <2> QED
    BY <2>3, <2>4
<1>7. MarketsFollow'
  BY <1>1, MarketsKept DEF IndexInv
<1>8. ConfigFollows'
  BY <1>1, ConfigKept DEF IndexInv
<1> QED
  BY <1>1, <1>3, <1>4, <1>5, <1>6, <1>7, <1>8 DEF IndexInv

LEMMA SettleFollowed ==
  ASSUME IndexInv, LedgerInv, NEW m \in Markets, NEW u \in Users, Settle(u, m),
         Publish(SettleEvents(u, m)), UNCHANGED silent
  PROVE  IndexInv'
<1> DEFINE p == position[m][u]
           payout == Payout(p, market[m].result)
           P == PositionUpdated(m, u, p.yes_shares, p.no_shares, 0)
           S == PositionSettled(m, u, payout)
           j == Heard(index, P)
           payouts == [v \in {u} |-> payout]
<1>1. SettleAll(m, {u}) /\ UNCHANGED <<market, configVars, tokenSet, retained>>
  BY DEF Settle, SettleAll
<1>2. Due(m, {u}) = {u}
  <2>1. Due(m, {u}) # {}
    BY <1>1, Zenon DEF SettleAll, Due
  <2> QED
    BY <2>1 DEF Due
<1>3. Settles(m, {u})
  BY <1>1, <1>2, SettleAllSettles
<1>4. p \in Position /\ payout \in Int
  BY <1>3 DEF Settles, LedgerInv, LedgerTyped
<1>5. p.yes_shares \in Int /\ p.no_shares \in Int /\ 0 \in Int
  BY <1>4 DEF Position
<1>6. index' = Heard(j, S)
  <2>1. Yields(index, <<P, S>>, index')
    BY Zenon DEF Publish, Yields, SettleEvents
  <2> HIDE DEF P, S
  <2>2. Yields(index, <<P, S>>, Heard(Heard(index, P), S))
    BY HeardTwo, Zenon
  <2> QED
    BY <2>1, <2>2, Zenon DEF Yields
<1> HIDE DEF p, payout
<1>7. TellsPosition(index, j, m, u, [yes |-> p.yes_shares, no |-> p.no_shares], 0)
  <2>1. index \in Index
    BY DEF IndexInv
  <2> QED
    BY <1>5, <2>1, PositionHeard, Zenon
<1> HIDE DEF j
<1>8. TellsPayments(j, index', m, {u}, payouts)
  <2>1. j \in Index
    BY <1>7 DEF TellsPosition
  <2> QED
    BY <1>4, <1>6, <2>1, SettledHeard, Zenon
<1>9. \A v \in Users : v \in {u} => payouts[v] = Payout(position[m][v], market[m].result)
  BY DEF payout, p
<1>10. \A n \in Markets, v \in Users :
         /\ j.shares[n][v] = index.shares[n][v]
         /\ ~(n = m /\ v \in {u}) => j.locked[n][v] = index.locked[n][v]
  <2>1. index.shares[m][u] = [yes |-> p.yes_shares, no |-> p.no_shares]
    BY DEF IndexInv, SharesFollow, SharesOf, p
  <2> QED
    BY <1>7, <2>1 DEF TellsPosition
<1> HIDE DEF payouts
<1>11. /\ SameTotals(index, j) /\ SameMarkets(index, j) /\ SameConfig(index, j)
       /\ j.settlements = index.settlements /\ j.fee = index.fee /\ j.retained = index.retained
  BY <1>7 DEF TellsPosition
<1> QED
  BY <1>1, <1>3, <1>8, <1>9, <1>10, <1>11, SettlementFollowed

LEMMA BatchFollowed ==
  ASSUME IndexInv, LedgerInv, NEW m \in Markets, NEW users, SettleAll(m, users),
         Publish(BatchEvents(m, users)), UNCHANGED silent
  PROVE  IndexInv'
<1> DEFINE W == Due(m, users)
           payouts == [u \in W |-> Payout(position[m][u], market[m].result)]
<1>1. UNCHANGED <<market, configVars, tokenSet, retained>>
  BY DEF SettleAll
<1>2. Settles(m, W)
  BY SettleAllSettles
<1>3. index' = Heard(index, PositionsBatchSettled(m, payouts))
  BY HeardOne, Zenon DEF Publish, BatchEvents, SettledOfBatch, Due
<1>4. DOMAIN payouts = W /\ \A v \in W : payouts[v] = Payout(position[m][v], market[m].result)
  OBVIOUS
<1> HIDE DEF W, payouts
<1>5. \A v \in Users : v \in W => payouts[v] \in Int
  BY <1>2, <1>4 DEF Settles
<1>6. index \in Index
  BY DEF IndexInv
<1>7. TellsPayments(index, index', m, W, payouts)
  BY <1>3, <1>4, <1>5, <1>6, BatchHeard, Zenon
<1>8. SameTotals(index, index) /\ SameMarkets(index, index) /\ SameConfig(index, index)
  BY Zenon DEF SameTotals, SameMarkets, SameConfig
<1> QED
  BY <1>1, <1>2, <1>4, <1>7, <1>8, SettlementFollowed

-------------------------------------------------------------------------------
\* The life of a market, and the admin's calls.

LEMMA LifeFollowed ==
  ASSUME IndexInv, index' \in Index, SameTotals(index, index'), SameShares(index, index'),
         SameConfig(index, index'), index'.settlements = index.settlements, index'.fee = index.fee,
         index'.retained = index.retained, MarketsFollow',
         UNCHANGED <<silent, position, paid, configVars, tokenSet, retained>>
  PROVE  IndexInv'
<1>1. TotalsFollow'
  BY TotalsKept DEF IndexInv
<1>2. SharesFollow' /\ LocksFollow'
  BY SharesKept DEF IndexInv
<1>3. PaymentsFollow'
  BY PaymentsKept DEF IndexInv
<1>4. ConfigFollows'
  BY ConfigKept DEF IndexInv, ConfigFollows
<1> QED
  BY <1>1, <1>2, <1>3, <1>4 DEF IndexInv

\* A market is written anew, as its event says.
LEMMA MarketFollowed ==
  ASSUME IndexInv, NEW m \in Markets, NEW r, NEW status, NEW result, NEW closed,
         \A n \in Markets : market'[n] = IF n = m THEN r ELSE market[n],
         TellsMarket(index, index', m, status, result, closed),
         r.status = status, r.result = result, ~(status = "Resolved") => result = Unset,
         closed = IF r.closed_to_deposits THEN index.closed \cup {m} ELSE index.closed \ {m},
         UNCHANGED <<silent, position, paid, configVars, tokenSet, retained>>
  PROVE  IndexInv'
<1>1. MarketsFollow'
  <2> SUFFICES ASSUME NEW n \in Markets
               PROVE  /\ \/ index'.status[n] = market'[n].status
                         \/ market'[n].status = "Resolved" /\ market'[n].result = Unset
                      /\ index'.result[n] = market'[n].result
                      /\ n \in index'.closed <=> market'[n].closed_to_deposits
                      /\ ~(market'[n].status = "Resolved") => market'[n].result = Unset
    BY DEF MarketsFollow, Resolved
  <2>1. /\ index'.status[n] = IF n = m THEN status ELSE index.status[n]
        /\ index'.result[n] = IF n = m THEN result ELSE index.result[n]
        /\ index'.closed = closed
    BY Zenon DEF TellsMarket
  <2>2. CASE n = m
    <3>1. market'[n] = r
      BY <2>2
    <3>2. index'.status[n] = r.status /\ index'.result[n] = r.result
      BY <2>1, <2>2, Zenon
    <3>3. n \in closed <=> r.closed_to_deposits
      BY <2>2
    <3> QED
      BY <2>1, <3>1, <3>2, <3>3
  <2>3. CASE n # m
    <3>1. market'[n] = market[n]
      BY <2>3
    <3>2. index'.status[n] = index.status[n] /\ index'.result[n] = index.result[n]
      BY <2>1, <2>3, Zenon
    <3>3. n \in closed <=> n \in index.closed
      BY <2>3
    <3>4. /\ \/ index.status[n] = market[n].status
             \/ market[n].status = "Resolved" /\ market[n].result = Unset
          /\ index.result[n] = market[n].result
          /\ n \in index.closed <=> market[n].closed_to_deposits
          /\ ~(market[n].status = "Resolved") => market[n].result = Unset
      BY Zenon DEF IndexInv, MarketsFollow, Resolved
    <3> QED
      BY <2>1, <3>1, <3>2, <3>3, <3>4
  <2> QED
    BY <2>2, <2>3
<1>2. /\ index' \in Index /\ SameTotals(index, index') /\ SameShares(index, index')
      /\ SameConfig(index, index') /\ index'.settlements = index.settlements
      /\ index'.fee = index.fee /\ index'.retained = index.retained
  BY Zenon DEF TellsMarket
<1> QED
  BY <1>1, <1>2, LifeFollowed

LEMMA ResolveFollowed ==
  ASSUME IndexInv, LedgerInv, NEW m \in Markets, NEW result \in ResultInputs, Resolve(m, result),
         Publish(IF result = Unset THEN <<>> ELSE <<MarketResolved(m, result)>>), UNCHANGED silent
  PROVE  IndexInv'
<1> DEFINE r == [market[m] EXCEPT !.status = "Resolved", !.result = result]
<1>1. market \in [Markets -> Market] /\ market[m] \in Market /\ index \in Index
      /\ result \in Results
  BY ConstantsAssumption DEF LedgerInv, LedgerTyped, IndexInv
<1>2. market' = [market EXCEPT ![m] = r] /\ ~Resolved(m)
      /\ UNCHANGED <<position, paid, configVars, tokenSet, retained>>
  BY DEF Resolve, Active, Resolved
<1>3. /\ index.result[m] = Unset
      /\ m \in index.closed <=> market[m].closed_to_deposits
  BY <1>2 DEF IndexInv, MarketsFollow
<1>4. /\ r.status = "Resolved" /\ r.result = result
      /\ r.closed_to_deposits = market[m].closed_to_deposits
  BY <1>1 DEF Market
<1> HIDE DEF r
<1>5. \A n \in Markets : market'[n] = IF n = m THEN r ELSE market[n]
  BY <1>1, <1>2
<1>6. CASE result = Unset
  <2>1. index' = index
    BY <1>6, HeardNone, Zenon DEF Publish
  <2>2. MarketsFollow'
    <3> SUFFICES ASSUME NEW n \in Markets
                 PROVE  /\ \/ index'.status[n] = market'[n].status
                           \/ market'[n].status = "Resolved" /\ market'[n].result = Unset
                        /\ index'.result[n] = market'[n].result
                        /\ n \in index'.closed <=> market'[n].closed_to_deposits
                        /\ ~(market'[n].status = "Resolved") => market'[n].result = Unset
      BY DEF MarketsFollow, Resolved
    <3>1. CASE n = m
      BY <1>3, <1>4, <1>5, <1>6, <2>1, <3>1
    <3>2. CASE n # m
      BY <1>5, <2>1, <3>2 DEF IndexInv, MarketsFollow, Resolved
    <3> QED
      BY <3>1, <3>2
  <2>3. /\ index' \in Index /\ SameTotals(index, index') /\ SameShares(index, index')
        /\ SameConfig(index, index') /\ index'.settlements = index.settlements
        /\ index'.fee = index.fee /\ index'.retained = index.retained
    BY <1>1, <2>1 DEF SameTotals, SameShares, SameConfig
  <2> QED
    BY <1>2, <2>2, <2>3, LifeFollowed
<1>7. CASE result # Unset
  <2>1. index' = Heard(index, MarketResolved(m, result))
    <3>1. Publish(<<MarketResolved(m, result)>>)
      BY <1>7, Zenon
    <3> QED
      BY <3>1, HeardOne, Zenon DEF Publish
  <2>2. TellsMarket(index, index', m, "Resolved", result, index.closed)
    BY <1>1, <2>1, ResolvedHeard, Zenon
  <2>3. index.closed = IF r.closed_to_deposits THEN index.closed \cup {m} ELSE index.closed \ {m}
    BY <1>3, <1>4
  <2>4. PICK status, closed : status = "Resolved" /\ closed = index.closed
    OBVIOUS
  <2>5. /\ TellsMarket(index, index', m, status, result, closed)
        /\ r.status = status /\ r.result = result /\ (~(status = "Resolved") => result = Unset)
    BY <1>4, <2>2, <2>4, Zenon
  <2>6. closed = IF r.closed_to_deposits THEN index.closed \cup {m} ELSE index.closed \ {m}
    BY <2>3, <2>4, Zenon
  <2>7. UNCHANGED <<silent, position, paid, configVars, tokenSet, retained>>
    BY <1>2
  <2> QED
    BY <1>5, <2>5, <2>6, <2>7, MarketFollowed
<1> QED
  BY <1>6, <1>7

LEMMA CancelFollowed ==
  ASSUME IndexInv, LedgerInv, NEW m \in Markets, Cancel(m), Publish(<<MarketCanceled(m)>>), UNCHANGED silent
  PROVE  IndexInv'
<1> DEFINE r == [market[m] EXCEPT !.status = "Canceled"]
<1>1. market \in [Markets -> Market] /\ market[m] \in Market /\ index \in Index
  BY DEF LedgerInv, LedgerTyped, IndexInv
<1>2. market' = [market EXCEPT ![m] = r] /\ ~Resolved(m)
      /\ UNCHANGED <<position, paid, configVars, tokenSet, retained>>
  BY DEF Cancel, SetMarket, Active, Resolved
<1>3. /\ index.status[m] = market[m].status /\ index.result[m] = market[m].result
      /\ m \in index.closed <=> market[m].closed_to_deposits
      /\ market[m].result = Unset
  BY <1>2 DEF IndexInv, MarketsFollow
<1>4. index' = Heard(index, MarketCanceled(m))
  BY HeardOne, Zenon DEF Publish
<1>5. TellsMarket(index, index', m, "Canceled", index.result[m], index.closed)
  BY <1>1, <1>4, CanceledHeard, Zenon
<1>6. /\ r.status = "Canceled" /\ r.result = index.result[m]
      /\ index.closed = IF r.closed_to_deposits THEN index.closed \cup {m}
                        ELSE index.closed \ {m}
  BY <1>1, <1>3 DEF Market
<1> HIDE DEF r
<1>7. \A n \in Markets : market'[n] = IF n = m THEN r ELSE market[n]
  BY <1>1, <1>2
<1>8. PICK status, result, closed :
        status = "Canceled" /\ result = index.result[m] /\ closed = index.closed
  OBVIOUS
<1>9. /\ TellsMarket(index, index', m, status, result, closed)
      /\ r.status = status /\ r.result = result /\ (~(status = "Resolved") => result = Unset)
  BY <1>3, <1>5, <1>6, <1>8, Zenon
<1>10. closed = IF r.closed_to_deposits THEN index.closed \cup {m} ELSE index.closed \ {m}
  BY <1>6, <1>8, Zenon
<1> QED
  BY <1>2, <1>7, <1>9, <1>10, MarketFollowed

LEMMA ReopenFollowed ==
  ASSUME IndexInv, LedgerInv, NEW m \in Markets, Reopen(m), Publish(<<MarketReopened(m)>>), UNCHANGED silent
  PROVE  IndexInv'
<1> DEFINE r == [market[m] EXCEPT !.status = "Active"]
<1>1. market \in [Markets -> Market] /\ market[m] \in Market /\ index \in Index
  BY DEF LedgerInv, LedgerTyped, IndexInv
<1>2. market' = [market EXCEPT ![m] = r] /\ ~Resolved(m)
      /\ UNCHANGED <<position, paid, configVars, tokenSet, retained>>
  BY DEF Reopen, SetMarket, Active, Resolved
<1>3. /\ index.status[m] = market[m].status /\ index.result[m] = market[m].result
      /\ m \in index.closed <=> market[m].closed_to_deposits
      /\ market[m].result = Unset
  BY <1>2 DEF IndexInv, MarketsFollow
<1>4. index' = Heard(index, MarketReopened(m))
  BY HeardOne, Zenon DEF Publish
<1>5. TellsMarket(index, index', m, "Active", index.result[m], index.closed)
  BY <1>1, <1>4, ReopenedHeard, Zenon
<1>6. /\ r.status = "Active" /\ r.result = index.result[m]
      /\ index.closed = IF r.closed_to_deposits THEN index.closed \cup {m}
                        ELSE index.closed \ {m}
  BY <1>1, <1>3 DEF Market
<1> HIDE DEF r
<1>7. \A n \in Markets : market'[n] = IF n = m THEN r ELSE market[n]
  BY <1>1, <1>2
<1>8. PICK status, result, closed :
        status = "Active" /\ result = index.result[m] /\ closed = index.closed
  OBVIOUS
<1>9. /\ TellsMarket(index, index', m, status, result, closed)
      /\ r.status = status /\ r.result = result /\ (~(status = "Resolved") => result = Unset)
  BY <1>3, <1>5, <1>6, <1>8, Zenon
<1>10. closed = IF r.closed_to_deposits THEN index.closed \cup {m} ELSE index.closed \ {m}
  BY <1>6, <1>8, Zenon
<1> QED
  BY <1>2, <1>7, <1>9, <1>10, MarketFollowed

LEMMA CloseFollowed ==
  ASSUME IndexInv, LedgerInv, NEW m \in Markets, CloseToDeposits(m), Publish(<<MarketClosedToDeposits(m)>>), UNCHANGED silent
  PROVE  IndexInv'
<1> DEFINE r == [market[m] EXCEPT !.closed_to_deposits = TRUE]
<1>1. market \in [Markets -> Market] /\ market[m] \in Market /\ index \in Index
  BY DEF LedgerInv, LedgerTyped, IndexInv
<1>2. market' = [market EXCEPT ![m] = r] /\ ~Resolved(m)
      /\ UNCHANGED <<position, paid, configVars, tokenSet, retained>>
  BY DEF CloseToDeposits, SetMarket, Active, Resolved
<1>3. /\ index.status[m] = market[m].status /\ index.result[m] = market[m].result
      /\ m \in index.closed <=> market[m].closed_to_deposits
      /\ market[m].result = Unset
  BY <1>2 DEF IndexInv, MarketsFollow
<1>4. index' = Heard(index, MarketClosedToDeposits(m))
  BY HeardOne, Zenon DEF Publish
<1>5. TellsMarket(index, index', m, index.status[m], index.result[m], index.closed \cup {m})
  BY <1>1, <1>4, ClosedHeard, Zenon
<1>6. /\ r.status = index.status[m] /\ r.result = index.result[m]
      /\ index.closed \cup {m} = IF r.closed_to_deposits THEN index.closed \cup {m}
                        ELSE index.closed \ {m}
  BY <1>1, <1>3 DEF Market
<1> HIDE DEF r
<1>7. \A n \in Markets : market'[n] = IF n = m THEN r ELSE market[n]
  BY <1>1, <1>2
<1>8. PICK status, result, closed :
        status = index.status[m] /\ result = index.result[m] /\ closed = index.closed \cup {m}
  OBVIOUS
<1>9. /\ TellsMarket(index, index', m, status, result, closed)
      /\ r.status = status /\ r.result = result /\ (~(status = "Resolved") => result = Unset)
  BY <1>3, <1>5, <1>6, <1>8, Zenon
<1>10. closed = IF r.closed_to_deposits THEN index.closed \cup {m} ELSE index.closed \ {m}
  BY <1>6, <1>8, Zenon
<1> QED
  BY <1>2, <1>7, <1>9, <1>10, MarketFollowed

\* The configuration is told as it is after the call.
LEMMA ConfigFollowed ==
  ASSUME IndexInv,
         TellsConfig(index, index', mode', feeRate', waivers', treasurySet', tokenSet'),
         UNCHANGED <<silent, market, position, paid, retained>>
  PROVE  IndexInv'
<1>1. /\ index' \in Index /\ SameTotals(index, index') /\ SameShares(index, index')
      /\ SameMarkets(index, index') /\ index'.settlements = index.settlements
  BY Zenon DEF TellsConfig
<1>2. TotalsFollow'
  BY <1>1, TotalsKept DEF IndexInv
<1>3. SharesFollow' /\ LocksFollow'
  BY <1>1, SharesKept DEF IndexInv
<1>4. PaymentsFollow'
  BY <1>1, PaymentsKept DEF IndexInv
<1>5. MarketsFollow'
  BY <1>1, MarketsKept DEF IndexInv
<1>6. ConfigFollows'
  BY DEF TellsConfig, ConfigFollows, IndexInv
<1> QED
  BY <1>1, <1>2, <1>3, <1>4, <1>5, <1>6 DEF IndexInv

LEMMA ModeFollowed ==
  ASSUME IndexInv, NEW new_mode \in ModeInputs, SetEmergencyMode(new_mode), Publish(<<EmergencyModeChanged(new_mode)>>), UNCHANGED silent
  PROVE  IndexInv'
<1>1. index \in Index /\ ConfigFollows /\ new_mode \in Modes
  BY ConstantsAssumption DEF IndexInv
<1>2. index' = Heard(index, EmergencyModeChanged(new_mode))
  BY HeardOne, Zenon DEF Publish
<1>3. TellsConfig(index, index', new_mode, index.feeRate, index.waivers, index.treasurySet,
                  index.tokenSet)
  BY <1>1, <1>2, ModeHeard, Zenon
<1>4. TellsConfig(index, index', mode', feeRate', waivers', treasurySet', tokenSet')
      /\ UNCHANGED <<market, position, paid, retained>>
  BY <1>1, <1>3 DEF SetEmergencyMode, SetConfig, ConfigFollows
<1> QED
  BY <1>4, ConfigFollowed

LEMMA RateFollowed ==
  ASSUME IndexInv, NEW rate \in FeeInputs, SetFeeRate(rate), Publish(<<FeeRateChangeExecuted(rate)>>), UNCHANGED silent
  PROVE  IndexInv'
<1>1. index \in Index /\ ConfigFollows /\ rate \in Nat
  BY ConstantsAssumption DEF IndexInv
<1>2. index' = Heard(index, FeeRateChangeExecuted(rate))
  BY HeardOne, Zenon DEF Publish
<1>3. TellsConfig(index, index', index.mode, rate, index.waivers, index.treasurySet,
                  index.tokenSet)
  BY <1>1, <1>2, RateHeard, Zenon
<1>4. TellsConfig(index, index', mode', feeRate', waivers', treasurySet', tokenSet')
      /\ UNCHANGED <<market, position, paid, retained>>
  BY <1>1, <1>3 DEF SetFeeRate, SetConfig, ConfigFollows
<1> QED
  BY <1>4, ConfigFollowed

LEMMA AddWaiverFollowed ==
  ASSUME IndexInv, NEW u \in Users, AddFeeWaiver(u), Publish(<<FeeWaiverAdded(u)>>), UNCHANGED silent
  PROVE  IndexInv'
<1>1. index \in Index /\ ConfigFollows
  BY DEF IndexInv
<1>2. index' = Heard(index, FeeWaiverAdded(u))
  BY HeardOne, Zenon DEF Publish
<1>3. TellsConfig(index, index', index.mode, index.feeRate, index.waivers \cup {u},
                  index.treasurySet, index.tokenSet)
  BY <1>1, <1>2, WaiverAddedHeard, Zenon
<1>4. TellsConfig(index, index', mode', feeRate', waivers', treasurySet', tokenSet')
      /\ UNCHANGED <<market, position, paid, retained>>
  BY <1>1, <1>3 DEF AddFeeWaiver, SetConfig, ConfigFollows
<1> QED
  BY <1>4, ConfigFollowed

LEMMA RemoveWaiverFollowed ==
  ASSUME IndexInv, NEW u \in Users, RemoveFeeWaiver(u), Publish(<<FeeWaiverRemoved(u)>>), UNCHANGED silent
  PROVE  IndexInv'
<1>1. index \in Index /\ ConfigFollows
  BY DEF IndexInv
<1>2. index' = Heard(index, FeeWaiverRemoved(u))
  BY HeardOne, Zenon DEF Publish
<1>3. TellsConfig(index, index', index.mode, index.feeRate, index.waivers \ {u},
                  index.treasurySet, index.tokenSet)
  BY <1>1, <1>2, WaiverRemovedHeard, Zenon
<1>4. TellsConfig(index, index', mode', feeRate', waivers', treasurySet', tokenSet')
      /\ UNCHANGED <<market, position, paid, retained>>
  BY <1>1, <1>3 DEF RemoveFeeWaiver, SetConfig, ConfigFollows
<1> QED
  BY <1>4, ConfigFollowed

LEMMA TreasuryFollowed ==
  ASSUME IndexInv, SetTreasury, Publish(<<TreasurySet>>), UNCHANGED silent
  PROVE  IndexInv'
<1>1. index \in Index /\ ConfigFollows
  BY DEF IndexInv
<1>2. index' = Heard(index, TreasurySet)
  BY HeardOne, Zenon DEF Publish
<1>3. TellsConfig(index, index', index.mode, index.feeRate, index.waivers, TRUE, index.tokenSet)
  BY <1>1, <1>2, TreasuryHeard, Zenon
<1>4. TellsConfig(index, index', mode', feeRate', waivers', treasurySet', tokenSet')
      /\ UNCHANGED <<market, position, paid, retained>>
  BY <1>1, <1>3 DEF SetTreasury, SetConfig, ConfigFollows
<1> QED
  BY <1>4, ConfigFollowed

LEMMA TokenFollowed ==
  ASSUME IndexInv, SetOutcomeToken, Publish(<<OutcomeTokenSet>>), UNCHANGED silent
  PROVE  IndexInv'
<1>1. index \in Index /\ ConfigFollows
  BY DEF IndexInv
<1>2. index' = Heard(index, OutcomeTokenSet)
  BY HeardOne, Zenon DEF Publish
<1>3. TellsConfig(index, index', index.mode, index.feeRate, index.waivers, index.treasurySet, TRUE)
  BY <1>1, <1>2, TokenHeard, Zenon
<1>4. TellsConfig(index, index', mode', feeRate', waivers', treasurySet', tokenSet')
      /\ UNCHANGED <<market, position, paid, retained>>
  BY <1>1, <1>3 DEF SetOutcomeToken, SetConfig, ConfigFollows
<1> QED
  BY <1>4, ConfigFollowed

LEMMA UntoldFollowed ==
  ASSUME IndexInv, UNCHANGED <<index, silent, market, position, paid, configVars, tokenSet, retained>>
  PROVE  IndexInv'
<1>1. /\ TotalsFollow' /\ SharesFollow' /\ LocksFollow' /\ PaymentsFollow'
  BY Zenon DEF IndexInv, TotalsFollow, SharesFollow, LocksFollow, PaymentsFollow
<1>2. MarketsFollow' /\ ConfigFollows'
  BY Zenon DEF IndexInv, MarketsFollow, ConfigFollows, Resolved
<1> QED
  BY <1>1, <1>2 DEF IndexInv

-------------------------------------------------------------------------------
\* Every step.
LEMMA EventsNextFollowed ==
  ASSUME IndexInv, LedgerInv, EventsNext
  PROVE  IndexInv'
<1>1. ASSUME NEW m \in Markets, NEW u \in Users, UserEvent(u, m), UNCHANGED silent
      PROVE  IndexInv'
  <2>1. ASSUME NEW amount \in AmountInputs, Deposit(u, m, amount),
               Publish(DepositEvents(u, m, amount))
        PROVE  IndexInv'
    BY <1>1, <2>1, DepositFollowed
  <2>2. ASSUME NEW amount \in AmountInputs, Withdraw(u, m, amount),
               Publish(WithdrawEvents(u, m, amount))
        PROVE  IndexInv'
    BY <1>1, <2>2, WithdrawFollowed
  <2>3. ASSUME NEW yes \in DeltaInputs, NEW no \in DeltaInputs, NEW price \in PriceInputs,
               Trade(u, m, yes, no, price), Publish(<<Updated(m, u)>>)
        PROVE  IndexInv'
    BY <1>1, <2>3, TradeFollowed
  <2>4. ASSUME Settle(u, m), Publish(SettleEvents(u, m))
        PROVE  IndexInv'
    BY <1>1, <2>4, SettleFollowed
  <2> QED
    BY <1>1, <2>1, <2>2, <2>3, <2>4, Zenon DEF UserEvent
<1>2. ASSUME NEW m \in Markets, TransferEvent(m), UNCHANGED silent
      PROVE  IndexInv'
  <2>1. PICK u \in Users, v \in Users, price \in PriceInputs, request \in RequestIds,
             yes \in DeltaInputs, no \in DeltaInputs :
          /\ Transfer(m, u, v, yes, no, price, request)
          /\ Publish(<<Updated(m, u), Updated(m, v)>>)
    BY <1>2, Zenon DEF TransferEvent
  <2> QED
    BY <1>2, <2>1, TransferFollowed
<1>3. ASSUME NEW m \in Markets, SettlementEvent(m), UNCHANGED silent
      PROVE  IndexInv'
  <2>1. PICK users : SettleAll(m, users) /\ Publish(BatchEvents(m, users))
    <3>1. ASSUME NEW users, BatchSettle(m, users),
                 Publish(BatchEvents(m, {users[i] : i \in DOMAIN users}))
          PROVE  \E W : SettleAll(m, W) /\ Publish(BatchEvents(m, W))
      BY <3>1, Zenon DEF BatchSettle
    <3>2. ASSUME NEW start, NEW limit, SettlePage(m, start, limit),
                 Publish(BatchEvents(m, OnPage(m, start, limit)))
          PROVE  \E W : SettleAll(m, W) /\ Publish(BatchEvents(m, W))
      BY <3>2, Zenon DEF SettlePage
    <3> QED
      BY <1>3, <3>1, <3>2, Zenon DEF SettlementEvent
  <2> QED
    BY <1>3, <2>1, BatchFollowed
<1>4. ASSUME NEW m \in Markets, MarketEvent(m), UNCHANGED silent
      PROVE  IndexInv'
  <2>1. ASSUME NEW result \in ResultInputs, Resolve(m, result),
               Publish(IF result = Unset THEN <<>> ELSE <<MarketResolved(m, result)>>)
        PROVE  IndexInv'
    BY <1>4, <2>1, ResolveFollowed
  <2>2. ASSUME Cancel(m), Publish(<<MarketCanceled(m)>>)
        PROVE  IndexInv'
    BY <1>4, <2>2, CancelFollowed
  <2>3. ASSUME Reopen(m), Publish(<<MarketReopened(m)>>)
        PROVE  IndexInv'
    BY <1>4, <2>3, ReopenFollowed
  <2>4. ASSUME CloseToDeposits(m), Publish(<<MarketClosedToDeposits(m)>>)
        PROVE  IndexInv'
    BY <1>4, <2>4, CloseFollowed
  <2> QED
    BY <1>4, <2>1, <2>2, <2>3, <2>4, Zenon DEF MarketEvent
<1>5. ASSUME ConfigEvent, UNCHANGED silent
      PROVE  IndexInv'
  <2>1. ASSUME NEW new_mode \in ModeInputs, SetEmergencyMode(new_mode),
               Publish(<<EmergencyModeChanged(new_mode)>>)
        PROVE  IndexInv'
    BY <1>5, <2>1, ModeFollowed
  <2>2. ASSUME NEW rate \in FeeInputs, SetFeeRate(rate), Publish(<<FeeRateChangeExecuted(rate)>>)
        PROVE  IndexInv'
    BY <1>5, <2>2, RateFollowed
  <2>3. ASSUME NEW u \in Users, AddFeeWaiver(u), Publish(<<FeeWaiverAdded(u)>>)
        PROVE  IndexInv'
    BY <1>5, <2>3, AddWaiverFollowed
  <2>4. ASSUME NEW u \in Users, RemoveFeeWaiver(u), Publish(<<FeeWaiverRemoved(u)>>)
        PROVE  IndexInv'
    BY <1>5, <2>4, RemoveWaiverFollowed
  <2>5. ASSUME SetTreasury, Publish(<<TreasurySet>>)
        PROVE  IndexInv'
    BY <1>5, <2>5, TreasuryFollowed
  <2>6. ASSUME SetOutcomeToken, Publish(<<OutcomeTokenSet>>)
        PROVE  IndexInv'
    BY <1>5, <2>6, TokenFollowed
  <2> QED
    BY <1>5, <2>1, <2>2, <2>3, <2>4, <2>5, <2>6, Zenon DEF ConfigEvent
<1>6. ASSUME UntoldStep, UNCHANGED silent
      PROVE  IndexInv'
  <2>1. UNCHANGED <<index, silent, market, position, paid, configVars, tokenSet, retained>>
    BY <1>6 DEF UntoldStep, Reconcile, MoveToken, Tick
  <2> QED
    BY <2>1, UntoldFollowed
<1>7. ASSUME NEW m \in Markets, SilentStep(m)
      PROVE  IndexInv'
  <2>1. silent' = silent \cup {<<m, u>> : u \in {v \in Users :
          position'[m][v].total_deposited # position[m][v].total_deposited}}
    BY <1>7 DEF SilentStep
  <2>2. ASSUME NEW u \in Users, NEW v \in Users, NEW owner \in Users,
               NEW price \in PriceInputs, NEW request \in RequestIds,
               Merge(m, owner, u, v, price, request),
               Publish(<<Updated(m, u), Updated(m, v)>>)
        PROVE  IndexInv'
    BY <2>1, <2>2, MergeFollowed
  <2>3. ASSUME NEW u \in Users, RefundCanceled(u, m), UNCHANGED index
        PROVE  IndexInv'
    BY <2>1, <2>3, RefundFollowed
  <2> QED
    BY <1>7, <2>2, <2>3, Zenon DEF SilentStep
<1> QED
  BY <1>1, <1>2, <1>3, <1>4, <1>5, <1>6, <1>7, Zenon DEF EventsNext

\* A step with its events is a step of the ledger.
LEMMA EventsNextIsNext ==
  ASSUME EventsNext
  PROVE  Next
<1>1. ASSUME NEW m \in Markets, NEW u \in Users, UserEvent(u, m) PROVE Next
  BY <1>1, Zenon DEF UserEvent, Next, UserStep
<1>2. ASSUME NEW m \in Markets, TransferEvent(m) PROVE Next
  BY <1>2, Zenon DEF TransferEvent, Next, PositionStep
<1>3. ASSUME NEW m \in Markets, SettlementEvent(m) PROVE Next
  BY <1>3, Zenon DEF SettlementEvent, Next, SettlementStep
<1>4. ASSUME NEW m \in Markets, MarketEvent(m) PROVE Next
  BY <1>4, Zenon DEF MarketEvent, Next, AdminStep
<1>5. ASSUME ConfigEvent PROVE Next
  BY <1>5, Zenon DEF ConfigEvent, Next, AdminStep
<1>6. ASSUME UntoldStep PROVE Next
  BY <1>6, Zenon DEF UntoldStep, Next, AdminStep
<1>7. ASSUME NEW m \in Markets, SilentStep(m) PROVE Next
  BY <1>7, Zenon DEF SilentStep, Next, UserStep, PositionStep
<1> QED
  BY <1>1, <1>2, <1>3, <1>4, <1>5, <1>6, <1>7, Zenon DEF EventsNext

LEMMA InitFollowed ==
  ASSUME EventsInit
  PROVE  IndexInv
<1>1. Silence \in Index
  BY DEF Silence, Index, Modes, Results, Balance, NoTokens
<1>2. index = Silence /\ silent = {} /\ Init
  BY DEF EventsInit
<1>3. TotalsFollow
  BY <1>2 DEF TotalsFollow, Silence, Init, EmptyPosition
<1>4. SharesFollow
  BY <1>2 DEF SharesFollow, Silence, Init, EmptyPosition, NoTokens, SharesOf
<1>5. LocksFollow
  BY <1>2 DEF LocksFollow, Silence, Init, EmptyPosition
<1>6. PaymentsFollow
  BY <1>2 DEF PaymentsFollow, Silence, Init, EmptyPosition
<1>7. MarketsFollow
  BY <1>2 DEF MarketsFollow, Silence, Init, Resolved
<1>8. ConfigFollows
  BY <1>2 DEF ConfigFollows, Silence, Init
<1> QED
  BY <1>1, <1>2, <1>3, <1>4, <1>5, <1>6, <1>7, <1>8 DEF IndexInv

\* Whoever follows the events of the market has its books: what positions hold and
\* lock, what settlement paid to whom, the fees that stay, the state of the markets
\* and of the contract, for any number of users, markets and calls.
THEOREM ReadersAlwaysFollow == EventsSpec => []IndexFollows
<1>1. EventsInit => IndexInv /\ LedgerInv
  BY InitFollowed, InitLedger DEF EventsInit
<1>2. IndexInv /\ LedgerInv /\ [EventsNext]_eventVars => IndexInv' /\ LedgerInv'
  <2> SUFFICES ASSUME IndexInv, LedgerInv, [EventsNext]_eventVars
               PROVE  IndexInv' /\ LedgerInv'
    OBVIOUS
  <2>1. CASE EventsNext
    BY <2>1, EventsNextFollowed, EventsNextIsNext, NextKeeps
  <2>2. CASE UNCHANGED eventVars
    <3>1. UNCHANGED vars /\ UNCHANGED <<index, silent>>
      BY <2>2 DEF eventVars
    <3>2. IndexInv'
      BY <3>1, UntoldFollowed DEF vars
    <3>3. LedgerInv'
      BY <3>1, NextKeeps
    <3> QED
      BY <3>2, <3>3
  <2> QED
    BY <2>1, <2>2
<1>3. IndexInv => IndexFollows
  <2> SUFFICES ASSUME IndexInv PROVE IndexFollows
    OBVIOUS
  <2>1. \A m \in Markets, u \in Users :
          LET p == position[m][u] IN
          /\ <<m, u>> \notin silent => /\ index.total[m][u] = p.total_deposited
                                       /\ <<m, u>> \notin index.gaps
          /\ index.shares[m][u] = SharesOf(p)
          /\ p.is_settled \/ index.locked[m][u] = p.locked_collateral \/ <<m, u>> \in silent
          /\ index.settlements[m][u] = IF p.is_settled THEN <<paid[m][u]>> ELSE <<>>
    BY Zenon DEF IndexInv, TotalsFollow, SharesFollow, LocksFollow, PaymentsFollow
  <2>2. \A m \in Markets :
          /\ \/ index.status[m] = market[m].status
             \/ Resolved(m) /\ market[m].result = Unset
          /\ index.result[m] = market[m].result
          /\ m \in index.closed <=> market[m].closed_to_deposits
    BY Zenon DEF IndexInv, MarketsFollow
  <2>3. ConfigFollows
    BY DEF IndexInv
  <2> QED
    BY <2>1, <2>2, <2>3 DEF IndexFollows, ConfigFollows
<1> QED
  BY <1>1, <1>2, <1>3, PTL DEF EventsSpec
===============================================================================
