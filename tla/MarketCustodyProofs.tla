-------------------------- MODULE MarketCustodyProofs --------------------------
(***************************************************************************)
(* Theorems about the sums of MarketLedger, for any finite sets of users   *)
(* and markets and any amounts, prices and bounds: what the contract holds *)
(* is what its books say, and resolution fixes what is paid out.  Both are *)
(* stated for calls that name two different addresses: a merge of a        *)
(* position with itself loses its deposit and its shares, so that neither  *)
(* holds where OneName is TRUE (MCMarketLedger_same_address.cfg).          *)
(***************************************************************************)
EXTENDS MarketLedgerProofs, SumTheorems

USE DEF configVars, tokenVars, userVars, moneyVars

-------------------------------------------------------------------------------
\* Amounts by market and user, and what they add up to.
Grid == [Markets -> [Users -> Int]]
GridTotal(g) == SumFunction([m \in Markets |-> SumFunction(g[m])])

\* Each row, and the whole, adds up to an integer.
LEMMA RowIsInt ==
  ASSUME NEW g \in Grid
  PROVE  \A m \in Markets : SumFunction(g[m]) \in Int
<1> TAKE m \in Markets
<1>1. g[m] \in [Users -> Int] /\ IsFiniteSet(Users)
  BY ConstantsAssumption DEF Grid
<1> QED
  BY <1>1, SumIsInt DEF SumFunction

LEMMA GridIsInt ==
  ASSUME NEW g \in Grid
  PROVE  GridTotal(g) \in Int
<1> DEFINE rows == [m \in Markets |-> SumFunction(g[m])]
<1>1. \A m \in Markets : rows[m] \in Int
  BY RowIsInt
<1>2. DOMAIN rows = Markets /\ IsFiniteSet(Markets)
  BY ConstantsAssumption
<1> HIDE DEF rows
<1>3. SumFunction(rows) \in Int
  BY <1>1, <1>2, SumIsInt DEF SumFunction
<1> QED
  BY <1>3 DEF GridTotal, rows

\* A step that changes one row changes the whole by as much.
LEMMA RowChanges ==
  ASSUME NEW g \in Grid, NEW h \in Grid, NEW m \in Markets,
         \A n \in Markets : n # m => h[n] = g[n]
  PROVE  GridTotal(h) = GridTotal(g) + SumFunction(h[m]) - SumFunction(g[m])
<1> DEFINE old == [n \in Markets |-> SumFunction(g[n])]
           new == [n \in Markets |-> SumFunction(h[n])]
<1>1. \A n \in Markets : old[n] \in Int /\ new[n] \in Int
  BY RowIsInt
<1>2. \A n \in Markets : n # m => new[n] = old[n]
  OBVIOUS
<1>3. DOMAIN old = Markets /\ DOMAIN new = Markets /\ IsFiniteSet(Markets)
  BY ConstantsAssumption
<1> HIDE DEF old, new
<1>4. SumFunctionOnSet(new, Markets) = SumFunctionOnSet(old, Markets) + new[m] - old[m]
  BY <1>1, <1>2, <1>3, SumUpdate
<1> QED
  BY <1>3, <1>4 DEF GridTotal, SumFunction, old, new

\* A step that changes one user's amount changes the row by as much.
LEMMA CellChanges ==
  ASSUME NEW f \in [Users -> Int], NEW h \in [Users -> Int], NEW u \in Users,
         \A v \in Users : v # u => h[v] = f[v]
  PROVE  SumFunction(h) = SumFunction(f) + h[u] - f[u]
<1>1. DOMAIN f = Users /\ DOMAIN h = Users /\ IsFiniteSet(Users)
  BY ConstantsAssumption
<1>2. h[u] \in Int /\ \A v \in Users : f[v] \in Int
  OBVIOUS
<1>3. SumFunctionOnSet(h, Users) = SumFunctionOnSet(f, Users) + h[u] - f[u]
  BY <1>1, <1>2, SumUpdate
<1> QED
  BY <1>1, <1>3 DEF SumFunction

\* What moves from one user to another leaves the sum of a row alone.
LEMMA CellsTrade ==
  ASSUME NEW f \in [Users -> Int], NEW h \in [Users -> Int],
         NEW u \in Users, NEW v \in Users, u # v,
         h[u] + h[v] = f[u] + f[v],
         \A w \in Users : w # u /\ w # v => h[w] = f[w]
  PROVE  SumFunction(h) = SumFunction(f)
<1> DEFINE half == [f EXCEPT ![u] = h[u]]
<1>1. half \in [Users -> Int] /\ half[u] = h[u] /\ \A w \in Users : w # u => half[w] = f[w]
  OBVIOUS
<1> HIDE DEF half
<1>2. SumFunction(half) = SumFunction(f) + half[u] - f[u]
  BY <1>1, CellChanges
<1>3. \A w \in Users : w # v => h[w] = half[w]
  BY <1>1
<1>4. SumFunction(h) = SumFunction(half) + h[v] - half[v]
  BY <1>1, <1>3, CellChanges
<1>5. half[v] = f[v]
  BY <1>1
<1>6. SumFunction(f) \in Int
  BY SumIsInt, ConstantsAssumption DEF SumFunction
<1> QED
  BY <1>1, <1>2, <1>4, <1>5, <1>6

\* The sum of two rows, user by user, adds up to their two sums.
LEMMA RowsAdd ==
  ASSUME NEW f \in [Users -> Int], NEW g \in [Users -> Int], NEW h \in [Users -> Int],
         \A u \in Users : h[u] = f[u] + g[u]
  PROVE  SumFunction(h) = SumFunction(f) + SumFunction(g)
<1>1. DOMAIN f = Users /\ DOMAIN g = Users /\ DOMAIN h = Users /\ IsFiniteSet(Users)
  BY ConstantsAssumption
<1>2. SumFunctionOnSet(h, Users) = SumFunctionOnSet(f, Users) + SumFunctionOnSet(g, Users)
  BY <1>1, SumOfBoth
<1> QED
  BY <1>1, <1>2 DEF SumFunction

-------------------------------------------------------------------------------
\* The rest of the type invariant.
UsersTyped ==
  /\ now \in Nat
  /\ collateral \in [Users -> Int] /\ totalLocked \in [Users -> Int]
  /\ lastDeposit \in [Markets -> [Users -> Nat \cup {Unset}]]
  /\ participants \in [Markets -> Seq(Users)]
  /\ requests \subseteq Users \X RequestIds

ConfigTyped ==
  /\ mode \in Modes /\ waivers \subseteq Users
  /\ treasurySet \in BOOLEAN /\ tokenSet \in BOOLEAN /\ repairs \subseteq RepairIds

CashTyped ==
  /\ wallet \in [Users -> Int] /\ held \in Int /\ retained \in Int
  /\ claims \in [Markets -> Int]

RestTyped == UsersTyped /\ ConfigTyped /\ CashTyped

\* TypeOK in parts: what MarketLedgerProofs shows, and the rest.
LEMMA TypeParts == TypeOK <=> LedgerTyped /\ RestTyped
BY DEF TypeOK, LedgerTyped, RestTyped, UsersTyped, ConfigTyped, CashTyped

LEMMA ParticipantsTyped ==
  ASSUME UsersTyped, NEW m \in Markets, NEW u \in Users
  PROVE  WithParticipant(m, u) \in [Markets -> Seq(Users)]
<1>1. participants \in [Markets -> Seq(Users)] /\ Append(participants[m], u) \in Seq(Users)
  BY DEF UsersTyped
<1> QED
  BY <1>1 DEF WithParticipant

\* The rest, call by call.
LEMMA DepositTyped ==
  ASSUME RestTyped, NEW m \in Markets, NEW u \in Users, NEW amount \in AmountInputs,
         Deposit(u, m, amount)
  PROVE  RestTyped'
<1> USE DEF RestTyped
<1>1. amount \in Int
  BY ConstantsAssumption
<1>2. UsersTyped'
  <2>1. participants' \in [Markets -> Seq(Users)]
    BY ParticipantsTyped DEF Deposit
  <2>2. /\ collateral' = [collateral EXCEPT ![u] = @ + amount]
        /\ lastDeposit' = [lastDeposit EXCEPT ![m] = [@ EXCEPT ![u] = now]]
        /\ UNCHANGED <<now, totalLocked, requests>>
    BY DEF Deposit
  <2>3. lastDeposit' \in [Markets -> [Users -> Nat \cup {Unset}]]
    BY <2>2 DEF UsersTyped
  <2> QED
    BY <1>1, <2>1, <2>2, <2>3 DEF UsersTyped
<1>3. CashTyped'
  BY <1>1 DEF CashTyped, Deposit
<1>4. ConfigTyped'
  BY DEF ConfigTyped, Deposit
<1> QED
  BY <1>2, <1>3, <1>4

LEMMA WithdrawTyped ==
  ASSUME LedgerTyped, RestTyped, NEW m \in Markets, NEW u \in Users,
         NEW amount \in AmountInputs, Withdraw(u, m, amount)
  PROVE  RestTyped'
<1> USE DEF RestTyped
<1> DEFINE fee == WithdrawalFee(u, amount)
<1>1. amount \in Nat /\ fee \in Nat
  BY ConstantsAssumption, ScaledIsNat DEF Withdraw, WithdrawalFee, LedgerTyped
<1>2. /\ collateral' = [collateral EXCEPT ![u] = @ - (amount + fee)]
      /\ RouteFee(fee, amount)
      /\ wallet' = [wallet EXCEPT ![u] = @ + amount]
      /\ UNCHANGED <<now, totalLocked, lastDeposit, participants, requests,
                     configVars, tokenVars, claims>>
  BY DEF Withdraw, DebitPosition
<1> HIDE DEF fee
<1>3. UsersTyped'
  BY <1>1, <1>2 DEF UsersTyped
<1>4. CashTyped'
  BY <1>1, <1>2 DEF CashTyped, RouteFee
<1>5. ConfigTyped'
  BY <1>2 DEF ConfigTyped
<1> QED
  BY <1>3, <1>4, <1>5

LEMMA TradeTyped ==
  ASSUME LedgerTyped, RestTyped, NEW m \in Markets, NEW u \in Users,
         NEW yes_delta \in DeltaInputs, NEW no_delta \in DeltaInputs,
         NEW price \in PriceInputs, Trade(u, m, yes_delta, no_delta, price)
  PROVE  RestTyped'
<1> USE DEF RestTyped
<1> DEFINE yes == position[m][u].yes_shares + yes_delta
           no == position[m][u].no_shares + no_delta
           lock == LockedCollateral(yes, no, price)
<1>1. yes \in Nat /\ no \in Nat /\ ValidMarketPrice(price)
  BY ConstantsAssumption DEF Trade
<1>2. /\ totalLocked' = [totalLocked EXCEPT ![u] = @ - position[m][u].locked_collateral + lock]
      /\ participants' = WithParticipant(m, u)
      /\ UNCHANGED <<now, collateral, lastDeposit, requests, configVars, tokenSet,
                     repairs, moneyVars, retained, claims>>
  BY DEF Trade
<1> HIDE DEF yes, no
<1>3. lock \in Nat
  BY <1>1, LockIsNat
<1> HIDE DEF lock
<1>4. position[m][u].locked_collateral \in Nat
  BY DEF LedgerTyped, Position
<1>5. UsersTyped'
  BY <1>2, <1>3, <1>4, ParticipantsTyped DEF UsersTyped
<1>6. CashTyped' /\ ConfigTyped'
  BY <1>2 DEF CashTyped, ConfigTyped
<1> QED
  BY <1>5, <1>6

LEMMA RequestTyped ==
  ASSUME RestTyped, NEW owner \in Users, NEW request \in RequestIds,
         ConsumeRequest(owner, request),
         UNCHANGED <<now, userVars, participants, configVars, tokenVars, moneyVars,
                     retained, claims>>
  PROVE  RestTyped'
<1> USE DEF RestTyped
<1>1. UsersTyped'
  BY DEF UsersTyped, ConsumeRequest
<1>2. CashTyped' /\ ConfigTyped'
  BY DEF CashTyped, ConfigTyped
<1> QED
  BY <1>1, <1>2

\* What settlement pays a user.
Paying(m, users) ==
  [u \in Users |-> IF u \in users /\ Payable(m, u)
                   THEN Payout(position[m][u], market[m].result) ELSE 0]

LEMMA PayingTyped ==
  ASSUME LedgerTyped, NEW m \in Markets, NEW users
  PROVE  /\ Paying(m, users) \in [Users -> Nat]
         /\ Paying(m, users) \in [Users -> Int]
         /\ SumFunction(Paying(m, users)) \in Int
<1>1. ASSUME NEW u \in Users
      PROVE  Paying(m, users)[u] \in Nat
  <2>1. position[m][u] \in Position
    BY DEF LedgerTyped
  <2> QED
    BY <2>1 DEF Paying, Payout, Position
<1>2. Paying(m, users) \in [Users -> Nat] /\ Paying(m, users) \in [Users -> Int]
  BY <1>1 DEF Paying
<1> HIDE DEF Paying
<1>3. SumFunction(Paying(m, users)) \in Int
  BY <1>2, SumIsInt, ConstantsAssumption DEF SumFunction
<1> QED
  BY <1>2, <1>3

\* Every settlement pays what Paying says and marks the same positions.
LEMMA SettleAllMoves ==
  ASSUME NEW m \in Markets, NEW users, SettleAll(m, users)
  PROVE  /\ paid' = [paid EXCEPT ![m] = [u \in Users |-> paid[m][u] + Paying(m, users)[u]]]
         /\ wallet' = [u \in Users |-> wallet[u] + Paying(m, users)[u]]
         /\ held' = held - SumFunction(Paying(m, users))
         /\ position' = [position EXCEPT ![m] =
              [u \in Users |-> IF u \in users /\ Payable(m, u)
                               THEN [position[m][u] EXCEPT !.is_settled = TRUE]
                               ELSE position[m][u]]]
         /\ UNCHANGED <<now, market, userVars, participants, requests, configVars,
                        tokenSet, repairs, retained, claims>>
<1> DEFINE due == {u \in users : Payable(m, u)}
           payout == [u \in Users |-> IF u \in due THEN Payout(position[m][u], market[m].result)
                                      ELSE 0]
<1>1. payout = Paying(m, users)
  BY DEF Paying
<1>2. /\ paid' = [paid EXCEPT ![m] = [u \in Users |-> paid[m][u] + payout[u]]]
      /\ wallet' = [u \in Users |-> wallet[u] + payout[u]]
      /\ held' = held - SumFunction(payout)
      /\ position' = [position EXCEPT ![m] =
           [u \in Users |-> IF u \in due THEN [position[m][u] EXCEPT !.is_settled = TRUE]
                            ELSE position[m][u]]]
      /\ UNCHANGED <<now, market, userVars, participants, requests, configVars,
                     tokenSet, repairs, retained, claims>>
  BY DEF SettleAll
<1>3. \A u : u \in due <=> u \in users /\ Payable(m, u)
  OBVIOUS
<1> HIDE DEF due, payout
<1> QED
  BY <1>1, <1>2, <1>3

LEMMA SettleAllTyped ==
  ASSUME LedgerTyped, RestTyped, NEW m \in Markets, NEW users, SettleAll(m, users)
  PROVE  RestTyped'
<1> USE DEF RestTyped
<1> DEFINE payout == Paying(m, users)
<1>1. /\ wallet' = [u \in Users |-> wallet[u] + payout[u]]
      /\ held' = held - SumFunction(payout)
      /\ UNCHANGED <<now, userVars, participants, requests, configVars, tokenSet,
                     repairs, retained, claims>>
  BY SettleAllMoves
<1>2. payout \in [Users -> Int] /\ SumFunction(payout) \in Int
  BY PayingTyped
<1> HIDE DEF payout
<1>3. CashTyped'
  BY <1>1, <1>2 DEF CashTyped
<1>4. UsersTyped' /\ ConfigTyped'
  BY <1>1 DEF UsersTyped, ConfigTyped
<1> QED
  BY <1>3, <1>4

LEMMA ResolveTyped ==
  ASSUME LedgerTyped, RestTyped, NEW m \in Markets, NEW result \in ResultInputs,
         Resolve(m, result)
  PROVE  RestTyped'
<1> USE DEF RestTyped
<1> DEFINE worth == [u \in Users |-> Payout(position[m][u], result)]
<1>1. worth \in [Users -> Int]
  <2>1. ASSUME NEW u \in Users PROVE worth[u] \in Int
    BY DEF LedgerTyped, Payout, Position
  <2> QED
    BY <2>1
<1>2. /\ claims' = [claims EXCEPT ![m] = SumFunction(worth)]
      /\ UNCHANGED <<now, userVars, participants, requests, configVars, tokenVars,
                     moneyVars, retained>>
  BY DEF Resolve
<1> HIDE DEF worth
<1>3. SumFunction(worth) \in Int
  BY <1>1, SumIsInt, ConstantsAssumption DEF SumFunction
<1>4. CashTyped'
  BY <1>2, <1>3 DEF CashTyped
<1>5. UsersTyped' /\ ConfigTyped'
  BY <1>2 DEF UsersTyped, ConfigTyped
<1> QED
  BY <1>4, <1>5

LEMMA RefundTyped ==
  ASSUME LedgerTyped, RestTyped, NEW m \in Markets, NEW u \in Users, RefundCanceled(u, m)
  PROVE  RestTyped'
<1>1. position[m][u].total_deposited \in Nat
  BY DEF LedgerTyped, Position
<1>2. /\ wallet' = [wallet EXCEPT ![u] = @ + position[m][u].total_deposited]
      /\ held' = held - position[m][u].total_deposited
      /\ UNCHANGED <<now, userVars, participants, requests, configVars, tokenVars,
                     retained, claims>>
  BY DEF RefundCanceled
<1> QED
  BY <1>1, <1>2 DEF RestTyped, UsersTyped, ConfigTyped, CashTyped

LEMMA IdleTyped ==
  ASSUME RestTyped, UNCHANGED <<now, userVars, participants, requests, configVars,
                                tokenVars, moneyVars, retained, claims>>
  PROVE  RestTyped'
BY DEF RestTyped, UsersTyped, ConfigTyped, CashTyped

LEMMA ConfigChangeTyped ==
  ASSUME RestTyped, NEW new_mode \in Modes, NEW rate, NEW list \in SUBSET Users,
         NEW registered \in BOOLEAN, SetConfig(new_mode, rate, list, registered)
  PROVE  RestTyped'
BY DEF SetConfig, RestTyped, UsersTyped, ConfigTyped, CashTyped

LEMMA UserTyped ==
  ASSUME LedgerTyped, RestTyped, NEW m \in Markets, NEW u \in Users, UserStep(u, m)
  PROVE  RestTyped'
<1>1. CASE \E amount \in AmountInputs : Deposit(u, m, amount) \/ Withdraw(u, m, amount)
  BY <1>1, DepositTyped, WithdrawTyped
<1>2. CASE \E yes, no \in DeltaInputs, price \in PriceInputs : Trade(u, m, yes, no, price)
  BY <1>2, TradeTyped
<1>3. CASE Settle(u, m)
  BY <1>3, SettleAllTyped DEF Settle
<1>4. CASE RefundCanceled(u, m)
  BY <1>4, RefundTyped
<1> QED
  BY <1>1, <1>2, <1>3, <1>4 DEF UserStep

LEMMA PositionTyped ==
  ASSUME RestTyped, NEW m \in Markets, PositionStep(m)
  PROVE  RestTyped'
<1>1. PICK u \in Users, v \in Users, price \in PriceInputs, request \in RequestIds :
        \/ \E yes, no \in DeltaInputs : Transfer(m, u, v, yes, no, price, request)
        \/ \E owner \in Users : Merge(m, owner, u, v, price, request)
  BY DEF PositionStep
<1>2. \E owner \in Users :
        /\ ConsumeRequest(owner, request)
        /\ UNCHANGED <<now, userVars, participants, configVars, tokenVars, moneyVars,
                       retained, claims>>
  <2>1. CASE \E yes, no \in DeltaInputs : Transfer(m, u, v, yes, no, price, request)
    BY <2>1 DEF Transfer
  <2>2. CASE \E owner \in Users : Merge(m, owner, u, v, price, request)
    BY <2>2 DEF Merge
  <2> QED
    BY <1>1, <2>1, <2>2
<1> QED
  BY <1>2, RequestTyped

LEMMA AdminTyped ==
  ASSUME LedgerTyped, RestTyped, AdminStep
  PROVE  RestTyped'
<1>1. CASE \E m \in Markets, result \in ResultInputs : Resolve(m, result)
  BY <1>1, ResolveTyped
<1>2. CASE \E m \in Markets : Cancel(m) \/ Reopen(m) \/ CloseToDeposits(m)
  BY <1>2, IdleTyped DEF Cancel, Reopen, CloseToDeposits, SetMarket
<1>3. CASE \E m \in Markets, u \in Users, id \in RepairIds : Reconcile(m, u, id)
  <2>1. PICK id \in RepairIds : repairs' = repairs \cup {id}
    BY <1>3 DEF Reconcile
  <2>2. UNCHANGED <<now, userVars, participants, requests, configVars, tokenSet,
                    moneyVars, retained, claims>>
    BY <1>3 DEF Reconcile
  <2> QED
    BY <2>1, <2>2 DEF RestTyped, UsersTyped, ConfigTyped, CashTyped
<1>4. CASE \/ \E new_mode \in ModeInputs : SetEmergencyMode(new_mode)
           \/ \E rate \in FeeInputs : SetFeeRate(rate)
           \/ \E u \in Users : AddFeeWaiver(u) \/ RemoveFeeWaiver(u)
           \/ SetTreasury
  <2>1. /\ mode \in Modes /\ waivers \in SUBSET Users /\ treasurySet \in BOOLEAN
        /\ \A u \in Users : waivers \cup {u} \in SUBSET Users /\ waivers \ {u} \in SUBSET Users
        /\ ModeInputs \subseteq Modes
    BY ConstantsAssumption DEF RestTyped, ConfigTyped
  <2> QED
    BY <1>4, <2>1, ConfigChangeTyped
    DEF SetEmergencyMode, SetFeeRate, AddFeeWaiver, RemoveFeeWaiver, SetTreasury
<1>5. CASE SetOutcomeToken
  BY <1>5 DEF SetOutcomeToken, RestTyped, UsersTyped, ConfigTyped, CashTyped
<1> QED
  BY <1>1, <1>2, <1>3, <1>4, <1>5 DEF AdminStep

LEMMA SettlementTyped ==
  ASSUME LedgerTyped, RestTyped, NEW m \in Markets, SettlementStep(m)
  PROVE  RestTyped'
<1>1. CASE \E n \in 1 .. MAX_BATCH_SETTLE_SIZE :
             \E users \in [1 .. n -> Users] : BatchSettle(m, users)
  BY <1>1, SettleAllTyped DEF BatchSettle
<1>2. CASE \E start, limit \in 0 .. Cardinality(Users) : SettlePage(m, start, limit)
  BY <1>2, SettleAllTyped DEF SettlePage
<1> QED
  BY <1>1, <1>2 DEF SettlementStep

LEMMA NextTyped ==
  ASSUME LedgerTyped, RestTyped, [Next]_vars
  PROVE  RestTyped'
<1>1. CASE \E m \in Markets, u \in Users : UserStep(u, m)
  BY <1>1, UserTyped
<1>2. CASE \E m \in Markets : PositionStep(m)
  BY <1>2, PositionTyped
<1>3. CASE \E m \in Markets : SettlementStep(m)
  BY <1>3, SettlementTyped
<1>4. CASE \E m \in Markets, from, to \in Users : MoveToken(m, from, to)
  BY <1>4 DEF MoveToken, RestTyped, UsersTyped, ConfigTyped, CashTyped
<1>5. CASE AdminStep
  BY <1>5, AdminTyped
<1>6. CASE Tick
  BY <1>6 DEF Tick, RestTyped, UsersTyped, ConfigTyped, CashTyped
<1>7. CASE UNCHANGED vars
  BY <1>7, IdleTyped DEF vars
<1> QED
  BY <1>1, <1>2, <1>3, <1>4, <1>5, <1>6, <1>7 DEF Next

\* Every value keeps its type: in particular no position ever holds less than no
\* shares, locks less than nothing, or has less than nothing deposited.
THEOREM TypeCorrect == Spec => []TypeOK
<1>1. Init => RestTyped
  <2> SUFFICES ASSUME Init PROVE RestTyped
    OBVIOUS
  <2>1. <<>> \in Seq(Users) /\ Unset \in Nat \cup {Unset} /\ Funds \in Int
    BY ConstantsAssumption
  <2>2. /\ now = 0 /\ requests = {}
        /\ collateral = [u \in Users |-> 0] /\ totalLocked = [u \in Users |-> 0]
        /\ lastDeposit = [m \in Markets |-> [u \in Users |-> Unset]]
        /\ participants = [m \in Markets |-> <<>>]
    BY DEF Init
  <2>3. UsersTyped
    BY <2>1, <2>2 DEF UsersTyped
  <2>4. ConfigTyped
    BY DEF Init, ConfigTyped, Modes
  <2>5. CashTyped
    BY <2>1 DEF Init, CashTyped
  <2> QED
    BY <2>3, <2>4, <2>5 DEF RestTyped
<1>2. LedgerInv /\ RestTyped /\ [Next]_vars => RestTyped'
  BY NextTyped DEF LedgerInv
<1>3. LedgerInv /\ RestTyped => TypeOK
  BY TypeParts DEF LedgerInv
<1> QED
  BY <1>1, <1>2, <1>3, LedgerAlways, PTL DEF Spec

-------------------------------------------------------------------------------
\* Custody.
Deposited == [m \in Markets |-> [u \in Users |-> position[m][u].total_deposited]]

BooksAgree == held + GridTotal(paid) = GridTotal(Deposited) + retained

\* The property, written with one sum over markets and users per book.
LEMMA BooksAreCustody == BooksAgree <=> CustodyMatchesBooks
<1>1. \A m \in Markets : SumFunction(Deposited[m]) = DepositsOf(m)
  BY DEF Deposited, DepositsOf
<1>2. GridTotal(Deposited) = SumFunction([m \in Markets |-> DepositsOf(m)])
  BY <1>1 DEF GridTotal
<1> QED
  BY <1>2 DEF BooksAgree, CustodyMatchesBooks, GridTotal

\* The two books are grids of integers, before and after a step.
LEMMA GridsTyped ==
  ASSUME LedgerTyped
  PROVE  Deposited \in Grid /\ paid \in Grid
<1>1. \A m \in Markets, u \in Users : position[m][u].total_deposited \in Int
  BY DEF LedgerTyped, Position
<1> QED
  BY <1>1 DEF Deposited, Grid, LedgerTyped

LEMMA GridsTypedNext ==
  ASSUME LedgerTyped'
  PROVE  Deposited' \in Grid /\ paid' \in Grid
<1>1. \A m \in Markets, u \in Users : position'[m][u].total_deposited \in Int
  BY DEF LedgerTyped, Position
<1> QED
  BY <1>1 DEF Deposited, Grid, LedgerTyped

\* What the invariant and its next state know of the money.
MoneyTyped == LedgerTyped /\ held \in Int /\ retained \in Int

\* A step that changes one deposit, and what the contract holds by as much.
LEMMA OneDepositMoves ==
  ASSUME BooksAgree, MoneyTyped, MoneyTyped', NEW m \in Markets, NEW u \in Users,
         \A n \in Markets, v \in Users : ~(n = m /\ v = u) =>
           position'[n][v].total_deposited = position[n][v].total_deposited,
         held' - held - retained' + retained
           = position'[m][u].total_deposited - position[m][u].total_deposited,
         paid' = paid
  PROVE  BooksAgree'
<1>1. Deposited \in Grid /\ Deposited' \in Grid /\ paid \in Grid
  BY GridsTyped, GridsTypedNext DEF MoneyTyped
<1> DEFINE f == Deposited[m]
           h == Deposited'[m]
<1>2. f \in [Users -> Int] /\ h \in [Users -> Int]
  BY <1>1 DEF Grid
<1>3. /\ \A v \in Users : v # u => h[v] = f[v]
      /\ h[u] - f[u] = held' - held - retained' + retained
      /\ \A n \in Markets : n # m => Deposited'[n] = Deposited[n]
  BY DEF Deposited
<1> HIDE DEF f, h
<1>4. SumFunction(h) = SumFunction(f) + h[u] - f[u]
  BY <1>2, <1>3, CellChanges
<1>5. GridTotal(Deposited') = GridTotal(Deposited) + SumFunction(h) - SumFunction(f)
  BY <1>1, <1>3, RowChanges DEF f, h
<1>6. SumFunction(f) \in Int /\ GridTotal(Deposited) \in Int /\ GridTotal(paid) \in Int
  BY <1>1, RowIsInt, GridIsInt DEF f
<1>7. h[u] \in Int /\ f[u] \in Int
  BY <1>2
<1>8. BooksAgree' <=> held' + GridTotal(paid') = GridTotal(Deposited') + retained'
  BY DEF BooksAgree, GridTotal
<1> QED
  BY <1>3, <1>4, <1>5, <1>6, <1>7, <1>8 DEF BooksAgree, MoneyTyped

\* A step that leaves the deposits of every market as they add up.
LEMMA DepositsStay ==
  ASSUME BooksAgree, MoneyTyped, MoneyTyped',
         \A n \in Markets, v \in Users :
           position'[n][v].total_deposited = position[n][v].total_deposited,
         paid' = paid, held' = held, retained' = retained
  PROVE  BooksAgree'
<1>1. Deposited' = Deposited
  BY DEF Deposited
<1> QED
  BY <1>1 DEF BooksAgree, GridTotal

\* A step on one position moves the deposits by the difference it makes there.
LEMMA DepositsMove ==
  ASSUME BooksAgree, MoneyTyped, MoneyTyped', NEW m \in Markets,
         NEW u \in Users, NEW v \in Users, u # v,
         \A n \in Markets, w \in Users : ~(n = m /\ w \in {u, v}) =>
           position'[n][w].total_deposited = position[n][w].total_deposited,
         position'[m][u].total_deposited + position'[m][v].total_deposited
           = position[m][u].total_deposited + position[m][v].total_deposited,
         paid' = paid, held' = held, retained' = retained
  PROVE  BooksAgree'
<1>1. Deposited \in Grid /\ Deposited' \in Grid
  BY GridsTyped, GridsTypedNext DEF MoneyTyped
<1> DEFINE f == Deposited[m]
           h == Deposited'[m]
<1>2. f \in [Users -> Int] /\ h \in [Users -> Int]
  BY <1>1 DEF Grid
<1>3. /\ \A w \in Users : w # u /\ w # v => h[w] = f[w]
      /\ h[u] + h[v] = f[u] + f[v]
      /\ \A n \in Markets : n # m => Deposited'[n] = Deposited[n]
  BY DEF Deposited
<1> HIDE DEF f, h
<1>4. SumFunction(h) = SumFunction(f)
  BY <1>2, <1>3, CellsTrade
<1>5. GridTotal(Deposited') = GridTotal(Deposited) + SumFunction(h) - SumFunction(f)
  BY <1>1, <1>3, RowChanges DEF f, h
<1>6. SumFunction(f) \in Int /\ GridTotal(Deposited) \in Int
  BY <1>1, RowIsInt, GridIsInt DEF f
<1>7. GridTotal(Deposited') = GridTotal(Deposited)
  BY <1>4, <1>5, <1>6
<1> QED
  BY <1>7 DEF BooksAgree, GridTotal

-------------------------------------------------------------------------------
\* Action by action.
LEMMA DepositBooked ==
  ASSUME BooksAgree, MoneyTyped, MoneyTyped', NEW m \in Markets, NEW u \in Users,
         NEW amount \in AmountInputs, Deposit(u, m, amount)
  PROVE  BooksAgree'
<1> DEFINE p == [position[m][u] EXCEPT !.total_deposited = @ + amount, !.stored = TRUE]
<1>1. position \in [Markets -> [Users -> Position]] /\ position[m][u] \in Position
  BY DEF MoneyTyped, LedgerTyped
<1>2. position' = [position EXCEPT ![m] = [@ EXCEPT ![u] = p]]
  BY <1>1 DEF Deposit, Position
<1>3. p.total_deposited = position[m][u].total_deposited + amount
  BY <1>1 DEF Position
<1> HIDE DEF p
<1>4. \A n \in Markets, v \in Users :
        position'[n][v] = IF n = m /\ v = u THEN p ELSE position[n][v]
  BY <1>1, <1>2
<1>5. held' = held + amount /\ paid' = paid /\ retained' = retained
  BY DEF Deposit
<1>6. amount \in Int /\ held \in Int /\ retained \in Int /\ position[m][u].total_deposited \in Int
  BY <1>1, ConstantsAssumption DEF MoneyTyped, Position
<1> QED
  BY <1>3, <1>4, <1>5, <1>6, OneDepositMoves

\* The calls one by one: what leaves a position leaves the contract, or stays as a
\* retained fee.
LEMMA WithdrawBooked ==
  ASSUME BooksAgree, MoneyTyped, MoneyTyped', NEW m \in Markets, NEW u \in Users,
         NEW amount \in AmountInputs, Withdraw(u, m, amount)
  PROVE  BooksAgree'
<1> DEFINE fee == WithdrawalFee(u, amount)
           p == [position[m][u] EXCEPT !.total_deposited = @ - (amount + fee)]
<1>1. position \in [Markets -> [Users -> Position]] /\ position[m][u] \in Position
  BY DEF MoneyTyped, LedgerTyped
<1>2. amount \in Nat /\ fee \in Nat
  BY ConstantsAssumption, ScaledIsNat DEF Withdraw, WithdrawalFee, MoneyTyped, LedgerTyped
<1>3. /\ position' = [position EXCEPT ![m][u].total_deposited = @ - (amount + fee)]
      /\ RouteFee(fee, amount) /\ paid' = paid
  BY DEF Withdraw, DebitPosition
<1> HIDE DEF fee
<1>4. position' = [position EXCEPT ![m] = [@ EXCEPT ![u] = p]]
  BY <1>1, <1>3 DEF Position
<1>5. p.total_deposited = position[m][u].total_deposited - (amount + fee)
  BY <1>1 DEF Position
<1> HIDE DEF p
<1>6. \A n \in Markets, v \in Users :
        position'[n][v] = IF n = m /\ v = u THEN p ELSE position[n][v]
  BY <1>1, <1>4
<1>7. held \in Int /\ retained \in Int /\ position[m][u].total_deposited \in Int
  BY <1>1 DEF MoneyTyped, Position
<1>8. held' - held - retained' + retained = 0 - (amount + fee)
  BY <1>2, <1>3, <1>7 DEF RouteFee
<1>9. position'[m][u].total_deposited - position[m][u].total_deposited = 0 - (amount + fee)
  BY <1>2, <1>5, <1>6, <1>7
<1> QED
  BY <1>3, <1>6, <1>8, <1>9, OneDepositMoves

LEMMA RefundBooked ==
  ASSUME BooksAgree, MoneyTyped, MoneyTyped', NEW m \in Markets, NEW u \in Users,
         RefundCanceled(u, m)
  PROVE  BooksAgree'
<1> DEFINE p == [position[m][u] EXCEPT !.total_deposited = 0, !.locked_collateral = 0]
<1>1. position \in [Markets -> [Users -> Position]] /\ position[m][u] \in Position
  BY DEF MoneyTyped, LedgerTyped
<1>2. position' = [position EXCEPT ![m] = [@ EXCEPT ![u] = p]]
  BY <1>1 DEF RefundCanceled, Position
<1>3. p.total_deposited = 0
  BY <1>1 DEF Position
<1> HIDE DEF p
<1>4. \A n \in Markets, v \in Users :
        position'[n][v] = IF n = m /\ v = u THEN p ELSE position[n][v]
  BY <1>1, <1>2
<1>5. held' = held - position[m][u].total_deposited /\ paid' = paid /\ retained' = retained
  BY DEF RefundCanceled
<1>6. held \in Int /\ retained \in Int /\ position[m][u].total_deposited \in Int
  BY <1>1 DEF MoneyTyped, Position
<1>7. held' - held - retained' + retained
        = position'[m][u].total_deposited - position[m][u].total_deposited
  BY <1>3, <1>4, <1>5, <1>6
<1> QED
  BY <1>4, <1>5, <1>7, OneDepositMoves

\* Trades and transfers move shares, not deposits.
LEMMA SharesMoveNoDeposit ==
  ASSUME NEW p \in Position, NEW yes, NEW no, NEW price
  PROVE  WithShares(p, yes, no, price).total_deposited = p.total_deposited
BY DEF WithShares, Position

LEMMA TradeBooked ==
  ASSUME BooksAgree, MoneyTyped, MoneyTyped', NEW m \in Markets, NEW u \in Users,
         NEW yes_delta, NEW no_delta, NEW price, Trade(u, m, yes_delta, no_delta, price)
  PROVE  BooksAgree'
<1> DEFINE p == WithShares(position[m][u], position[m][u].yes_shares + yes_delta,
                           position[m][u].no_shares + no_delta, price)
<1>1. position \in [Markets -> [Users -> Position]] /\ position[m][u] \in Position
  BY DEF MoneyTyped, LedgerTyped
<1>2. /\ position' = [position EXCEPT ![m][u] = p]
      /\ held' = held /\ paid' = paid /\ retained' = retained
  BY DEF Trade
<1>3. p.total_deposited = position[m][u].total_deposited
  BY <1>1, SharesMoveNoDeposit
<1> HIDE DEF p
<1> QED
  BY <1>1, <1>2, <1>3, DepositsStay

\* A transfer moves no deposit; a merge moves one within a row.
LEMMA TransferBooked ==
  ASSUME BooksAgree, MoneyTyped, MoneyTyped', NEW m \in Markets, NEW from \in Users,
         NEW to \in Users, NEW yes, NEW no, NEW price, NEW request,
         Transfer(m, from, to, yes, no, price, request)
  PROVE  BooksAgree'
<1> DEFINE source == position[m][from]
           dest == position[m][to]
           p == WithShares(source, source.yes_shares - yes, source.no_shares - no, price)
           q == WithShares(dest, dest.yes_shares + yes, dest.no_shares + no, price)
<1>1. /\ position \in [Markets -> [Users -> Position]]
      /\ source \in Position /\ dest \in Position
  BY DEF MoneyTyped, LedgerTyped
<1>2. /\ position' = [position EXCEPT ![m][from] = p, ![m][to] = q]
      /\ held' = held /\ paid' = paid /\ retained' = retained
  BY DEF Transfer
<1>3. p.total_deposited = source.total_deposited /\ q.total_deposited = dest.total_deposited
  BY <1>1, SharesMoveNoDeposit
<1> HIDE DEF p, q
<1>4. \A n \in Markets, u \in Users :
        position'[n][u] = IF n = m /\ u = to THEN q
                          ELSE IF n = m /\ u = from THEN p ELSE position[n][u]
  BY <1>1, <1>2
<1>5. \A n \in Markets, u \in Users :
        position'[n][u].total_deposited = position[n][u].total_deposited
  BY <1>3, <1>4
<1> QED
  BY <1>2, <1>5, DepositsStay

LEMMA MergeBooked ==
  ASSUME BooksAgree, MoneyTyped, MoneyTyped', ~OneName, NEW m \in Markets, NEW owner,
         NEW primary \in Users, NEW other \in Users, NEW price, NEW request,
         Merge(m, owner, primary, other, price, request)
  PROVE  BooksAgree'
<1> DEFINE p == position[m][primary]
           q == position[m][other]
           r == WithShares(p, p.yes_shares + q.yes_shares, p.no_shares + q.no_shares, price)
           merged == Merged(p, q, price)
           rest == Emptied(q)
<1>1. /\ position \in [Markets -> [Users -> Position]]
      /\ p \in Position /\ q \in Position
  BY DEF MoneyTyped, LedgerTyped
<1>2. /\ position' = [position EXCEPT ![m][primary] = merged, ![m][other] = rest]
      /\ primary # other
      /\ held' = held /\ paid' = paid /\ retained' = retained
  BY DEF Merge
<1>3. r.total_deposited = p.total_deposited
  BY <1>1, SharesMoveNoDeposit
<1>4. merged.total_deposited = p.total_deposited + q.total_deposited
  <2>1. merged = [r EXCEPT !.total_deposited = r.total_deposited + q.total_deposited]
    BY DEF Merged
  <2>2. "total_deposited" \in DOMAIN r
    BY <1>1 DEF WithShares, Position
  <2> HIDE DEF merged, r
  <2> QED
    BY <1>3, <2>1, <2>2
<1>5. rest.total_deposited = 0
  BY <1>1 DEF Emptied, Position
<1> HIDE DEF merged, rest
<1>6. \A n \in Markets, u \in Users :
        position'[n][u] = IF n = m /\ u = other THEN rest
                          ELSE IF n = m /\ u = primary THEN merged ELSE position[n][u]
  BY <1>1, <1>2
<1>7. p.total_deposited \in Int /\ q.total_deposited \in Int
  BY <1>1 DEF Position
<1>8. /\ position'[m][primary] = merged /\ position'[m][other] = rest
      /\ \A n \in Markets, w \in Users : ~(n = m /\ w \in {primary, other}) =>
           position'[n][w] = position[n][w]
  <2>1. primary # other
    BY <1>2
  <2>2. position'[m][primary] = merged
    BY <1>6, <2>1
  <2>3. position'[m][other] = rest
    BY <1>6
  <2>4. ASSUME NEW n \in Markets, NEW w \in Users, ~(n = m /\ w \in {primary, other})
        PROVE  position'[n][w] = position[n][w]
    BY <1>6, <2>4
  <2> QED
    BY <2>2, <2>3, <2>4
<1>9. position'[m][primary].total_deposited + position'[m][other].total_deposited
        = p.total_deposited + q.total_deposited
  <2>1. /\ position'[m][primary].total_deposited = p.total_deposited + q.total_deposited
        /\ position'[m][other].total_deposited = 0
    BY <1>4, <1>5, <1>8, Zenon
  <2>2. p.total_deposited + q.total_deposited \in Int
    BY <1>7
  <2> QED
    BY <2>1, <2>2
<1>10. \A n \in Markets, w \in Users : ~(n = m /\ w \in {primary, other}) =>
         position'[n][w].total_deposited = position[n][w].total_deposited
  BY <1>8, Zenon
<1> HIDE DEF p, q
<1> QED
  BY <1>2, <1>9, <1>10, DepositsMove DEF p, q

\* What settlement pays is taken from the contract and added to what was paid.
LEMMA SettleAllBooked ==
  ASSUME BooksAgree, MoneyTyped, MoneyTyped', NEW m \in Markets, NEW users,
         SettleAll(m, users)
  PROVE  BooksAgree'
<1> DEFINE payout == Paying(m, users)
           row == [u \in Users |-> paid[m][u] + payout[u]]
<1>1. /\ position \in [Markets -> [Users -> Position]]
      /\ paid \in Grid /\ Deposited \in Grid
  BY GridsTyped DEF MoneyTyped, LedgerTyped
<1>2. payout \in [Users -> Int] /\ SumFunction(payout) \in Int
  BY PayingTyped DEF MoneyTyped
<1>3. /\ paid' = [paid EXCEPT ![m] = row]
      /\ held' = held - SumFunction(payout)
      /\ retained' = retained
      /\ position' = [position EXCEPT ![m] =
           [u \in Users |-> IF u \in users /\ Payable(m, u)
                            THEN [position[m][u] EXCEPT !.is_settled = TRUE]
                            ELSE position[m][u]]]
  BY SettleAllMoves
<1>4. Deposited' = Deposited
  <2>1. \A p \in Position : [p EXCEPT !.is_settled = TRUE].total_deposited = p.total_deposited
    BY DEF Position
  <2>2. \A n \in Markets, u \in Users :
          position'[n][u].total_deposited = position[n][u].total_deposited
    BY <1>1, <1>3, <2>1
  <2> QED
    BY <2>2 DEF Deposited
<1> HIDE DEF payout
<1>5. paid[m] \in [Users -> Int] /\ row \in [Users -> Int] /\ \A u \in Users : row[u] = paid[m][u] + payout[u]
  BY <1>1, <1>2 DEF Grid
<1> HIDE DEF row
<1>6. SumFunction(row) = SumFunction(paid[m]) + SumFunction(payout)
  BY <1>2, <1>5, RowsAdd
<1>7. /\ paid' \in Grid /\ paid'[m] = row
      /\ \A n \in Markets : n # m => paid'[n] = paid[n]
  BY <1>1, <1>3, <1>5 DEF Grid
<1>8. GridTotal(paid') = GridTotal(paid) + SumFunction(row) - SumFunction(paid[m])
  BY <1>1, <1>7, RowChanges
<1>9. GridTotal(paid) \in Int /\ SumFunction(paid[m]) \in Int /\ GridTotal(Deposited) \in Int
  BY <1>1, GridIsInt, RowIsInt
<1>10. BooksAgree' <=> held' + GridTotal(paid') = GridTotal(Deposited') + retained'
  BY DEF BooksAgree, GridTotal
<1> QED
  BY <1>2, <1>3, <1>4, <1>6, <1>8, <1>9, <1>10 DEF BooksAgree, MoneyTyped

LEMMA NextBooked ==
  ASSUME BooksAgree, MoneyTyped, MoneyTyped', ~OneName, [Next]_vars
  PROVE  BooksAgree'
<1>1. ASSUME NEW m \in Markets, NEW u \in Users, UserStep(u, m)
      PROVE  BooksAgree'
  <2>1. CASE \E amount \in AmountInputs : Deposit(u, m, amount) \/ Withdraw(u, m, amount)
    BY <2>1, DepositBooked, WithdrawBooked
  <2>2. CASE \E yes, no \in DeltaInputs, price \in PriceInputs : Trade(u, m, yes, no, price)
    BY <2>2, TradeBooked
  <2>3. CASE Settle(u, m)
    BY <2>3, SettleAllBooked DEF Settle
  <2>4. CASE RefundCanceled(u, m)
    BY <2>4, RefundBooked
  <2> QED
    BY <1>1, <2>1, <2>2, <2>3, <2>4 DEF UserStep
<1>2. ASSUME NEW m \in Markets, PositionStep(m)
      PROVE  BooksAgree'
  BY <1>2, TransferBooked, MergeBooked DEF PositionStep
<1>3. ASSUME NEW m \in Markets, SettlementStep(m)
      PROVE  BooksAgree'
  BY <1>3, SettleAllBooked DEF SettlementStep, BatchSettle, SettlePage
<1>4. CASE \/ \E m \in Markets, from, to \in Users : MoveToken(m, from, to)
           \/ AdminStep \/ Tick \/ UNCHANGED vars
  <2>1. UNCHANGED <<position, paid, held, retained>>
    <3>1. CASE \E m \in Markets, from, to \in Users : MoveToken(m, from, to)
      BY <3>1 DEF MoveToken
    <3>2. CASE AdminStep
      BY <3>2 DEF AdminStep, Resolve, Cancel, Reopen, CloseToDeposits, SetMarket, Reconcile,
         SetEmergencyMode, SetFeeRate, AddFeeWaiver, RemoveFeeWaiver, SetTreasury, SetConfig,
         SetOutcomeToken
    <3>3. CASE Tick \/ UNCHANGED vars
      BY <3>3 DEF Tick, vars
    <3> QED
      BY <1>4, <3>1, <3>2, <3>3
  <2> QED
    BY <2>1, DepositsStay
<1> QED
  BY <1>1, <1>2, <1>3, <1>4 DEF Next

LEMMA InitBooked ==
  ASSUME Init
  PROVE  BooksAgree
<1>1. LedgerTyped
  BY InitLedger DEF LedgerInv
<1>2. Deposited = paid
  BY DEF Deposited, Init, EmptyPosition
<1>3. GridTotal(paid) \in Int
  BY <1>1, GridsTyped, GridIsInt
<1> QED
  BY <1>2, <1>3 DEF BooksAgree, Init

\* Unless a merge names one address twice, the contract holds the deposits on record
\* and the fees it kept, less what settlement paid, after any history of deposits,
\* withdrawals, settlements, merges and refunds (withdraw.rs, settlement.rs).
THEOREM CustodyHolds ==
  ASSUME ~OneName
  PROVE  Spec => []CustodyMatchesBooks
<1>1. Init => BooksAgree
  BY InitBooked
<1>2. LedgerInv /\ LedgerInv' /\ TypeOK /\ TypeOK' /\ BooksAgree /\ [Next]_vars => BooksAgree'
  <2>1. LedgerInv /\ TypeOK => MoneyTyped
    BY DEF LedgerInv, TypeOK, MoneyTyped
  <2>2. LedgerInv' /\ TypeOK' => MoneyTyped'
    BY DEF LedgerInv, TypeOK, MoneyTyped
  <2> QED
    BY <2>1, <2>2, NextBooked
<1>3. BooksAgree => CustodyMatchesBooks
  BY BooksAreCustody
<1> QED
  BY <1>1, <1>2, <1>3, LedgerAlways, TypeCorrect, PTL DEF Spec

-------------------------------------------------------------------------------
\* Claims.
NothingPaidEarly == \A m \in Markets : ~Resolved(m) => \A u \in Users : paid[m][u] = 0

ClaimsInv == NothingPaidEarly /\ ClaimsConserved

\* What the users can still redeem in m, and what they can redeem or were paid.
OpenRow(m) == [u \in Users |-> OpenClaim(m, u)]
DueRow(m) == [u \in Users |-> paid[m][u] + OpenClaim(m, u)]

LEMMA PayoutIsNat ==
  ASSUME NEW p \in Position, NEW result
  PROVE  Payout(p, result) \in Nat
BY DEF Payout, Position

\* What a user has been paid by a market and can still redeem from it.
LEMMA DueRowTyped ==
  ASSUME LedgerTyped, NEW m \in Markets
  PROVE  /\ OpenRow(m) \in [Users -> Int] /\ DueRow(m) \in [Users -> Int]
         /\ paid[m] \in [Users -> Int]
         /\ SumFunction(DueRow(m)) = SumFunction(paid[m]) + SumFunction(OpenRow(m))
<1>1. paid[m] \in [Users -> Int]
  BY DEF LedgerTyped
<1>2. \A u \in Users : OpenClaim(m, u) \in Int
  <2> TAKE u \in Users
  <2>1. position[m][u] \in Position
    BY DEF LedgerTyped
  <2> QED
    BY <2>1, PayoutIsNat DEF OpenClaim
<1>3. /\ OpenRow(m) \in [Users -> Int] /\ DueRow(m) \in [Users -> Int]
      /\ \A u \in Users : DueRow(m)[u] = paid[m][u] + OpenRow(m)[u]
  BY <1>1, <1>2 DEF OpenRow, DueRow
<1> QED
  BY <1>1, <1>3, RowsAdd

\* ClaimsConserved with one sum, before and after a step.
LEMMA DueIsClaims ==
  ASSUME LedgerTyped
  PROVE  ClaimsConserved <=>
           \A m \in Markets : Resolved(m) => SumFunction(DueRow(m)) = claims[m]
BY DueRowTyped DEF ClaimsConserved, OpenRow

LEMMA DueIsClaimsNext ==
  ASSUME LedgerTyped'
  PROVE  ClaimsConserved' <=>
           \A m \in Markets : Resolved(m)' => SumFunction(DueRow(m)') = claims'[m]
<1>1. \A m \in Markets :
        SumFunction(DueRow(m)') = SumFunction(paid'[m]) + SumFunction(OpenRow(m)')
  <2> TAKE m \in Markets
  <2>1. paid'[m] \in [Users -> Int]
    BY DEF LedgerTyped
  <2>2. \A u \in Users : OpenClaim(m, u)' \in Int
    <3> TAKE u \in Users
    <3>1. position'[m][u] \in Position
      BY DEF LedgerTyped
    <3> QED
      BY <3>1, PayoutIsNat DEF OpenClaim
  <2>3. /\ OpenRow(m)' \in [Users -> Int] /\ DueRow(m)' \in [Users -> Int]
        /\ \A u \in Users : DueRow(m)'[u] = paid'[m][u] + OpenRow(m)'[u]
    BY <2>1, <2>2 DEF OpenRow, DueRow
  <2> QED
    BY <2>1, <2>3, RowsAdd
<1> QED
  BY <1>1 DEF ClaimsConserved, OpenRow

\* A step that resolves nothing, leaves the other markets alone, and one market as
\* it adds up if that is resolved.
LEMMA ClaimsFrame ==
  ASSUME LedgerTyped, LedgerTyped', ClaimsInv, NothingPaidEarly',
         \A n \in Markets : Resolved(n)' =>
           Resolved(n) /\ claims'[n] = claims[n] /\ SumFunction(DueRow(n)') = SumFunction(DueRow(n))
  PROVE  ClaimsInv'
<1>1. \A n \in Markets : Resolved(n) => SumFunction(DueRow(n)) = claims[n]
  BY DueIsClaims DEF ClaimsInv
<1>2. ClaimsConserved'
  BY <1>1, DueIsClaimsNext
<1> QED
  BY <1>2 DEF ClaimsInv

\* The steps of a market that is still open.
LEMMA OpenMarketStep ==
  ASSUME LedgerTyped, LedgerTyped', ClaimsInv, NEW m \in Markets, ~Resolved(m),
         UNCHANGED <<market, paid, claims>>,
         \A n \in Markets : n # m => position'[n] = position[n]
  PROVE  ClaimsInv'
<1>1. NothingPaidEarly'
  BY DEF ClaimsInv, NothingPaidEarly, Resolved
<1>2. \A n \in Markets : Resolved(n)' => Resolved(n) /\ n # m
  BY DEF Resolved
<1>3. \A n \in Markets : n # m => DueRow(n)' = DueRow(n)
  BY DEF DueRow, OpenClaim
<1> QED
  BY <1>1, <1>2, <1>3, ClaimsFrame

\* The steps that leave positions and payments alone, and no market that is
\* resolved by them.
LEMMA StillStep ==
  ASSUME LedgerTyped, LedgerTyped', ClaimsInv, UNCHANGED <<position, paid, claims>>,
         \A n \in Markets : /\ Resolved(n)' <=> Resolved(n)
                            /\ Resolved(n) => market'[n].result = market[n].result
  PROVE  ClaimsInv'
<1>1. NothingPaidEarly'
  BY DEF ClaimsInv, NothingPaidEarly
<1>2. \A n \in Markets : Resolved(n) => DueRow(n)' = DueRow(n)
  BY DEF DueRow, OpenClaim
<1> QED
  BY <1>1, <1>2, ClaimsFrame

\* Two positions that are not settled trade shares or deposits, and lose nothing.
LEMMA PairStep ==
  ASSUME LedgerTyped, LedgerTyped', ClaimsInv, NEW m \in Markets,
         NEW u \in Users, NEW v \in Users, u # v,
         ~position[m][u].is_settled, ~position[m][v].is_settled,
         NEW p \in Position, NEW q \in Position, ~p.is_settled, ~q.is_settled,
         position'[m][u] = p, position'[m][v] = q,
         \A w \in Users : w # u /\ w # v => position'[m][w] = position[m][w],
         \A n \in Markets : n # m => position'[n] = position[n],
         UNCHANGED <<market, paid, claims>>,
         \A result \in Results :
           Payout(p, result) + Payout(q, result)
             = Payout(position[m][u], result) + Payout(position[m][v], result)
  PROVE  ClaimsInv'
<1>1. position \in [Markets -> [Users -> Position]] /\ market[m].result \in Results
  BY DEF LedgerTyped, Market
<1>3. NothingPaidEarly'
  BY DEF ClaimsInv, NothingPaidEarly, Resolved
<1> DEFINE f == OpenRow(m)
           h == OpenRow(m)'
           result == market[m].result
<1>4. /\ f[u] = Payout(position[m][u], result) /\ f[v] = Payout(position[m][v], result)
      /\ h[u] = Payout(p, result) /\ h[v] = Payout(q, result)
      /\ \A w \in Users : w # u /\ w # v => h[w] = f[w]
  <2>1. \A w \in Users : h[w] = IF position'[m][w].is_settled THEN 0
                                ELSE Payout(position'[m][w], result)
    BY DEF OpenRow, OpenClaim, Payout
  <2>2. \A w \in Users : f[w] = IF position[m][w].is_settled THEN 0
                                ELSE Payout(position[m][w], result)
    BY DEF OpenRow, OpenClaim
  <2> HIDE DEF f, h
  <2> QED
    BY <2>1, <2>2
<1>5. h[u] + h[v] = f[u] + f[v]
  BY <1>1, <1>4
<1>6. f \in [Users -> Int] /\ h \in [Users -> Int]
  <2>1. \A w \in Users : position'[m][w] \in Position
    BY DEF LedgerTyped
  <2>2. \A w \in Users : Payout(position'[m][w], result) \in Int
    BY <2>1, PayoutIsNat
  <2>3. \A w \in Users : h[w] \in Int
    BY <2>2 DEF OpenRow, OpenClaim, Payout
  <2>4. f \in [Users -> Int]
    BY DueRowTyped
  <2> QED
    BY <2>3, <2>4 DEF OpenRow
<1>7. SumFunction(h) = SumFunction(f)
  <2> HIDE DEF f, h
  <2> QED
    BY <1>4, <1>5, <1>6, CellsTrade
<1>8. SumFunction(DueRow(m)') = SumFunction(DueRow(m))
  <2>1. paid[m] \in [Users -> Int] /\ DueRow(m) \in [Users -> Int]
        /\ SumFunction(DueRow(m)) = SumFunction(paid[m]) + SumFunction(f)
    BY DueRowTyped
  <2>2. \A w \in Users : DueRow(m)'[w] = paid[m][w] + h[w]
    BY DEF DueRow, OpenRow
  <2>3. DueRow(m)' \in [Users -> Int]
    BY <1>6, <2>1 DEF DueRow, OpenRow
  <2> HIDE DEF f, h
  <2>4. SumFunction(DueRow(m)') = SumFunction(paid[m]) + SumFunction(h)
    BY <1>6, <2>1, <2>2, <2>3, RowsAdd
  <2> QED
    BY <1>7, <2>1, <2>4
<1>9. ASSUME NEW n \in Markets, n # m PROVE DueRow(n)' = DueRow(n)
  <2>1. position'[n] = position[n] /\ market' = market /\ paid' = paid
    BY <1>9
  <2> QED
    BY <2>1 DEF DueRow, OpenClaim, Payout
<1>10. \A n \in Markets : Resolved(n)' => Resolved(n)
  BY DEF Resolved
<1> QED
  BY <1>3, <1>8, <1>9, <1>10, ClaimsFrame

\* Transfers and merges move claims between two users.
LEMMA SharesWritten ==
  ASSUME NEW p \in Position, NEW yes, NEW no, NEW price
  PROVE  LET r == WithShares(p, yes, no, price)
         IN  /\ r.yes_shares = yes /\ r.no_shares = no
             /\ r.total_deposited = p.total_deposited
BY DEF WithShares, Position

LEMMA TransferClaims ==
  ASSUME LedgerTyped, LedgerTyped', ClaimsInv, ~OneName,
         NEW m \in Markets, NEW from \in Users, NEW to \in Users,
         NEW yes \in DeltaInputs, NEW no \in DeltaInputs, NEW price \in PriceInputs,
         NEW request, Transfer(m, from, to, yes, no, price, request)
  PROVE  ClaimsInv'
<1> DEFINE source == position[m][from]
           dest == position[m][to]
           given == source.yes_shares - yes
           left == source.no_shares - no
           taken == dest.yes_shares + yes
           added == dest.no_shares + no
           p == WithShares(source, given, left, price)
           q == WithShares(dest, taken, added, price)
<1>1. /\ position \in [Markets -> [Users -> Position]]
      /\ source \in Position /\ dest \in Position
  BY DEF LedgerTyped
<1>2. /\ position' = [position EXCEPT ![m][from] = p, ![m][to] = q]
      /\ UNCHANGED <<market, paid, claims>>
      /\ from # to /\ ~source.is_settled /\ ~dest.is_settled
      /\ ValidMarketPrice(price)
  BY DEF Transfer, Transferable
<1>3. /\ yes \in Nat /\ no \in Nat /\ yes <= source.yes_shares /\ no <= source.no_shares
      /\ source.yes_shares \in Nat /\ source.no_shares \in Nat
      /\ dest.yes_shares \in Nat /\ dest.no_shares \in Nat
      /\ source.total_deposited \in Nat /\ dest.total_deposited \in Nat
  BY <1>1, ConstantsAssumption DEF Transfer, Holds, Position
<1>4. given \in Nat /\ left \in Nat /\ taken \in Nat /\ added \in Nat
  BY <1>3
<1>5. /\ given + taken = source.yes_shares + dest.yes_shares
      /\ left + added = source.no_shares + dest.no_shares
  BY <1>3
<1> HIDE DEF given, left, taken, added
<1>6. p \in Position /\ ~p.is_settled /\ q \in Position /\ ~q.is_settled
  <2> HIDE DEF source, dest
  <2>1. p \in Position /\ p.is_settled = source.is_settled
    BY <1>1, <1>2, <1>4, WithSharesTyped
  <2>2. q \in Position /\ q.is_settled = dest.is_settled
    BY <1>1, <1>2, <1>4, WithSharesTyped
  <2> QED
    BY <1>2, <2>1, <2>2
<1>7. /\ p.yes_shares = given /\ p.no_shares = left /\ p.total_deposited = source.total_deposited
      /\ q.yes_shares = taken /\ q.no_shares = added /\ q.total_deposited = dest.total_deposited
  BY <1>1, SharesWritten
<1> HIDE DEF p, q
<1>8. /\ position'[m][from] = p /\ position'[m][to] = q
      /\ \A w \in Users : w # from /\ w # to => position'[m][w] = position[m][w]
      /\ \A n \in Markets : n # m => position'[n] = position[n]
  BY <1>1, <1>2
<1>9. \A result \in Results :
        Payout(p, result) + Payout(q, result) = Payout(source, result) + Payout(dest, result)
  BY <1>5, <1>7 DEF Payout
<1>10. UNCHANGED <<market, paid, claims>> /\ from # to /\ ~source.is_settled /\ ~dest.is_settled
  BY <1>2
<1> QED
  BY <1>6, <1>8, <1>9, <1>10, PairStep

LEMMA MergeClaims ==
  ASSUME LedgerTyped, LedgerTyped', ClaimsInv, ~OneName,
         NEW m \in Markets, NEW owner, NEW primary \in Users, NEW other \in Users,
         NEW price, NEW request, Merge(m, owner, primary, other, price, request)
  PROVE  ClaimsInv'
<1> DEFINE source == position[m][primary]
           dest == position[m][other]
           yes == source.yes_shares + dest.yes_shares
           no == source.no_shares + dest.no_shares
           r == WithShares(source, yes, no, price)
           p == Merged(source, dest, price)
           q == Emptied(dest)
<1>1. /\ position \in [Markets -> [Users -> Position]]
      /\ source \in Position /\ dest \in Position
  BY DEF LedgerTyped
<1>2. /\ position' = [position EXCEPT ![m][primary] = p, ![m][other] = q]
      /\ UNCHANGED <<market, paid, claims>>
      /\ primary # other /\ ~source.is_settled /\ ~dest.is_settled
      /\ ValidMarketPrice(price)
  BY DEF Merge
<1>3. p \in Position /\ ~p.is_settled /\ q \in Position /\ ~q.is_settled
  BY <1>1, <1>2, MergedTyped
<1>4. /\ q.yes_shares = 0 /\ q.no_shares = 0 /\ q.total_deposited = 0
  BY <1>1 DEF Emptied, Position
<1>5. yes \in Nat /\ no \in Nat
  BY <1>1 DEF Position
<1>6. p = [r EXCEPT !.total_deposited = r.total_deposited + dest.total_deposited]
  BY DEF Merged
<1>7. /\ r \in Position /\ r.yes_shares = yes /\ r.no_shares = no
      /\ r.total_deposited = source.total_deposited
  <2> HIDE DEF yes, no
  <2> QED
    BY <1>1, <1>2, <1>5, WithSharesTyped, SharesWritten
<1> HIDE DEF p, q, r
<1>8. /\ p.yes_shares = yes /\ p.no_shares = no
      /\ p.total_deposited = source.total_deposited + dest.total_deposited
  BY <1>6, <1>7 DEF Position
<1>9. /\ source.total_deposited \in Nat /\ dest.total_deposited \in Nat
      /\ source.yes_shares \in Nat /\ dest.yes_shares \in Nat
      /\ source.no_shares \in Nat /\ dest.no_shares \in Nat
  BY <1>1 DEF Position
<1>10. \A result \in Results :
         Payout(p, result) + Payout(q, result) = Payout(source, result) + Payout(dest, result)
  BY <1>4, <1>8, <1>9 DEF Payout
<1>11. /\ \A w \in Users : w # primary /\ w # other => position'[m][w] = position[m][w]
       /\ \A n \in Markets : n # m => position'[n] = position[n]
  BY <1>1, <1>2
<1>12. position'[m][primary] = p /\ position'[m][other] = q
  BY <1>1, <1>2
<1>13. UNCHANGED <<market, paid, claims>> /\ primary # other
       /\ ~source.is_settled /\ ~dest.is_settled
  BY <1>2
<1> HIDE DEF source, dest
<1> QED
  BY <1>3, <1>10, <1>11, <1>12, <1>13, PairStep DEF source, dest

\* Settlement turns open claims into payments of the same amount.
LEMMA SettleAllClaims ==
  ASSUME LedgerTyped, LedgerTyped', ClaimsInv, NEW m \in Markets, Resolved(m),
         NEW users, SettleAll(m, users)
  PROVE  ClaimsInv'
<1> DEFINE payout == Paying(m, users)
           row == [u \in Users |-> paid[m][u] + payout[u]]
           written == [u \in Users |-> IF u \in users /\ Payable(m, u)
                                       THEN [position[m][u] EXCEPT !.is_settled = TRUE]
                                       ELSE position[m][u]]
<1>1. /\ position \in [Markets -> [Users -> Position]]
      /\ paid \in [Markets -> [Users -> Int]]
  BY DEF LedgerTyped
<1>2. payout \in [Users -> Nat]
  BY PayingTyped
<1>3. /\ paid' = [paid EXCEPT ![m] = row]
      /\ position' = [position EXCEPT ![m] = written]
      /\ market' = market /\ claims' = claims
  BY SettleAllMoves
<1>4. ASSUME NEW u \in Users
      PROVE  row[u] + OpenClaim(m, u)' = paid[m][u] + OpenClaim(m, u)
  <2>1. position'[m][u] = written[u]
    BY <1>1, <1>3
  <2>2. CASE u \in users /\ Payable(m, u)
    <3>1. ~position[m][u].is_settled
      BY <2>2 DEF Payable
    <3>2. [position[m][u] EXCEPT !.is_settled = TRUE].is_settled
      BY <1>1 DEF Position
    <3>3. OpenClaim(m, u)' = 0
      BY <2>1, <2>2, <3>2 DEF OpenClaim
    <3>4. OpenClaim(m, u) = payout[u]
      BY <2>2, <3>1 DEF OpenClaim, Paying
    <3>5. row[u] = paid[m][u] + payout[u] /\ payout[u] \in Int /\ paid[m][u] \in Int
      BY <1>1, <1>2
    <3> HIDE DEF row, payout
    <3> QED
      BY <3>3, <3>4, <3>5
  <2>3. CASE ~(u \in users /\ Payable(m, u))
    <3>1. OpenClaim(m, u)' = OpenClaim(m, u)
      <4>1. position'[m][u] = position[m][u]
        BY <2>1, <2>3
      <4>2. market' = market
        BY <1>3
      <4> HIDE DEF row, payout, written
      <4> QED
        BY <4>1, <4>2 DEF OpenClaim, Payout
    <3>2. payout[u] = 0
      BY <2>3 DEF Paying
    <3>3. row[u] = paid[m][u]
      BY <1>1, <3>2
    <3> HIDE DEF row, payout
    <3> QED
      BY <3>1, <3>3
  <2> QED
    BY <2>2, <2>3
<1> HIDE DEF row, written, payout
<1>5. paid'[m] = row
  BY <1>1, <1>3
<1>6. DueRow(m)' = DueRow(m)
  BY <1>4, <1>5 DEF DueRow
<1>7. ASSUME NEW n \in Markets, n # m
      PROVE  DueRow(n)' = DueRow(n)
  <2>1. position'[n] = position[n] /\ paid'[n] = paid[n] /\ market' = market
    BY <1>1, <1>3, <1>7
  <2> QED
    BY <2>1 DEF DueRow, OpenClaim, Payout
<1>8. \A n \in Markets : SumFunction(DueRow(n)') = SumFunction(DueRow(n))
  BY <1>6, <1>7
<1>9. NothingPaidEarly'
  BY <1>1, <1>3 DEF ClaimsInv, NothingPaidEarly, Resolved
<1>10. \A n \in Markets : Resolved(n)' => Resolved(n)
  BY <1>3 DEF Resolved
<1> QED
  BY <1>3, <1>8, <1>9, <1>10, ClaimsFrame

\* Resolution records the claims that are open by then; nobody has been paid.
LEMMA ResolveClaims ==
  ASSUME LedgerTyped, LedgerTyped', SettledWhenResolved, claims \in [Markets -> Int],
         ClaimsInv, NEW m \in Markets, NEW result \in ResultInputs, Resolve(m, result)
  PROVE  ClaimsInv'
<1> DEFINE worth == [u \in Users |-> Payout(position[m][u], result)]
<1>1. /\ market' = [market EXCEPT ![m] = [@ EXCEPT !.status = "Resolved", !.result = result]]
      /\ claims' = [claims EXCEPT ![m] = SumFunction(worth)]
      /\ UNCHANGED <<position, paid>>
      /\ ~Resolved(m)
  BY DEF Resolve, Active, Resolved
<1>2. \A u \in Users : paid[m][u] = 0 /\ ~position[m][u].is_settled
  BY <1>1 DEF ClaimsInv, NothingPaidEarly, SettledWhenResolved
<1>3. market'[m].result = result
  <2>1. market \in [Markets -> Market]
    BY DEF LedgerTyped
  <2> QED
    BY <1>1, <2>1 DEF Market
<1>4. \A u \in Users : worth[u] \in Nat
  <2> TAKE u \in Users
  <2>1. position[m][u] \in Position
    BY DEF LedgerTyped
  <2> QED
    BY <2>1, PayoutIsNat
<1>5. DueRow(m)' = worth
  <2>1. \A u \in Users : OpenClaim(m, u)' = worth[u]
    BY <1>1, <1>2, <1>3 DEF OpenClaim, Payout
  <2>2. \A u \in Users : paid'[m][u] + OpenClaim(m, u)' = worth[u]
    <3> HIDE DEF worth
    <3> QED
      BY <1>1, <1>2, <1>4, <2>1
  <2> QED
    BY <2>2 DEF DueRow
<1> HIDE DEF worth
<1>6. claims'[m] = SumFunction(worth) /\ \A n \in Markets : n # m => claims'[n] = claims[n]
  BY <1>1
<1>7. \A n \in Markets : n # m => market'[n] = market[n]
  BY <1>1 DEF LedgerTyped
<1>8. ASSUME NEW n \in Markets, n # m
      PROVE  DueRow(n)' = DueRow(n)
  BY <1>1, <1>7, <1>8 DEF DueRow, OpenClaim, Payout
<1>9. ASSUME NEW n \in Markets, Resolved(n)'
      PROVE  SumFunction(DueRow(n)') = claims'[n]
  <2>1. CASE n = m
    BY <1>5, <1>6, <2>1
  <2>2. CASE n # m
    <3>1. Resolved(n)
      BY <1>7, <1>9, <2>2 DEF Resolved
    <3>2. SumFunction(DueRow(n)) = claims[n]
      BY <3>1, DueIsClaims DEF ClaimsInv
    <3> QED
      BY <1>6, <1>8, <2>2, <3>2
  <2> QED
    BY <2>1, <2>2
<1>10. NothingPaidEarly'
  <2> SUFFICES ASSUME NEW n \in Markets, ~Resolved(n)', NEW u \in Users
               PROVE  paid'[n][u] = 0
    BY DEF NothingPaidEarly
  <2>1. CASE n = m
    BY <1>1, <1>2, <2>1
  <2>2. CASE n # m
    <3>1. ~Resolved(n)
      BY <1>7, <2>2 DEF Resolved
    <3> QED
      BY <1>1, <3>1 DEF ClaimsInv, NothingPaidEarly
  <2> QED
    BY <2>1, <2>2
<1> QED
  BY <1>9, <1>10, DueIsClaimsNext DEF ClaimsInv

\* The calls on a market that is not resolved, and those that move no position.
LEMMA UserClaims ==
  ASSUME LedgerTyped, LedgerTyped', ClaimsInv, NEW m \in Markets, NEW u \in Users,
         UserStep(u, m)
  PROVE  ClaimsInv'
<1>1. CASE Settle(u, m)
  BY <1>1, SettleAllClaims DEF Settle
<1>2. CASE \/ \E amount \in AmountInputs : Deposit(u, m, amount) \/ Withdraw(u, m, amount)
           \/ \E yes, no \in DeltaInputs, price \in PriceInputs : Trade(u, m, yes, no, price)
           \/ RefundCanceled(u, m)
  <2>1. ~Resolved(m) /\ UNCHANGED <<market, paid, claims>>
    BY <1>2 DEF Deposit, Withdraw, Trade, RefundCanceled, Active, Resolved
  <2>2. \A n \in Markets : n # m => position'[n] = position[n]
    <3>1. position \in [Markets -> [Users -> Position]]
      BY DEF LedgerTyped
    <3>2. CASE \E amount \in AmountInputs : Deposit(u, m, amount)
      BY <3>1, <3>2 DEF Deposit
    <3>3. CASE \E amount \in AmountInputs : Withdraw(u, m, amount)
      BY <3>1, <3>3 DEF Withdraw, DebitPosition
    <3>4. CASE \E yes, no \in DeltaInputs, price \in PriceInputs : Trade(u, m, yes, no, price)
      BY <3>1, <3>4 DEF Trade
    <3>5. CASE RefundCanceled(u, m)
      BY <3>1, <3>5 DEF RefundCanceled
    <3> QED
      BY <1>2, <3>2, <3>3, <3>4, <3>5
  <2> QED
    BY <2>1, <2>2, OpenMarketStep
<1> QED
  BY <1>1, <1>2 DEF UserStep

LEMMA SettlementClaims ==
  ASSUME LedgerTyped, LedgerTyped', ClaimsInv, NEW m \in Markets, SettlementStep(m)
  PROVE  ClaimsInv'
BY SettleAllClaims DEF SettlementStep, BatchSettle, SettlePage

LEMMA PositionClaims ==
  ASSUME LedgerTyped, LedgerTyped', ClaimsInv, ~OneName, NEW m \in Markets, PositionStep(m)
  PROVE  ClaimsInv'
BY TransferClaims, MergeClaims DEF PositionStep

LEMMA AdminClaims ==
  ASSUME LedgerTyped, LedgerTyped', SettledWhenResolved, claims \in [Markets -> Int],
         ClaimsInv, AdminStep
  PROVE  ClaimsInv'
<1>1. CASE \E m \in Markets, result \in ResultInputs : Resolve(m, result)
  BY <1>1, ResolveClaims
<1>2. CASE \E m \in Markets : Cancel(m) \/ Reopen(m) \/ CloseToDeposits(m)
  <2>1. PICK m \in Markets : Cancel(m) \/ Reopen(m) \/ CloseToDeposits(m)
    BY <1>2
  <2>2. UNCHANGED <<position, paid, claims>>
    BY <2>1 DEF Cancel, Reopen, CloseToDeposits, SetMarket
  <2>3. \E r : /\ market' = [market EXCEPT ![m] = r]
               /\ r.status # "Resolved" /\ ~Resolved(m)
    <3>1. market[m] \in Market
      BY DEF LedgerTyped
    <3> QED
      BY <2>1, <3>1 DEF Cancel, Reopen, CloseToDeposits, SetMarket, Market, Active, Resolved
  <2>4. /\ market \in [Markets -> Market] /\ ~Resolved(m) /\ ~Resolved(m)'
        /\ \A n \in Markets : n # m => market'[n] = market[n]
    BY <2>3 DEF LedgerTyped, Resolved
  <2>5. \A n \in Markets : /\ Resolved(n)' <=> Resolved(n)
                           /\ Resolved(n) => market'[n].result = market[n].result
    BY <2>4 DEF Resolved
  <2> QED
    BY <2>2, <2>5, StillStep
<1>3. CASE \/ \E m \in Markets, u \in Users, id \in RepairIds : Reconcile(m, u, id)
           \/ \E new_mode \in ModeInputs : SetEmergencyMode(new_mode)
           \/ \E rate \in FeeInputs : SetFeeRate(rate)
           \/ \E u \in Users : AddFeeWaiver(u) \/ RemoveFeeWaiver(u)
           \/ SetTreasury \/ SetOutcomeToken
  <2>1. UNCHANGED <<market, position, paid, claims>>
    BY <1>3 DEF Reconcile, SetEmergencyMode, SetFeeRate, AddFeeWaiver, RemoveFeeWaiver,
                SetTreasury, SetConfig, SetOutcomeToken
  <2> QED
    BY <2>1, StillStep DEF Resolved
<1> QED
  BY <1>1, <1>2, <1>3 DEF AdminStep

LEMMA NextClaims ==
  ASSUME LedgerTyped, LedgerTyped', SettledWhenResolved, claims \in [Markets -> Int],
         ClaimsInv, ~OneName, [Next]_vars
  PROVE  ClaimsInv'
<1>1. CASE \E m \in Markets, u \in Users : UserStep(u, m)
  BY <1>1, UserClaims
<1>2. CASE \E m \in Markets : PositionStep(m)
  BY <1>2, PositionClaims
<1>3. CASE \E m \in Markets : SettlementStep(m)
  BY <1>3, SettlementClaims
<1>4. CASE AdminStep
  BY <1>4, AdminClaims
<1>5. CASE \/ \E m \in Markets, from, to \in Users : MoveToken(m, from, to)
           \/ Tick \/ UNCHANGED vars
  <2>1. UNCHANGED <<market, position, paid, claims>>
    BY <1>5 DEF MoveToken, Tick, vars
  <2> QED
    BY <2>1, StillStep DEF Resolved
<1> QED
  BY <1>1, <1>2, <1>3, <1>4, <1>5 DEF Next

\* Unless a transfer or a merge names one address twice, what a resolved market has
\* paid and what it still owes add up to what it owed when its result was recorded:
\* no claim is created, lost or met twice (settlement.rs, positions.rs).
THEOREM ClaimsAreConserved ==
  ASSUME ~OneName
  PROVE  Spec => []ClaimsConserved
<1>1. Init => ClaimsInv
  BY DEF Init, ClaimsInv, NothingPaidEarly, ClaimsConserved, Resolved
<1>2. LedgerInv /\ LedgerInv' /\ TypeOK /\ ClaimsInv /\ [Next]_vars => ClaimsInv'
  BY NextClaims DEF LedgerInv, TypeOK
<1>3. ClaimsInv => ClaimsConserved
  BY DEF ClaimsInv
<1> QED
  BY <1>1, <1>2, <1>3, LedgerAlways, TypeCorrect, PTL DEF Spec
===============================================================================
