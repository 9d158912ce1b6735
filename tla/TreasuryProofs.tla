---------------------------- MODULE TreasuryProofs ----------------------------
(***************************************************************************)
(* Theorems about Treasury and its events: the types, the books, the       *)
(* timelock on the revenue split, what the rounding of distributions may   *)
(* leave behind, and what a reader of the events knows, for every value of *)
(* the constants.                                                          *)
(***************************************************************************)
EXTENDS TreasuryEvents, SumTheorems, TLAPS

USE DEF adminVars, marketVars, shareVars, haltVars, bookVars

\* What one step does, action by action, with the arguments it is called with.
LEMMA NextSteps ==
  ASSUME Next
  PROVE  \/ Tick
         \/ \E t \in Tokens :
              \/ \E k \in MarketContracts, fee \in FeeInputs : RouteFee(k, t, fee)
              \/ \E amount \in SlashInputs : ReceiveSlashShare(t, amount)
              \/ \E amount \in AmountInputs : WithdrawFees(t, amount)
              \/ DistributeFees(t)
         \/ UNCHANGED <<now, bookVars>>
BY DEF Next, MoneyStep, AdminStep, MarketStep, ShareStep, HaltStep, Initialize,
       ProposeAdmin, TransferAdmin, ExecuteAdmin, CancelAdmin, AddMarket, SetMarketContract,
       RemoveMarket, ProposeMarketContract, ExecuteMarketContract, CancelMarketContract,
       ProposeStakeholders, ExecuteStakeholders, CancelStakeholders, Pause, Unpause,
       SetPaused, SetEmergencyMode

-------------------------------------------------------------------------------
\* Types.

\* A saturating sum of what is in range stays in range, and never falls.
LEMMA SaturatingAddRange ==
  ASSUME NEW a \in 0 .. MAX, NEW b \in Nat
  PROVE  /\ SaturatingAdd(a, b) \in 0 .. MAX
         /\ SaturatingAdd(a, b) >= a
         /\ SaturatingAdd(a, b) < MAX => SaturatingAdd(a, b) = a + b
         /\ b > 0 /\ b <= MAX => SaturatingAdd(a, b) > 0
BY ConstantsAssumption DEF SaturatingAdd

\* The types of the five groups of variables.
BooksTyped ==
  /\ balance \in [Tokens -> Int] /\ cumulative \in [Tokens -> 0 .. MAX]
  /\ total \in 0 .. MAX /\ feeTokens \subseteq Tokens
  /\ custody \in [Tokens -> Nat] /\ paid \in [Tokens -> Int]

LEMMA RouteFeeTyped ==
  ASSUME TypeOK, NEW k \in MarketContracts, NEW t \in Tokens, NEW fee \in FeeInputs,
         RouteFee(k, t, fee)
  PROVE  TypeOK'
<1>1. fee \in Nat /\ custody[t] \in Nat /\ Supply[t] \in Nat /\ fee <= Supply[t] - custody[t]
  <2>1. custody[t] \in Nat /\ Supply[t] \in 0 .. MAX /\ MAX \in Nat
    BY ConstantsAssumption DEF TypeOK
  <2>2. fee \in 0 .. Supply[t] - custody[t]
    BY DEF RouteFee, TransferIn
  <2> QED
    BY <2>1, <2>2
<1>2. /\ SaturatingAdd(cumulative[t], fee) \in 0 .. MAX
      /\ SaturatingAdd(total, fee) \in 0 .. MAX
  BY <1>1, SaturatingAddRange DEF TypeOK
<1>3. SaturatingAdd(balance[t], fee) \in Int
  BY <1>1, ConstantsAssumption DEF TypeOK, SaturatingAdd
<1>4. BooksTyped'
  BY <1>1, <1>2, <1>3 DEF TypeOK, BooksTyped, RouteFee, TransferIn, CollectFee, RecordFee
<1> QED
  BY <1>4 DEF TypeOK, BooksTyped, RouteFee, CollectFee

LEMMA TypeOKPreserved ==
  ASSUME TypeOK, [Next]_vars
  PROVE  TypeOK'
<1>1. CASE UNCHANGED vars
  BY <1>1 DEF TypeOK, vars
<1>2. CASE Tick
  BY <1>2 DEF TypeOK, Tick
<1>3. CASE MoneyStep
  <2>1. ASSUME NEW t \in Tokens, NEW k \in MarketContracts, NEW fee \in FeeInputs,
               RouteFee(k, t, fee)
        PROVE  TypeOK'
    BY <2>1, RouteFeeTyped
  <2>2. ASSUME NEW t \in Tokens, NEW amount \in SlashInputs, ReceiveSlashShare(t, amount)
        PROVE  TypeOK'
    BY <2>2, ConstantsAssumption DEF TypeOK, ReceiveSlashShare, TransferIn
  <2>3. ASSUME NEW t \in Tokens, NEW amount \in AmountInputs, WithdrawFees(t, amount)
        PROVE  TypeOK'
    <3>1. BooksTyped'
      BY <2>3, ConstantsAssumption DEF TypeOK, BooksTyped, WithdrawFees, Withdrawable, Pay
    <3> QED
      BY <2>3, <3>1 DEF TypeOK, BooksTyped, WithdrawFees
  <2>4. ASSUME NEW t \in Tokens, DistributeFees(t)
        PROVE  TypeOK'
    <3> DEFINE D == Distributed(stakeholders, balance[t])
    <3>1. D \in Int /\ D \in 0 .. custody[t] /\ custody[t] \in Nat
      BY <2>4 DEF TypeOK, DistributeFees, Pay, Payout
    <3>2. /\ balance' = [balance EXCEPT ![t] = @ - D]
          /\ custody' = [custody EXCEPT ![t] = @ - D]
          /\ paid' = [paid EXCEPT ![t] = IF cumulative[t] < MAX THEN @ + D ELSE @]
          /\ UNCHANGED <<cumulative, total, feeTokens>>
      BY <2>4 DEF DistributeFees, Pay, Payout
    <3> HIDE DEF D
    <3>3. BooksTyped'
      BY <3>1, <3>2 DEF TypeOK, BooksTyped
    <3> QED
      BY <2>4, <3>3 DEF TypeOK, BooksTyped, DistributeFees
  <2> QED
    BY <1>3, <2>1, <2>2, <2>3, <2>4 DEF MoneyStep
<1>4. CASE AdminStep
  <2>1. ASSUME NEW a \in AdminInputs, NEW k \in MarketInputs, Initialize(a, k)
        PROVE  TypeOK'
    BY <2>1, ConstantsAssumption DEF TypeOK, Initialize
  <2>2. ASSUME NEW a \in AdminInputs, ProposeAdmin(a) \/ TransferAdmin(a)
        PROVE  TypeOK'
    BY <2>2, ConstantsAssumption
    DEF TypeOK, ProposeAdmin, TransferAdmin, AfterTimelock, PendingAddressChange
  <2>3. CASE ExecuteAdmin \/ CancelAdmin
    BY <2>3 DEF TypeOK, ExecuteAdmin, CancelAdmin, Due
  <2> QED
    BY <1>4, <2>1, <2>2, <2>3 DEF AdminStep
<1>5. CASE MarketStep
  <2>1. ASSUME NEW k \in MarketInputs,
               AddMarket(k) \/ SetMarketContract(k) \/ RemoveMarket(k)
        PROVE  TypeOK'
    BY <2>1, ConstantsAssumption DEF TypeOK, AddMarket, SetMarketContract, RemoveMarket
  <2>2. ASSUME NEW k \in MarketInputs, ProposeMarketContract(k)
        PROVE  TypeOK'
    BY <2>2, ConstantsAssumption
    DEF TypeOK, ProposeMarketContract, AfterTimelock, PendingAddressChange
  <2>3. CASE ExecuteMarketContract \/ CancelMarketContract
    BY <2>3 DEF TypeOK, ExecuteMarketContract, CancelMarketContract, Due
  <2> QED
    BY <1>5, <2>1, <2>2, <2>3 DEF MarketStep
<1>6. CASE ShareStep
  <2>1. ASSUME NEW list \in ListInputs, ProposeStakeholders(list)
        PROVE  TypeOK'
    <3>1. NewPendingStakeholders(list) \in PendingStakeholders
      BY ConstantsAssumption DEF TypeOK, NewPendingStakeholders, PendingStakeholders
    <3> QED
      BY <2>1, <3>1 DEF TypeOK, ProposeStakeholders
  <2>2. CASE ExecuteStakeholders
    <3>1. pendingStakeholders.stakeholders \in Seq(Stakeholder)
      BY <2>2 DEF TypeOK, ExecuteStakeholders, Due, PendingStakeholders
    <3> QED
      BY <2>2, <3>1 DEF TypeOK, ExecuteStakeholders
  <2>3. CASE CancelStakeholders
    BY <2>3 DEF TypeOK, CancelStakeholders
  <2> QED
    BY <1>6, <2>1, <2>2, <2>3 DEF ShareStep
<1>7. CASE HaltStep
  BY <1>7, ConstantsAssumption DEF TypeOK, HaltStep, Pause, Unpause, SetPaused, SetEmergencyMode
<1> QED
  BY <1>1, <1>2, <1>3, <1>4, <1>5, <1>6, <1>7 DEF Next

LEMMA TypeOKInitially == Init => TypeOK
<1>1. 0 \in 0 .. MAX /\ <<>> \in Seq(Stakeholder) /\ "Normal" \in Modes
  BY ConstantsAssumption DEF Modes
<1> SUFFICES ASSUME Init PROVE TypeOK
  OBVIOUS
<1>2. BooksTyped
  BY <1>1 DEF Init, BooksTyped
<1>3. admin = Unset /\ pendingAdmin = Unset /\ pendingMarket = Unset
      /\ pendingStakeholders = Unset /\ markets = {} /\ now = 0 /\ paused = FALSE
      /\ stakeholders \in Seq(Stakeholder) /\ mode \in Modes
  BY <1>1 DEF Init
<1> QED
  BY <1>2, <1>3 DEF TypeOK, BooksTyped

\* Every reachable state is well typed, and the counters stay within i128.
THEOREM TypeCorrect == Spec => []TypeOK
<1>1. Init => TypeOK
  BY TypeOKInitially
<1>2. TypeOK /\ [Next]_vars => TypeOK'
  BY TypeOKPreserved
<1> QED
  BY <1>1, <1>2, PTL DEF Spec

-------------------------------------------------------------------------------
\* The books.

\* Why the balance of a token never saturates: it is backed by what the contract
\* holds, which is never more than there is of the token.
WithinSupply == \A t \in Tokens : custody[t] <= Supply[t]

BooksInv == TypeOK /\ WithinSupply /\ LedgerBacked /\ BooksBalance

\* The invariant of one token, for the token a step is about.
TokenOK(t) == custody[t] <= Supply[t] /\ balance[t] <= custody[t] /\ BookBalances(t)

\* A step of the books concerns one token; the others keep what they had.
LEMMA OneTokenSteps ==
  ASSUME TypeOK, BooksInv, NEW t \in Tokens, TokenOK(t)',
         \A s \in Tokens \ {t} :
           /\ UNCHANGED <<balance[s], cumulative[s], custody[s], paid[s]>>
           /\ s \in feeTokens' <=> s \in feeTokens
  PROVE  (WithinSupply /\ LedgerBacked /\ BooksBalance)'
<1>1. \A s \in Tokens \ {t} : TokenOK(s)'
  BY DEF BooksInv, WithinSupply, LedgerBacked, BooksBalance, TokenOK, BookBalances
<1> QED
  BY <1>1 DEF WithinSupply, LedgerBacked, BooksBalance, TokenOK

\* A fee that is transferred and recorded in one transaction keeps the books.
LEMMA RouteFeeKeepsBooks ==
  ASSUME BooksInv, NEW k \in MarketContracts, NEW t \in Tokens, NEW fee \in FeeInputs,
         RouteFee(k, t, fee)
  PROVE  (WithinSupply /\ LedgerBacked /\ BooksBalance)'
<1>1. /\ TypeOK /\ custody[t] \in Nat /\ balance[t] \in Int /\ cumulative[t] \in 0 .. MAX
      /\ paid[t] \in Int /\ Supply[t] \in 0 .. MAX /\ MAX \in Nat
  BY ConstantsAssumption DEF BooksInv, TypeOK
<1>2. fee \in 0 .. Supply[t] - custody[t] /\ fee > 0 /\ fee \in Nat
  BY <1>1 DEF RouteFee, TransferIn, CollectFee
<1>3. balance[t] <= custody[t] /\ BookBalances(t)
  BY DEF BooksInv, LedgerBacked, BooksBalance
<1>4. /\ custody' = [custody EXCEPT ![t] = @ + fee]
      /\ feeTokens' = feeTokens \cup {t}
      /\ balance' = [balance EXCEPT ![t] = SaturatingAdd(@, fee)]
      /\ cumulative' = [cumulative EXCEPT ![t] = SaturatingAdd(@, fee)]
      /\ paid' = paid
  BY DEF RouteFee, TransferIn, CollectFee, RecordFee
<1>5. SaturatingAdd(balance[t], fee) = balance[t] + fee
  BY <1>1, <1>2, <1>3 DEF SaturatingAdd
<1>6. /\ SaturatingAdd(cumulative[t], fee) > 0
      /\ SaturatingAdd(cumulative[t], fee) < MAX =>
           /\ SaturatingAdd(cumulative[t], fee) = cumulative[t] + fee
           /\ cumulative[t] < MAX
  BY <1>1, <1>2, SaturatingAddRange
<1>7. /\ custody'[t] = custody[t] + fee /\ balance'[t] = balance[t] + fee
      /\ cumulative'[t] = SaturatingAdd(cumulative[t], fee) /\ paid'[t] = paid[t]
      /\ t \in feeTokens'
  BY <1>4, <1>5 DEF BooksInv, TypeOK
<1>8. TokenOK(t)'
  BY <1>1, <1>2, <1>3, <1>6, <1>7 DEF TokenOK, BookBalances
<1>9. \A s \in Tokens \ {t} : /\ UNCHANGED <<balance[s], cumulative[s], custody[s], paid[s]>>
                              /\ s \in feeTokens' <=> s \in feeTokens
  BY <1>1, <1>4 DEF TypeOK
<1> QED
  BY <1>1, <1>8, <1>9, OneTokenSteps

\* A payment that leaves the balance and the custody together keeps them.
LEMMA PaymentKeepsBooks ==
  ASSUME BooksInv, NEW t \in Tokens, NEW amount \in 0 .. custody[t],
         balance' = [balance EXCEPT ![t] = @ - amount],
         Pay(t, amount), UNCHANGED <<cumulative, feeTokens>>
  PROVE  (WithinSupply /\ LedgerBacked /\ BooksBalance)'
<1>1. /\ TypeOK /\ custody[t] \in Nat /\ balance[t] \in Int /\ cumulative[t] \in 0 .. MAX
      /\ paid[t] \in Int /\ Supply[t] \in 0 .. MAX /\ MAX \in Nat /\ amount \in Nat
  <2>1. TypeOK /\ Supply[t] \in 0 .. MAX /\ MAX \in Nat
    BY ConstantsAssumption DEF BooksInv
  <2>2. custody[t] \in Nat
    BY <2>1 DEF TypeOK
  <2> QED
    BY <2>1, <2>2 DEF TypeOK
<1>2. TokenOK(t)
  BY DEF BooksInv, WithinSupply, LedgerBacked, BooksBalance, TokenOK
<1>3. /\ custody'[t] = custody[t] - amount /\ balance'[t] = balance[t] - amount
      /\ cumulative'[t] = cumulative[t]
      /\ cumulative[t] < MAX => paid'[t] = paid[t] + amount
      /\ t \in feeTokens' <=> t \in feeTokens
  BY <1>1 DEF Pay, TypeOK
<1>4. TokenOK(t)'
  BY <1>1, <1>2, <1>3 DEF TokenOK, BookBalances
<1>5. \A s \in Tokens \ {t} : /\ UNCHANGED <<balance[s], cumulative[s], custody[s], paid[s]>>
                              /\ s \in feeTokens' <=> s \in feeTokens
  BY <1>1 DEF Pay, TypeOK
<1> QED
  BY <1>1, <1>4, <1>5, OneTokenSteps

LEMMA BooksInvPreserved ==
  ASSUME BooksInv, [Next]_vars
  PROVE  BooksInv'
<1>1. TypeOK'
  BY TypeOKPreserved DEF BooksInv
<1>2. CASE UNCHANGED bookVars
  BY <1>1, <1>2 DEF BooksInv, WithinSupply, LedgerBacked, BooksBalance, BookBalances
<1>3. ASSUME NEW t \in Tokens, NEW k \in MarketContracts, NEW fee \in FeeInputs,
             RouteFee(k, t, fee)
      PROVE  BooksInv'
  BY <1>1, <1>3, RouteFeeKeepsBooks DEF BooksInv
<1>4. ASSUME NEW t \in Tokens, NEW amount \in SlashInputs, ReceiveSlashShare(t, amount)
      PROVE  BooksInv'
  <2>1. /\ TypeOK /\ custody[t] \in Nat /\ balance[t] \in Int /\ Supply[t] \in Nat
        /\ amount \in 0 .. Supply[t] - custody[t]
    <3>1. TypeOK /\ Supply[t] \in 0 .. MAX /\ MAX \in Nat
      BY ConstantsAssumption DEF BooksInv
    <3>2. amount \in 0 .. Supply[t] - custody[t]
      BY <1>4 DEF ReceiveSlashShare, TransferIn
    <3> QED
      BY <3>1, <3>2 DEF TypeOK
  <2>2. TokenOK(t)
    BY DEF BooksInv, WithinSupply, LedgerBacked, BooksBalance, TokenOK
  <2>3. /\ custody' = [custody EXCEPT ![t] = @ + amount]
        /\ UNCHANGED <<balance, cumulative, feeTokens, paid>>
    BY <1>4 DEF ReceiveSlashShare, TransferIn
  <2>4. TokenOK(t)'
    BY <2>1, <2>2, <2>3 DEF TokenOK, BookBalances, TypeOK
  <2>5. \A s \in Tokens \ {t} : UNCHANGED <<balance[s], cumulative[s], custody[s], paid[s]>>
    BY <2>1, <2>3 DEF TypeOK
  <2> QED
    BY <1>1, <2>1, <2>3, <2>4, <2>5, OneTokenSteps DEF BooksInv
<1>5. ASSUME NEW t \in Tokens, NEW amount \in AmountInputs, WithdrawFees(t, amount)
      PROVE  BooksInv'
  BY <1>1, <1>5, PaymentKeepsBooks DEF BooksInv, WithdrawFees, Pay
<1>6. ASSUME NEW t \in Tokens, DistributeFees(t)
      PROVE  BooksInv'
  BY <1>1, <1>6, PaymentKeepsBooks DEF BooksInv, DistributeFees, Pay, Payout
<1>7. CASE Tick
  BY <1>7, <1>2 DEF Tick
<1> QED
  BY <1>2, <1>3, <1>4, <1>5, <1>6, <1>7, NextSteps DEF vars

LEMMA BooksInvInitially == Init => BooksInv
<1> SUFFICES ASSUME Init PROVE BooksInv
  OBVIOUS
<1>1. TypeOK
  BY TypeOKInitially
<1>2. \A t \in Tokens : TokenOK(t)
  <2> SUFFICES ASSUME NEW t \in Tokens PROVE TokenOK(t)
    OBVIOUS
  <2>1. /\ custody[t] = 0 /\ balance[t] = 0 /\ cumulative[t] = 0 /\ paid[t] = 0
        /\ t \notin feeTokens /\ Supply[t] \in Nat
    BY ConstantsAssumption DEF Init
  <2> QED
    BY <2>1 DEF TokenOK, BookBalances
<1> QED
  BY <1>1, <1>2 DEF BooksInv, WithinSupply, LedgerBacked, BooksBalance, TokenOK

\* The contract always holds every fee its books say it holds.
THEOREM FeesAreBacked == Spec => []LedgerBacked
<1>1. BooksInv => LedgerBacked
  BY DEF BooksInv
<1> QED
  BY <1>1, BooksInvInitially, BooksInvPreserved, PTL DEF Spec

\* Every token's counter is what is left of it and what was paid out, as long as
\* the counter has not saturated, and every fee-bearing token is listed.
THEOREM BooksAlwaysBalance == Spec => []BooksBalance
<1>1. BooksInv => BooksBalance
  BY DEF BooksInv
<1> QED
  BY <1>1, BooksInvInitially, BooksInvPreserved, PTL DEF Spec

-------------------------------------------------------------------------------
\* The timelock on the revenue split.

\* What the abstract register sees of the treasury.
Announced == IF pendingStakeholders = Unset THEN Unset ELSE pendingStakeholders.stakeholders

\* An announcement is never mistaken for the absence of one.
LEMMA PendingFields ==
  ASSUME TypeOK, pendingStakeholders # Unset
  PROVE  /\ pendingStakeholders.effective_at \in Nat
         /\ Announced \in Seq(Stakeholder) /\ Announced # Unset
BY ConstantsAssumption DEF TypeOK, PendingStakeholders, Announced

\* Time passes for an announcement that has not stood for the whole delay.
LEMMA TickWaits ==
  ASSUME TypeOK, Tick
  PROVE  [Split!Next]_(Split!vars)
<1>1. now \in Nat /\ now' = now + 1 /\ ADDRESS_TIMELOCK_SECONDS \in Nat
  BY ConstantsAssumption DEF Tick, TypeOK
<1>2. UNCHANGED <<stakeholders, pendingStakeholders>>
  BY DEF Tick
<1>3. CASE pendingStakeholders = Unset
  BY <1>2, <1>3 DEF Split!vars, NoticeGiven
<1>4. CASE pendingStakeholders # Unset
  <2>1. pendingStakeholders.effective_at \in Nat /\ Announced # Unset
    BY <1>4, PendingFields
  <2>2. CASE now >= pendingStakeholders.effective_at
    BY <1>1, <1>2, <1>4, <2>1, <2>2 DEF Split!vars, NoticeGiven
  <2>3. CASE now < pendingStakeholders.effective_at
    <3>1. NoticeGiven = now + ADDRESS_TIMELOCK_SECONDS - pendingStakeholders.effective_at
      BY <1>1, <1>4, <2>1, <2>3 DEF NoticeGiven
    <3>2. NoticeGiven < ADDRESS_TIMELOCK_SECONDS /\ NoticeGiven' = NoticeGiven + 1
      BY <1>1, <1>2, <1>4, <2>1, <2>3, <3>1 DEF NoticeGiven
    <3> QED
      BY <1>2, <2>1, <3>2 DEF Split!Next, Split!Wait, Announced
  <2> QED
    BY <1>1, <2>1, <2>2, <2>3
<1> QED
  BY <1>3, <1>4

\* Every step of the treasury is a step of the register, or none of its business.
LEMMA SplitStep ==
  ASSUME TypeOK, TypeOK', [Next]_vars
  PROVE  [Split!Next]_(Split!vars)
<1>1. CASE UNCHANGED <<now, stakeholders, pendingStakeholders>>
  BY <1>1 DEF Split!vars, NoticeGiven
<1>2. CASE Tick
  BY <1>2, TickWaits
<1>3. ASSUME NEW list \in ListInputs, ProposeStakeholders(list)
      PROVE  Split!Announce
  <2>1. /\ list \in Seq(Stakeholder) /\ now \in Nat /\ ADDRESS_TIMELOCK_SECONDS \in Nat
        /\ now' = now /\ stakeholders' = stakeholders
    BY <1>3, ConstantsAssumption DEF TypeOK, ProposeStakeholders
  <2>2. /\ pendingStakeholders' = [stakeholders |-> list,
                                   effective_at |-> now + ADDRESS_TIMELOCK_SECONDS]
        /\ pendingStakeholders' \in PendingStakeholders
    BY <1>3, <2>1 DEF ProposeStakeholders, NewPendingStakeholders, PendingStakeholders
  <2>3. pendingStakeholders' # Unset /\ pendingStakeholders'.stakeholders # Unset
    BY <2>1, <2>2, ConstantsAssumption
  <2>4. NoticeGiven' = 0
    BY <2>1, <2>2, <2>3 DEF NoticeGiven
  <2> QED
    BY <2>1, <2>3, <2>4 DEF Split!Announce
<1>4. CASE ExecuteStakeholders
  <2>1. /\ pendingStakeholders # Unset /\ now >= pendingStakeholders.effective_at
        /\ stakeholders' = pendingStakeholders.stakeholders /\ pendingStakeholders' = Unset
    BY <1>4 DEF ExecuteStakeholders, Due
  <2>2. NoticeGiven = ADDRESS_TIMELOCK_SECONDS /\ NoticeGiven' = 0 /\ Announced # Unset
    BY <2>1, PendingFields DEF NoticeGiven
  <2>3. ADDRESS_TIMELOCK_SECONDS >= ADDRESS_TIMELOCK_SECONDS
    BY ConstantsAssumption
  <2> QED
    BY <2>1, <2>2, <2>3 DEF Split!Next, Split!Enact, Announced
<1>5. CASE CancelStakeholders
  BY <1>5 DEF CancelStakeholders, Split!Next, Split!Withdraw, NoticeGiven
<1>6. CASE ~ (Tick \/ ShareStep)
  <2>1. UNCHANGED <<now, stakeholders, pendingStakeholders>>
    BY <1>6 DEF vars, Next, MoneyStep, AdminStep, MarketStep, HaltStep, RouteFee, CollectFee,
       ReceiveSlashShare, WithdrawFees, DistributeFees, Initialize, ProposeAdmin,
       TransferAdmin, ExecuteAdmin, CancelAdmin, AddMarket, SetMarketContract, RemoveMarket,
       ProposeMarketContract, ExecuteMarketContract, CancelMarketContract, Pause, Unpause,
       SetPaused, SetEmergencyMode
  <2> QED
    BY <2>1, <1>1
<1> QED
  BY <1>2, <1>3, <1>4, <1>5, <1>6 DEF ShareStep, Split!Next

\* The revenue split only changes to a list that has stood announced for the
\* whole timelock, neither cancelled nor replaced meanwhile.
THEOREM SplitAlwaysTimelocked == Spec => SplitIsTimelocked
<1>1. Init => Split!Init
  BY DEF Init, Split!Init, NoticeGiven
<1>2. TypeOK /\ TypeOK' /\ [Next]_vars => [Split!Next]_(Split!vars)
  BY SplitStep
<1> QED
  BY <1>1, <1>2, TypeCorrect, PTL DEF Spec, SplitIsTimelocked, Split!Spec

-------------------------------------------------------------------------------
\* The dust.

\* Whole shares leave a remainder below the denominator.
LEMMA ShareRemainder ==
  ASSUME NEW held \in Nat, NEW bps \in Nat
  PROVE  /\ Share(held, bps) \in Nat
         /\ held * bps - BPS_DENOMINATOR * Share(held, bps) \in 0 .. BPS_DENOMINATOR - 1
<1>1. held * bps \in Nat
  OBVIOUS
<1>2. \A a \in Nat : /\ a \div BPS_DENOMINATOR \in Nat
                     /\ a - BPS_DENOMINATOR * (a \div BPS_DENOMINATOR) \in 0 .. BPS_DENOMINATOR - 1
  BY ConstantsAssumption
<1> QED
  BY <1>1, <1>2 DEF Share

\* When the weights add up to the whole, the remainders of the shares add up to the
\* dust, so there is less of it than there are stakeholders.
LEMMA DustOfList ==
  ASSUME NEW list \in Seq(Stakeholder), ValidWeights(list), NEW held \in Nat
  PROVE  /\ held - Distributed(list, held) \in 0 .. Len(list) - 1
         /\ Distributed(list, held) \in 0 .. held
<1> DEFINE D == DOMAIN list
           weight == [i \in D |-> list[i].share_bps]
           share == [i \in D |-> Share(held, list[i].share_bps)]
           scaled == [i \in D |-> held * weight[i]]
           counted == [i \in D |-> BPS_DENOMINATOR * share[i]]
           rest == [i \in D |-> scaled[i] - counted[i]]
           given == SumFunctionOnSet(share, D)
           dust == SumFunctionOnSet(rest, D)
<1>1. D = 1 .. Len(list) /\ Len(list) \in Nat /\ Len(list) > 0
  BY DEF ValidWeights
<1>2. IsFiniteSet(D) /\ Cardinality(D) = Len(list)
  BY <1>1, FS_Interval
<1>3. BPS_DENOMINATOR \in Nat /\ BPS_DENOMINATOR > 0
  BY ConstantsAssumption
<1>4. \A i \in D : weight[i] \in Nat
  <2> TAKE i \in D
  <2>1. list[i] \in Stakeholder
    BY <1>1
  <2>2. list[i].share_bps \in Nat
    BY <2>1 DEF Stakeholder
  <2> QED
    BY <2>2
<1>5. \A i \in D : /\ share[i] \in Nat /\ scaled[i] \in Int /\ counted[i] \in Int
                   /\ rest[i] \in 0 .. BPS_DENOMINATOR - 1
                   /\ scaled[i] = counted[i] + rest[i]
  <2> TAKE i \in D
  <2>1. weight[i] \in Nat /\ weight[i] = list[i].share_bps
    BY <1>4
  <2>2. share[i] = Share(held, weight[i]) /\ scaled[i] = held * weight[i]
        /\ counted[i] = BPS_DENOMINATOR * share[i] /\ rest[i] = scaled[i] - counted[i]
    OBVIOUS
  <2> HIDE DEF weight, share, scaled, counted, rest
  <2>3. share[i] \in Nat
        /\ held * weight[i] - BPS_DENOMINATOR * share[i] \in 0 .. BPS_DENOMINATOR - 1
    BY <2>1, <2>2, ShareRemainder
  <2>4. scaled[i] \in Int /\ counted[i] \in Int
    BY <1>3, <2>1, <2>2, <2>3
  <2> QED
    BY <2>2, <2>3, <2>4
<1>6. TotalBps(list) = SumFunctionOnSet(weight, D) /\ Distributed(list, held) = given
  BY DEF TotalBps, Distributed, SumFunction
<1>7. /\ \A i \in D : weight[i] \in Int /\ scaled[i] = held * weight[i]
      /\ \A i \in D : share[i] \in Int /\ counted[i] = BPS_DENOMINATOR * share[i]
  BY <1>4, <1>5
<1> HIDE DEF D, weight, share, scaled, counted, rest
<1>8. SumFunctionOnSet(scaled, D) = held * BPS_DENOMINATOR
  BY <1>2, <1>6, <1>7, SumScaled DEF ValidWeights
<1>9. SumFunctionOnSet(counted, D) = BPS_DENOMINATOR * given
  BY <1>2, <1>3, <1>7, SumScaled
<1>10. SumFunctionOnSet(scaled, D) = SumFunctionOnSet(counted, D) + dust
  BY <1>2, <1>5, SumOfBoth
<1>11. dust \in 0 .. (BPS_DENOMINATOR - 1) * Len(list)
  <2>1. BPS_DENOMINATOR - 1 \in Nat
    BY <1>3
  <2> DEFINE c == BPS_DENOMINATOR - 1
  <2>2. c \in Nat /\ \A i \in D : rest[i] \in 0 .. c
    BY <1>5, <2>1
  <2> HIDE DEF c
  <2>3. dust \in 0 .. c * Cardinality(D)
    BY <1>2, <2>2, SumBounded
  <2> QED
    BY <1>2, <2>3 DEF c
<1>12. given \in Nat
  BY <1>2, <1>5, SumOfNats
<1> HIDE DEF given, dust
<1>13. BPS_DENOMINATOR * (held - given) = dust /\ dust \in Int
  BY <1>3, <1>8, <1>9, <1>10, <1>11, <1>12
<1>14. dust <= (BPS_DENOMINATOR - 1) * Len(list) /\ dust >= 0
  BY <1>1, <1>3, <1>11
<1>15. held - given >= 0
  BY <1>3, <1>12, <1>13, <1>14
<1>16. held - given < Len(list)
  <2>1. SUFFICES ASSUME held - given >= Len(list) PROVE FALSE
    BY <1>1, <1>12
  <2>2. BPS_DENOMINATOR * (held - given) >= BPS_DENOMINATOR * Len(list)
    BY <1>1, <1>3, <1>12, <2>1
  <2>3. (BPS_DENOMINATOR - 1) * Len(list) < BPS_DENOMINATOR * Len(list)
    BY <1>1, <1>3
  <2> QED
    BY <1>1, <1>3, <1>12, <1>13, <1>14, <2>2, <2>3
<1> QED
  BY <1>1, <1>6, <1>12, <1>15, <1>16

\* Every list in force or announced has weights that add up, and no fee is ever
\* paid out of a recorded balance that does not hold it.
WeightsInv ==
  /\ stakeholders # <<>> => ValidWeights(stakeholders)
  /\ pendingStakeholders # Unset => ValidWeights(pendingStakeholders.stakeholders)

BalancesInv == \A t \in Tokens : balance[t] \in Nat

LEMMA WeightsPreserved ==
  ASSUME WeightsInv, [Next]_vars
  PROVE  WeightsInv'
<1>1. CASE ShareStep
  BY <1>1 DEF WeightsInv, ShareStep, ProposeStakeholders, NewPendingStakeholders,
     ExecuteStakeholders, CancelStakeholders, Due
<1>2. CASE ~ShareStep
  <2>1. UNCHANGED <<stakeholders, pendingStakeholders>>
    BY <1>2 DEF vars, Next, Tick, MoneyStep, AdminStep, MarketStep, HaltStep, RouteFee,
       CollectFee, ReceiveSlashShare, WithdrawFees, DistributeFees, Initialize,
       ProposeAdmin, TransferAdmin, ExecuteAdmin, CancelAdmin, AddMarket,
       SetMarketContract, RemoveMarket, ProposeMarketContract, ExecuteMarketContract,
       CancelMarketContract, Pause, Unpause, SetPaused, SetEmergencyMode
  <2> QED
    BY <2>1 DEF WeightsInv, ValidWeights
<1> QED
  BY <1>1, <1>2

LEMMA BalancesPreserved ==
  ASSUME TypeOK, WeightsInv, BalancesInv, [Next]_vars
  PROVE  BalancesInv'
<1>1. ASSUME NEW t \in Tokens, NEW k \in MarketContracts, NEW fee \in FeeInputs,
             RouteFee(k, t, fee)
      PROVE  BalancesInv'
  <2>1. fee \in Nat /\ MAX \in Nat /\ balance' = [balance EXCEPT ![t] = SaturatingAdd(@, fee)]
    BY <1>1, ConstantsAssumption DEF RouteFee, CollectFee, RecordFee
  <2>2. SaturatingAdd(balance[t], fee) \in Nat
    BY <2>1 DEF SaturatingAdd, BalancesInv
  <2> QED
    BY <2>1, <2>2 DEF BalancesInv, TypeOK
<1>2. ASSUME NEW t \in Tokens, NEW amount \in AmountInputs, WithdrawFees(t, amount)
      PROVE  BalancesInv'
  <2>1. /\ amount \in Nat /\ amount <= balance[t]
        /\ balance' = [balance EXCEPT ![t] = @ - amount]
    BY <1>2, ConstantsAssumption DEF WithdrawFees, Withdrawable
  <2> QED
    BY <2>1 DEF BalancesInv, TypeOK
<1>3. ASSUME NEW t \in Tokens, DistributeFees(t)
      PROVE  BalancesInv'
  <2>1. Distributed(stakeholders, balance[t]) \in 0 .. balance[t]
    BY <1>3, DustOfList DEF DistributeFees, WeightsInv, BalancesInv, TypeOK
  <2>2. balance' = [balance EXCEPT ![t] = @ - Distributed(stakeholders, balance[t])]
    BY <1>3 DEF DistributeFees
  <2> QED
    BY <2>1, <2>2 DEF BalancesInv, TypeOK
<1>4. CASE UNCHANGED balance
  BY <1>4 DEF BalancesInv
<1>5. CASE UNCHANGED vars
  BY <1>5 DEF BalancesInv, vars
<1> QED
  BY <1>1, <1>2, <1>3, <1>4, <1>5, NextSteps DEF Tick, ReceiveSlashShare

THEOREM DustIsBounded == Spec => []DustBound
<1>1. Init => WeightsInv /\ BalancesInv
  BY DEF Init, WeightsInv, BalancesInv
<1>2. TypeOK /\ WeightsInv /\ BalancesInv /\ [Next]_vars => WeightsInv' /\ BalancesInv'
  BY WeightsPreserved, BalancesPreserved
<1>3. TypeOK /\ WeightsInv /\ BalancesInv => DustBound
  BY DustOfList DEF TypeOK, WeightsInv, BalancesInv, DustBound
<1> QED
  BY <1>1, <1>2, <1>3, TypeCorrect, PTL DEF Spec

-------------------------------------------------------------------------------
\* The inductive invariant: the index, field by field, and what was announced.

Followed ==
  [admin |-> admin, markets |-> markets, stakeholders |-> stakeholders, paused |-> paused,
   mode |-> mode, balance |-> balance, cumulative |-> cumulative,
   announcedAdmin |-> index.announcedAdmin, announcedMarket |-> index.announcedMarket,
   announcedSplit |-> index.announcedSplit, gaps |-> {}]

PendingAnnounced ==
  /\ pendingAdmin # Unset => index.announcedAdmin = pendingAdmin
  /\ pendingMarket # Unset => index.announcedMarket = pendingMarket
  /\ pendingStakeholders # Unset => index.announcedSplit = pendingStakeholders

IndexInv == index = Followed /\ PendingAnnounced

LEMMA InvariantImpliesFollowing ==
  IndexInv => IndexFollows
BY DEF IndexInv, Followed, PendingAnnounced, IndexFollows

\* Publishing adds to a call and changes nothing else in it.
LEMMA EveryStepIsATreasuryStep ==
  ASSUME EventsNext
  PROVE  Next
BY DEF EventsNext, MoneyEvent, AdminEvent, MarketEvent, ShareEvent, HaltEvent,
       Next, MoneyStep, AdminStep, MarketStep, ShareStep, HaltStep

\* A call that publishes nothing may only drop what is pending.
LEMMA QuietStepFollows ==
  ASSUME IndexInv, UNCHANGED index,
         UNCHANGED <<admin, markets, stakeholders, haltVars, balance, cumulative>>,
         pendingAdmin' \in {pendingAdmin, Unset},
         pendingMarket' \in {pendingMarket, Unset},
         pendingStakeholders' \in {pendingStakeholders, Unset}
  PROVE  IndexInv'
BY DEF IndexInv, Followed, PendingAnnounced

LEMMA AdminEventFollows ==
  ASSUME IndexInv, AdminEvent
  PROVE  IndexInv'
<1>1. ASSUME NEW a \in AdminInputs, NEW k \in MarketInputs,
             Initialize(a, k), Publish(TreasuryInitialized(a, k))
      PROVE  IndexInv'
  <2>1. index' = [index EXCEPT !.admin = a, !.markets = {k}]
    BY <1>1 DEF Publish, Heard, TreasuryInitialized
  <2> QED
    <3> DEFINE half == [index EXCEPT !.admin = a]
    <3>1. half = [Followed EXCEPT !.admin = a]
      BY DEF IndexInv
    <3>2. half = [admin |-> a, markets |-> markets, stakeholders |-> stakeholders,
                  paused |-> paused, mode |-> mode, balance |-> balance,
                  cumulative |-> cumulative, announcedAdmin |-> index.announcedAdmin,
                  announcedMarket |-> index.announcedMarket,
                  announcedSplit |-> index.announcedSplit, gaps |-> {}]
      BY <3>1 DEF Followed
    <3>3. index' = [half EXCEPT !.markets = {k}]
      BY <2>1
    <3> HIDE DEF half
    <3> QED
      BY <1>1, <3>2, <3>3 DEF Initialize, IndexInv, Followed, PendingAnnounced
<1>2. ASSUME NEW a \in AdminInputs, ProposeAdmin(a), Publish(AdminTransferProposed(pendingAdmin'))
      PROVE  IndexInv'
  <2>1. index' = [index EXCEPT !.announcedAdmin = pendingAdmin']
    BY <1>2 DEF Publish, Heard, AdminTransferProposed
  <2> QED
    BY <1>2, <2>1 DEF ProposeAdmin, IndexInv, Followed, PendingAnnounced
<1>3. ASSUME NEW a \in AdminInputs, TransferAdmin(a), Publish(AdminTransferred(a))
      PROVE  IndexInv'
  <2>1. index' = [index EXCEPT !.admin = a]
    BY <1>3 DEF Publish, Heard, AdminTransferred
  <2> QED
    BY <1>3, <2>1 DEF TransferAdmin, IndexInv, Followed, PendingAnnounced
<1>4. CASE ExecuteAdmin /\ Publish(AdminTransferred(pendingAdmin.new_address))
  <2>1. index' = [index EXCEPT !.admin = pendingAdmin.new_address]
    BY <1>4 DEF Publish, Heard, AdminTransferred
  <2> QED
    BY <1>4, <2>1 DEF ExecuteAdmin, IndexInv, Followed, PendingAnnounced
<1>5. CASE CancelAdmin /\ UNCHANGED index
  BY <1>5, QuietStepFollows DEF CancelAdmin
<1> QED
  BY <1>1, <1>2, <1>3, <1>4, <1>5 DEF AdminEvent

\* A registration that was there already, or a removal of none, is silent, and changes
\* nothing either.
LEMMA MarketEventFollows ==
  ASSUME IndexInv, MarketEvent
  PROVE  IndexInv'
<1>1. ASSUME NEW k \in MarketInputs, AddMarket(k),
             IF k \in markets THEN UNCHANGED index ELSE Publish(MarketAdded(k))
      PROVE  IndexInv'
  <2>1. CASE k \in markets
    BY <1>1, <2>1, QuietStepFollows DEF AddMarket
  <2>2. CASE k \notin markets
    <3>1. index' = [index EXCEPT !.markets = @ \cup {k}]
      BY <1>1, <2>2 DEF Publish, Heard, MarketAdded
    <3> QED
      BY <1>1, <2>2, <3>1 DEF AddMarket, IndexInv, Followed, PendingAnnounced
  <2> QED
    BY <2>1, <2>2
<1>2. ASSUME NEW k \in MarketInputs, SetMarketContract(k), Publish(MarketContractSet(k))
      PROVE  IndexInv'
  <2>1. index' = [index EXCEPT !.markets = @ \cup {k}]
    BY <1>2 DEF Publish, Heard, MarketContractSet
  <2> QED
    BY <1>2, <2>1 DEF SetMarketContract, AddMarket, IndexInv, Followed, PendingAnnounced
<1>3. ASSUME NEW k \in MarketInputs, RemoveMarket(k),
             IF k \in markets THEN Publish(MarketRemoved(k)) ELSE UNCHANGED index
      PROVE  IndexInv'
  <2>1. CASE k \notin markets
    BY <1>3, <2>1, QuietStepFollows DEF RemoveMarket
  <2>2. CASE k \in markets
    <3>1. index' = [index EXCEPT !.markets = @ \ {k}]
      BY <1>3, <2>2 DEF Publish, Heard, MarketRemoved
    <3> QED
      BY <1>3, <2>2, <3>1 DEF RemoveMarket, IndexInv, Followed, PendingAnnounced
  <2> QED
    BY <2>1, <2>2
<1>4. ASSUME NEW k \in MarketInputs, ProposeMarketContract(k),
             Publish(MarketContractProposed(pendingMarket'))
      PROVE  IndexInv'
  <2>1. index' = [index EXCEPT !.announcedMarket = pendingMarket']
    BY <1>4 DEF Publish, Heard, MarketContractProposed
  <2> QED
    BY <1>4, <2>1 DEF ProposeMarketContract, IndexInv, Followed, PendingAnnounced
<1>5. CASE ExecuteMarketContract /\ Publish(MarketContractSet(pendingMarket.new_address))
  <2>1. index' = [index EXCEPT !.markets = @ \cup {pendingMarket.new_address}]
    BY <1>5 DEF Publish, Heard, MarketContractSet
  <2> QED
    BY <1>5, <2>1 DEF ExecuteMarketContract, IndexInv, Followed, PendingAnnounced
<1>6. CASE CancelMarketContract /\ UNCHANGED index
  BY <1>6, QuietStepFollows DEF CancelMarketContract
<1> QED
  BY <1>1, <1>2, <1>3, <1>4, <1>5, <1>6 DEF MarketEvent

LEMMA ShareEventFollows ==
  ASSUME IndexInv, ShareEvent
  PROVE  IndexInv'
<1>1. ASSUME NEW list \in ListInputs, ProposeStakeholders(list),
             Publish(StakeholdersProposed(pendingStakeholders'))
      PROVE  IndexInv'
  <2>1. index' = [index EXCEPT !.announcedSplit = pendingStakeholders']
    BY <1>1 DEF Publish, Heard, StakeholdersProposed
  <2> QED
    BY <1>1, <2>1 DEF ProposeStakeholders, IndexInv, Followed, PendingAnnounced
<1>2. CASE ExecuteStakeholders /\ Publish(StakeholdersUpdated(stakeholders'))
  <2>1. index' = [index EXCEPT !.stakeholders = stakeholders']
    BY <1>2 DEF Publish, Heard, StakeholdersUpdated
  <2> QED
    BY <1>2, <2>1 DEF ExecuteStakeholders, IndexInv, Followed, PendingAnnounced
<1>3. CASE CancelStakeholders /\ UNCHANGED index
  BY <1>3, QuietStepFollows DEF CancelStakeholders
<1> QED
  BY <1>1, <1>2, <1>3 DEF ShareEvent

LEMMA HaltEventFollows ==
  ASSUME IndexInv, HaltEvent
  PROVE  IndexInv'
<1>1. CASE Pause /\ Publish(TreasuryPaused)
  <2>1. index' = [index EXCEPT !.paused = TRUE]
    BY <1>1 DEF Publish, Heard, TreasuryPaused
  <2>2. paused' = TRUE
    BY <1>1 DEF Pause, SetPaused
  <2>3. index' = [index EXCEPT !.paused = paused']
    BY <2>1, <2>2, Zenon
  <2>4. UNCHANGED <<adminVars, marketVars, shareVars, mode, balance, cumulative>>
    BY <1>1 DEF Pause, SetPaused
  <2> QED
    BY <2>3, <2>4 DEF IndexInv, Followed, PendingAnnounced
<1>2. CASE Unpause /\ Publish(TreasuryUnpaused)
  <2>1. index' = [index EXCEPT !.paused = FALSE]
    BY <1>2 DEF Publish, Heard, TreasuryUnpaused
  <2>2. paused' = FALSE
    BY <1>2 DEF Unpause, SetPaused
  <2>3. index' = [index EXCEPT !.paused = paused']
    BY <2>1, <2>2, Zenon
  <2>4. UNCHANGED <<adminVars, marketVars, shareVars, mode, balance, cumulative>>
    BY <1>2 DEF Unpause, SetPaused
  <2> QED
    BY <2>3, <2>4 DEF IndexInv, Followed, PendingAnnounced
<1>3. ASSUME NEW new_mode \in ModeInputs, SetEmergencyMode(new_mode),
             Publish(TreasuryEmergencyModeChanged(new_mode))
      PROVE  IndexInv'
  <2>1. index' = [index EXCEPT !.mode = new_mode]
    BY <1>3 DEF Publish, Heard, TreasuryEmergencyModeChanged
  <2> QED
    BY <1>3, <2>1 DEF SetEmergencyMode, IndexInv, Followed, PendingAnnounced
<1> QED
  BY <1>1, <1>2, <1>3 DEF HaltEvent

-------------------------------------------------------------------------------
\* Money: the new balance in the event is the one its amount explains.

LEMMA ExplainedBalance ==
  ASSUME IndexInv, NEW t \in Tokens, NEW new
  PROVE  WithBalance(t, new, new)
           = [Followed EXCEPT !.balance = [balance EXCEPT ![t] = new]]
<1> DEFINE half == [index EXCEPT !.balance[t] = new]
<1>1. WithBalance(t, new, new) = [half EXCEPT !.gaps = half.gaps]
  BY DEF WithBalance
<1>2. half = [Followed EXCEPT !.balance = [balance EXCEPT ![t] = new]]
  BY DEF IndexInv, Followed
<1>3. [half EXCEPT !.gaps = half.gaps] = half
  BY <1>2 DEF Followed
<1> QED
  BY <1>1, <1>2, <1>3

LEMMA MoneyEventFollows ==
  ASSUME TypeOK, IndexInv, MoneyEvent
  PROVE  IndexInv'
<1> balance \in [Tokens -> Int] /\ cumulative \in [Tokens -> 0 .. MAX]
  BY DEF TypeOK
<1>1. ASSUME NEW t \in Tokens, NEW k \in MarketContracts, NEW fee \in FeeInputs,
             RouteFee(k, t, fee), Publish(FeeCollected(t, fee, balance'[t], cumulative'[t]))
      PROVE  IndexInv'
  <2>1. /\ balance' = [balance EXCEPT ![t] = SaturatingAdd(balance[t], fee)]
        /\ cumulative' = [cumulative EXCEPT ![t] = SaturatingAdd(cumulative[t], fee)]
        /\ UNCHANGED <<adminVars, marketVars, shareVars, haltVars>>
    BY <1>1 DEF RouteFee, CollectFee, RecordFee
  <2>2. /\ balance'[t] = SaturatingAdd(balance[t], fee)
        /\ cumulative' = [cumulative EXCEPT ![t] = cumulative'[t]]
        /\ index.balance = balance
    BY <2>1 DEF IndexInv, Followed
  <2>3. index' = [WithBalance(t, balance'[t], balance'[t]) EXCEPT !.cumulative[t] = cumulative'[t]]
    BY <1>1, <2>2 DEF Publish, Heard, FeeCollected
  <2>4. WithBalance(t, balance'[t], balance'[t]) = [Followed EXCEPT !.balance = balance']
    BY <2>1, <2>2, ExplainedBalance
  <2> DEFINE half == [Followed EXCEPT !.balance = balance']
  <2>5. index' = [half EXCEPT !.cumulative[t] = cumulative'[t]]
    BY <2>3, <2>4
  <2>6. half.cumulative = cumulative
    BY DEF Followed
  <2>7. index' = [half EXCEPT !.cumulative = cumulative']
    BY <2>2, <2>5, <2>6
  <2> QED
    BY <2>1, <2>7 DEF IndexInv, Followed, PendingAnnounced
<1>2. ASSUME NEW t \in Tokens, NEW amount,
             balance' = [balance EXCEPT ![t] = balance[t] - amount],
             index' = WithBalance(t, balance'[t], index.balance[t] - amount),
             UNCHANGED <<adminVars, marketVars, shareVars, haltVars, cumulative>>
      PROVE  IndexInv'
  <2>1. balance'[t] = balance[t] - amount /\ index.balance = balance
    BY <1>2 DEF IndexInv, Followed
  <2>2. index' = [Followed EXCEPT !.balance = balance']
    BY <1>2, <2>1, ExplainedBalance
  <2> QED
    BY <1>2, <2>2 DEF IndexInv, Followed, PendingAnnounced
<1>3. ASSUME NEW t \in Tokens, NEW amount \in AmountInputs,
             WithdrawFees(t, amount), Publish(FeesWithdrawn(t, amount, balance'[t]))
      PROVE  IndexInv'
  <2>1. /\ balance' = [balance EXCEPT ![t] = balance[t] - amount]
        /\ UNCHANGED <<adminVars, marketVars, shareVars, haltVars, cumulative>>
    BY <1>3 DEF WithdrawFees
  <2>2. index' = WithBalance(t, balance'[t], index.balance[t] - amount)
    BY <1>3 DEF Publish, Heard, FeesWithdrawn
  <2> QED
    BY <1>2, <2>1, <2>2
<1>4. ASSUME NEW t \in Tokens, DistributeFees(t), Publish(DistributionEvent(t))
      PROVE  IndexInv'
  <2> DEFINE amount == Distributed(stakeholders, balance[t])
  <2>1. /\ balance' = [balance EXCEPT ![t] = balance[t] - amount]
        /\ UNCHANGED <<adminVars, marketVars, shareVars, haltVars, cumulative>>
    BY <1>4 DEF DistributeFees
  <2>2. Publish(FeesDistributed(t, amount, balance'[t]))
    BY <1>4 DEF DistributionEvent
  <2> HIDE DEF amount
  <2>3. index' = WithBalance(t, balance'[t], index.balance[t] - amount)
    BY <2>2 DEF Publish, Heard, FeesDistributed
  <2> QED
    BY <1>2, <2>1, <2>3
<1>5. ASSUME NEW t \in Tokens, NEW amount \in SlashInputs,
             ReceiveSlashShare(t, amount), UNCHANGED index
      PROVE  IndexInv'
  BY <1>5, QuietStepFollows DEF ReceiveSlashShare
<1> QED
  BY <1>1, <1>3, <1>4, <1>5 DEF MoneyEvent

-------------------------------------------------------------------------------
\* The theorem.

LEMMA InitialIndex ==
  ASSUME EventsInit
  PROVE  TypeOK /\ IndexInv
<1>1. TypeOK
  BY TypeOKInitially DEF EventsInit
<1>2. IndexInv
  BY DEF EventsInit, Init, Silence, IndexInv, Followed, PendingAnnounced
<1> QED
  BY <1>1, <1>2

LEMMA IndexPreserved ==
  ASSUME TypeOK, IndexInv, [EventsNext]_eventVars
  PROVE  TypeOK' /\ IndexInv'
<1>1. TypeOK'
  BY TypeOKPreserved, EveryStepIsATreasuryStep DEF eventVars
<1> SUFFICES IndexInv'
  BY <1>1
<1>2. CASE UNCHANGED eventVars
  BY <1>2, QuietStepFollows DEF eventVars, vars
<1>3. CASE Tick /\ UNCHANGED index
  BY <1>3, QuietStepFollows DEF Tick
<1>4. CASE MoneyEvent \/ AdminEvent \/ MarketEvent \/ ShareEvent \/ HaltEvent
  BY <1>4, MoneyEventFollows, AdminEventFollows, MarketEventFollows, ShareEventFollows,
     HaltEventFollows
<1> QED
  BY <1>2, <1>3, <1>4 DEF EventsNext

\* Whatever tokens, fees, lists and addresses there are, and however long the treasury
\* runs: who reads nothing but its events knows its books, who governs it and which
\* changes are pending, and no balance in an event is unexplained by its amount.
THEOREM ReadersAlwaysFollow ==
  EventsSpec => []IndexFollows
<1>1. EventsInit => TypeOK /\ IndexInv
  BY InitialIndex
<1>2. TypeOK /\ IndexInv /\ [EventsNext]_eventVars => (TypeOK /\ IndexInv)'
  BY IndexPreserved
<1>3. TypeOK /\ IndexInv => IndexFollows
  BY InvariantImpliesFollowing
<1> QED
  BY <1>1, <1>2, <1>3, PTL DEF EventsSpec
===============================================================================
