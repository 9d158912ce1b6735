--------------------------- MODULE ResolutionProofs ---------------------------
(***************************************************************************)
(* Resolution is typed, and its disputes are consistent, for every value   *)
(* of its constants.  Amounts stay opaque here: all a transfer is known to *)
(* do is to keep every balance in Nat.  What bonds add up to is the        *)
(* subject of ResolutionBondsProofs.                                       *)
(*                                                                         *)
(* None of the safety invariants is touched by most of the contract's      *)
(* calls, so the steps are first sorted into five kinds (StepKinds): one   *)
(* that leaves every dispute alone, and one that opens, challenges,        *)
(* appeals or concludes a dispute.  Each invariant is then preserved kind  *)
(* by kind.  They support one another: SettledAfterItsWindow needs         *)
(* WindowsHold, and MarketAgrees needs OneCandidatePerMarket, so all are   *)
(* proved as one inductive invariant, DisputesConsistent.  The timelock on *)
(* the treasury address stands apart: it needs no more than the types.     *)
(***************************************************************************)
EXTENDS Resolution, SequenceTheorems, TLAPS

-------------------------------------------------------------------------------
\* What the storage writes of a dispute do.

\* A transfer into the contract keeps balances natural numbers.
LEMMA TransferInType ==
  ASSUME MoneyTypeOK,
         NEW token \in Tokens, NEW from \in Users, NEW amount \in Nat,
         TransferIn(token, from, amount)
  PROVE  balance' \in [Tokens -> [Accounts -> Nat]]
<1>1. from \in Accounts /\ This \in Accounts /\ from # This
  BY ConstantsAssumption DEF Accounts
<1>2. balance[token] \in [Accounts -> Nat]
  BY DEF MoneyTypeOK
<1>3. [balance EXCEPT ![token][from] = @ - amount] \in [Tokens -> [Accounts -> Nat]]
  <2>1. balance[token][from] - amount \in Nat
    BY <1>1, <1>2 DEF TransferIn
  <2> QED BY <2>1, <1>1 DEF MoneyTypeOK
<1> QED BY <1>1, <1>2, <1>3 DEF TransferIn, MoneyTypeOK

\* So does a transfer out of it.
LEMMA TransferOutType ==
  ASSUME MoneyTypeOK,
         NEW token \in Tokens, NEW credit, NEW burned,
         TransferOut(token, credit, burned)
  PROVE  balance' \in [Tokens -> [Accounts -> Nat]]
<1> DEFINE out == SumFunction(credit) + burned
<1>1. credit \in [Accounts -> Nat] /\ out \in 0 .. balance[token][This]
  BY DEF TransferOut
<1> DEFINE paid == [a \in Accounts |->
                      balance[token][a] + credit[a] - (IF a = This THEN out ELSE 0)]
<1>2. balance' = [balance EXCEPT ![token] = paid]
  BY DEF TransferOut
<1> HIDE DEF out
<1>3. \A a \in Accounts : balance[token][a] \in Nat
  BY DEF MoneyTypeOK
<1>4. paid \in [Accounts -> Nat]
  BY <1>1, <1>3
<1> HIDE DEF paid
<1> QED BY <1>2, <1>4 DEF MoneyTypeOK

\* set_candidate replaces one candidate and leaves the others.
LEMMA SetCandidateEffect ==
  ASSUME DisputeTypeOK,
         NEW c \in 1 .. Len(candidates), NEW cand \in Candidate,
         SetCandidate(c, cand)
  PROVE  /\ candidates' \in Seq(Candidate)
         /\ Len(candidates') = Len(candidates)
         /\ \A d \in 1 .. Len(candidates) :
              candidates'[d] = IF d = c THEN cand ELSE candidates[d]
         /\ byMarket' \in [Markets -> Nat]
<1>1. cand.market_id \in Markets
  BY DEF Candidate
<1>2. Len(candidates) \in Nat
  BY LenProperties DEF DisputeTypeOK
<1>3. byMarket' \in [Markets -> Nat]
  BY <1>1, <1>2 DEF SetCandidate, DisputeTypeOK
<1>4. candidates' = [candidates EXCEPT ![c] = cand]
  BY DEF SetCandidate
<1> QED BY <1>3, <1>4, ExceptSeq DEF DisputeTypeOK

\* A fresh candidate is a candidate.
LEMMA FreshCandidateType ==
  ASSUME now \in Nat,
         NEW p \in Users, NEW m \in Markets, NEW o \in BOOLEAN,
         NEW v \in {"V1", "V2"}, NEW e \in Nat, NEW w \in Nat, NEW b \in Nat
  PROVE  FreshCandidate(p, m, o, v, e, w, b) \in Candidate
BY ConstantsAssumption DEF FreshCandidate, Candidate

\* Adding a candidate leaves the others, and starts it without challengers.
LEMMA AddCandidateEffect ==
  ASSUME DisputeTypeOK, NEW cand \in Candidate, AddCandidate(cand)
  PROVE  LET n == Len(candidates) + 1
         IN  /\ DisputeTypeOK'
             /\ Len(candidates') = n /\ Len(challengers') = n
             /\ \A d \in 1 .. Len(candidates) : /\ candidates'[d] = candidates[d]
                                                /\ challengers'[d] = challengers[d]
             /\ candidates'[n] = cand /\ challengers'[n] = <<>>
             /\ byMarket' = [byMarket EXCEPT ![cand.market_id] = n]
<1>1. cand.market_id \in Markets
  BY DEF Candidate
<1>2. Len(candidates) \in Nat /\ Len(challengers) = Len(candidates)
  BY LenProperties DEF DisputeTypeOK
<1>3. <<>> \in Seq(ChallengeRecord)
  BY EmptySeq
<1>4. /\ candidates' \in Seq(Candidate) /\ Len(candidates') = Len(candidates) + 1
      /\ \A d \in 1 .. Len(candidates) : candidates'[d] = candidates[d]
      /\ candidates'[Len(candidates) + 1] = cand
  BY <1>2, AppendProperties DEF DisputeTypeOK, AddCandidate
<1>5. /\ challengers' \in Seq(Seq(ChallengeRecord)) /\ Len(challengers') = Len(candidates) + 1
      /\ \A d \in 1 .. Len(candidates) : challengers'[d] = challengers[d]
      /\ challengers'[Len(candidates) + 1] = <<>>
  BY <1>2, <1>3, AppendProperties DEF DisputeTypeOK, AddCandidate
<1>6. byMarket' = [byMarket EXCEPT ![cand.market_id] = Len(candidates) + 1]
  BY DEF AddCandidate
<1>7. byMarket' \in [Markets -> Nat]
  BY <1>1, <1>2, <1>6 DEF DisputeTypeOK
<1> QED BY <1>4, <1>5, <1>6, <1>7 DEF DisputeTypeOK

\* Writing one challenger list leaves the others.
LEMMA SetChallengersEffect ==
  ASSUME DisputeTypeOK, NEW c \in 1 .. Len(candidates),
         NEW records \in Seq(ChallengeRecord),
         challengers' = [challengers EXCEPT ![c] = records]
  PROVE  /\ challengers' \in Seq(Seq(ChallengeRecord))
         /\ Len(challengers') = Len(candidates)
         /\ \A d \in 1 .. Len(candidates) :
              challengers'[d] = IF d = c THEN records ELSE challengers[d]
BY ExceptSeq DEF DisputeTypeOK

-------------------------------------------------------------------------------
\* What the three dispute transitions do to a candidate and its challengers.

\* The candidate a challenge, an appeal or a conclusion writes is a candidate.
LEMMA ChallengeEffect ==
  ASSUME TypeOK, NEW c \in 1 .. Len(candidates), NEW u \in Users, NEW b \in Nat,
         Challenge(u, c, b)
  PROVE  LET cand == [candidates[c] EXCEPT !.status = "Challenged", !.challenged_by = u]
             records == Append(challengers[c], [challenger |-> u, bond |-> b])
         IN  /\ cand \in Candidate /\ SetCandidate(c, cand)
             /\ records \in Seq(ChallengeRecord)
             /\ challengers' = [challengers EXCEPT ![c] = records]
             /\ DisputeTypeOK'
<1> DEFINE cand == [candidates[c] EXCEPT !.status = "Challenged", !.challenged_by = u]
           records == Append(challengers[c], [challenger |-> u, bond |-> b])
<1>1. candidates[c] \in Candidate
  BY ElementOfSeq DEF TypeOK, DisputeTypeOK
<1>2. cand \in Candidate
  BY <1>1 DEF Candidate
<1>3. challengers[c] \in Seq(ChallengeRecord)
  BY ElementOfSeq DEF TypeOK, DisputeTypeOK
<1>4. [challenger |-> u, bond |-> b] \in ChallengeRecord
  BY DEF ChallengeRecord
<1>5. records \in Seq(ChallengeRecord)
  BY <1>3, <1>4, AppendProperties
<1>6. SetCandidate(c, cand) /\ challengers' = [challengers EXCEPT ![c] = records]
  BY DEF Challenge
<1>7. DisputeTypeOK
  BY DEF TypeOK
<1> HIDE DEF cand, records
<1>8. DisputeTypeOK'
  BY <1>2, <1>5, <1>6, <1>7, SetCandidateEffect, SetChallengersEffect DEF DisputeTypeOK
<1> QED BY <1>2, <1>5, <1>6, <1>8 DEF cand, records

LEMMA AppealEffect ==
  ASSUME TypeOK, NEW c \in 1 .. Len(candidates), NEW o \in BOOLEAN, NEW w \in WindowInputs,
         Appeal(c, o, w)
  PROVE  LET cand == [candidates[c] EXCEPT
                        !.outcome = o, !.proposed_at = now, !.challenge_deadline = now + w,
                        !.status = "Proposed", !.challenged_by = Unset,
                        !.appeal_round = @ + 1]
         IN  /\ cand \in Candidate /\ SetCandidate(c, cand)
             /\ UNCHANGED challengers
             /\ DisputeTypeOK'
<1> DEFINE cand == [candidates[c] EXCEPT
                      !.outcome = o, !.proposed_at = now, !.challenge_deadline = now + w,
                      !.status = "Proposed", !.challenged_by = Unset,
                      !.appeal_round = @ + 1]
<1>1. candidates[c] \in Candidate
  BY ElementOfSeq DEF TypeOK, DisputeTypeOK
<1>2. now \in Nat /\ now + w \in Nat
  BY ConstantsAssumption DEF TypeOK
<1>3. candidates[c].appeal_round + 1 \in 0 .. MAX_APPEAL_ROUNDS
  <2>1. candidates[c].appeal_round < MAX_APPEAL_ROUNDS
    BY DEF Appeal, Appealable
  <2>2. candidates[c].appeal_round \in 0 .. MAX_APPEAL_ROUNDS
    BY <1>1 DEF Candidate
  <2>3. MAX_APPEAL_ROUNDS \in Nat
    BY ConstantsAssumption
  <2> QED BY <2>1, <2>2, <2>3
<1>4. cand \in Candidate
  BY <1>1, <1>2, <1>3 DEF Candidate
<1>5. SetCandidate(c, cand) /\ UNCHANGED challengers
  BY DEF Appeal
<1>6. DisputeTypeOK
  BY DEF TypeOK
<1> HIDE DEF cand
<1>7. DisputeTypeOK'
  BY <1>4, <1>5, <1>6, SetCandidateEffect DEF DisputeTypeOK
<1> QED BY <1>4, <1>5, <1>7 DEF cand

LEMMA ConcludeEffect ==
  ASSUME TypeOK, NEW c \in 1 .. Len(candidates), NEW status \in {"Finalized", "Voided"},
         Conclude(c, status)
  PROVE  LET cand == [candidates[c] EXCEPT !.status = status, !.finalized_at = now]
         IN  /\ cand \in Candidate /\ SetCandidate(c, cand)
             /\ <<>> \in Seq(ChallengeRecord)
             /\ challengers' = [challengers EXCEPT ![c] = <<>>]
             /\ DisputeTypeOK'
<1> DEFINE cand == [candidates[c] EXCEPT !.status = status, !.finalized_at = now]
<1>1. candidates[c] \in Candidate
  BY ElementOfSeq DEF TypeOK, DisputeTypeOK
<1>2. cand \in Candidate
  BY <1>1 DEF Candidate, TypeOK
<1>3. <<>> \in Seq(ChallengeRecord)
  BY EmptySeq
<1>4. SetCandidate(c, cand) /\ challengers' = [challengers EXCEPT ![c] = <<>>]
  BY DEF Conclude
<1>5. DisputeTypeOK
  BY DEF TypeOK
<1> HIDE DEF cand
<1>6. DisputeTypeOK'
  BY <1>2, <1>3, <1>4, <1>5, SetCandidateEffect, SetChallengersEffect DEF DisputeTypeOK
<1> QED BY <1>2, <1>3, <1>4, <1>6 DEF cand

-------------------------------------------------------------------------------
\* Type correctness.

\* The market contract's answer about a candidate's market is a token.
LEMMA CollateralTokenType ==
  ASSUME AdminTypeOK, AssertVersion, NEW m \in Markets
  PROVE  config.market_contract \in MarketContracts /\ GetCollateralToken(m) \in Tokens
BY ConstantsAssumption DEF AdminTypeOK, ResolutionConfig, AssertVersion, GetCollateralToken

\* Settling a market of the registered contract keeps the markets typed.
LEMMA SettleMarketType ==
  ASSUME MarketTypeOK, config.market_contract \in MarketContracts,
         NEW m \in Markets, NEW status \in {"Resolved", "Canceled"}, NEW o \in BOOLEAN,
         SettleMarket(m, status, o), UNCHANGED gate
  PROVE  MarketTypeOK'
BY DEF MarketTypeOK, SettleMarket, MarketState

\* A step that writes only config, treasury, pending, mode or paused.
LEMMA AdminStepType ==
  ASSUME TypeOK, AdminStep
  PROVE  TypeOK'
<1> USE ConstantsAssumption
<1>1. \A r \in Registers : \A a \in Registrable(r) :
        a \in Factories \cup MarketContracts \cup Treasuries
  BY DEF Registers, Registrable
<1>2. CASE \E f \in Factories, k \in MarketContracts, w \in WindowInputs : Initialize(f, k, w)
  BY <1>2 DEF TypeOK, AdminTypeOK, DisputeTypeOK, MarketTypeOK, MoneyTypeOK, Initialize,
     ResolutionConfig, disputeVars, marketVars, moneyVars
<1>3. CASE \E w \in WindowInputs : SetDefaultChallengeWindow(w)
  <2>1. PICK w \in WindowInputs : SetDefaultChallengeWindow(w)
    BY <1>3
  <2>2. config' \in ResolutionConfig
    BY <2>1 DEF SetDefaultChallengeWindow, TypeOK, AdminTypeOK, ResolutionConfig
  <2> QED
    BY <2>1, <2>2 DEF TypeOK, AdminTypeOK, DisputeTypeOK, MarketTypeOK, MoneyTypeOK,
       SetDefaultChallengeWindow, disputeVars, marketVars, moneyVars
<1>4. CASE \E k \in MarketContractInputs : SetMarketContract(k)
  BY <1>4 DEF TypeOK, AdminTypeOK, DisputeTypeOK, MarketTypeOK, MoneyTypeOK,
     SetMarketContract, ResolutionConfig, disputeVars, marketVars, moneyVars
<1>5. ASSUME NEW r \in Registers, NEW a \in Registrable(r), ProposeAddress(r, a)
      PROVE  TypeOK'
  <2>1. now + ADDRESS_TIMELOCK_SECONDS \in Nat
    BY DEF TypeOK
  <2>2. [new_address |-> a, effective_at |-> now + ADDRESS_TIMELOCK_SECONDS]
          \in PendingAddressChange
    BY <1>1, <2>1 DEF PendingAddressChange
  <2> QED
    BY <1>5, <2>2 DEF TypeOK, AdminTypeOK, DisputeTypeOK, MarketTypeOK, MoneyTypeOK,
       ProposeAddress, disputeVars, marketVars, moneyVars
<1>6. ASSUME NEW r \in Registers, CancelAddress(r)
      PROVE  TypeOK'
  BY <1>6 DEF TypeOK, AdminTypeOK, DisputeTypeOK, MarketTypeOK, MoneyTypeOK,
     CancelAddress, disputeVars, marketVars, moneyVars
<1>7. ASSUME NEW r \in Registers, NEW a, Due(r, a), config' \in ResolutionConfig,
             UNCHANGED treasury
      PROVE  TypeOK'
  BY <1>7 DEF TypeOK, AdminTypeOK, DisputeTypeOK, MarketTypeOK, MoneyTypeOK, Due,
     disputeVars, marketVars, moneyVars
<1>8. CASE \/ \E f \in FactoryInputs : ExecuteFactory(f)
           \/ \E k \in MarketContractInputs : ExecuteMarketContract(k)
  <2>1. config' \in ResolutionConfig
    BY <1>8 DEF ExecuteFactory, ExecuteMarketContract, TypeOK, AdminTypeOK, ResolutionConfig
  <2> QED
    BY <1>7, <1>8, <2>1 DEF ExecuteFactory, ExecuteMarketContract, Registers
<1>9. CASE \E t \in TreasuryInputs : ExecuteTreasury(t)
  BY <1>9 DEF TypeOK, AdminTypeOK, DisputeTypeOK, MarketTypeOK, MoneyTypeOK, ExecuteTreasury,
     Due, Registers, Registrable, disputeVars, marketVars, moneyVars
<1>10. CASE \E new_mode \in ModeInputs : SetEmergencyMode(new_mode)
  BY <1>10 DEF TypeOK, AdminTypeOK, DisputeTypeOK, MarketTypeOK, MoneyTypeOK,
     SetEmergencyMode, disputeVars, marketVars, moneyVars
<1>11. CASE Pause \/ Unpause
  BY <1>11 DEF TypeOK, AdminTypeOK, DisputeTypeOK, MarketTypeOK, MoneyTypeOK,
     Pause, Unpause, SetPaused, disputeVars, marketVars, moneyVars
<1>12. CASE \/ \E k \in MarketContractInputs : ProposeMarketContract(k)
            \/ \E f \in FactoryInputs : ProposeFactory(f)
            \/ \E t \in TreasuryInputs : ProposeTreasury(t)
  <2>1. /\ \A k \in MarketContractInputs : k \in Registrable("market_contract")
        /\ \A f \in FactoryInputs : f \in Registrable("factory")
        /\ \A t \in TreasuryInputs : t \in Registrable("treasury")
    BY DEF Registrable
  <2> QED
    BY <1>5, <1>12, <2>1 DEF Registers, ProposeMarketContract, ProposeFactory, ProposeTreasury
<1>13. CASE CancelFactory \/ CancelMarketContract \/ CancelTreasury
  BY <1>6, <1>13 DEF Registers, CancelFactory, CancelMarketContract, CancelTreasury
<1> QED
  BY <1>2, <1>3, <1>4, <1>8, <1>9, <1>10, <1>11, <1>12, <1>13 DEF AdminStep

\* A proposal, under either signature scheme.
LEMMA ProposeStepType ==
  ASSUME TypeOK, ProposeStep
  PROVE  TypeOK'
<1> USE ConstantsAssumption
<1>1. PICK p \in Users, m \in Markets, o \in BOOLEAN, e \in ExpiryInputs,
           w \in WindowInputs, b \in BondInputs :
        Propose(p, m, o, e, w, b) \/ ProposeV2(p, m, o, e, w, b)
  BY DEF ProposeStep
<1>2. e \in Nat /\ w \in Nat /\ b \in Nat
  OBVIOUS
<1>3. PICK v \in {"V1", "V2"} : AddCandidate(FreshCandidate(p, m, o, v, e, w, b))
  BY <1>1 DEF Propose, ProposeV2
<1>4. DisputeTypeOK'
  <2>1. FreshCandidate(p, m, o, v, e, w, b) \in Candidate
    BY <1>2, FreshCandidateType DEF TypeOK
  <2> QED BY <1>3, <2>1, AddCandidateEffect DEF TypeOK
<1>5. /\ AssertVersion
      /\ TransferIn(GetCollateralToken(m), p, b)
      /\ UNCHANGED <<now, adminVars, marketVars, collateral>>
  BY <1>1 DEF Propose, ProposeV2, Postable
<1>6. balance' \in [Tokens -> [Accounts -> Nat]]
  BY <1>2, <1>5, TransferInType, CollateralTokenType DEF TypeOK
<1> QED
  BY <1>4, <1>5, <1>6 DEF TypeOK, AdminTypeOK, MarketTypeOK, MoneyTypeOK, adminVars, marketVars

\* A challenge, an appeal or one of the three ways a dispute ends.
LEMMA DisputeStepType ==
  ASSUME TypeOK, DisputeStep
  PROVE  TypeOK'
<1> USE ConstantsAssumption
<1>1. PICK c \in 1 .. Len(candidates) :
        \/ \E u \in Users, b \in BondInputs : Challenge(u, c, b)
        \/ \E o \in BOOLEAN, w \in WindowInputs : Appeal(c, o, w)
        \/ Finalize(c) \/ ArbitrateUpholdProposer(c) \/ VoidMarket(c)
  BY LenProperties DEF DisputeStep, TypeOK, DisputeTypeOK
<1>2. candidates[c] \in Candidate
  BY ElementOfSeq DEF TypeOK, DisputeTypeOK
<1>3. candidates[c].market_id \in Markets /\ candidates[c].outcome \in BOOLEAN
  BY <1>2 DEF Candidate
<1>4. ASSUME NEW u \in Users, NEW b \in BondInputs, Challenge(u, c, b)
      PROVE  TypeOK'
  <2>1. DisputeTypeOK'
    BY <1>4, ChallengeEffect
  <2>2. /\ AssertVersion
        /\ TransferIn(GetCollateralToken(candidates[c].market_id), u, b)
        /\ UNCHANGED <<now, adminVars, marketVars, collateral>>
    BY <1>4 DEF Challenge
  <2>3. balance' \in [Tokens -> [Accounts -> Nat]]
    BY <1>3, <2>2, TransferInType, CollateralTokenType DEF TypeOK
  <2> QED
    BY <2>1, <2>2, <2>3 DEF TypeOK, AdminTypeOK, MarketTypeOK, MoneyTypeOK,
       adminVars, marketVars
<1>5. ASSUME NEW o \in BOOLEAN, NEW w \in WindowInputs, Appeal(c, o, w)
      PROVE  TypeOK'
  <2>1. DisputeTypeOK'
    BY <1>5, AppealEffect
  <2>2. UNCHANGED <<now, adminVars, marketVars, moneyVars>>
    BY <1>5 DEF Appeal
  <2> QED
    BY <2>1, <2>2 DEF TypeOK, AdminTypeOK, MarketTypeOK, MoneyTypeOK,
       adminVars, marketVars, moneyVars
<1>6. ASSUME NEW status \in {"Finalized", "Voided"}, Conclude(c, status),
             AssertVersion, UNCHANGED <<now, adminVars, gate, collateral>>,
             \E credit, burned :
               TransferOut(GetCollateralToken(candidates[c].market_id), credit, burned),
             \E s \in {"Resolved", "Canceled"}, o \in BOOLEAN :
               SettleMarket(candidates[c].market_id, s, o)
      PROVE  TypeOK'
  <2>1. DisputeTypeOK'
    BY <1>6, ConcludeEffect
  <2>2. /\ config.market_contract \in MarketContracts
        /\ GetCollateralToken(candidates[c].market_id) \in Tokens
    BY <1>3, <1>6, CollateralTokenType DEF TypeOK
  <2>3. MarketTypeOK'
    BY <1>3, <1>6, <2>2, SettleMarketType DEF TypeOK
  <2>4. balance' \in [Tokens -> [Accounts -> Nat]]
    BY <1>6, <2>2, TransferOutType DEF TypeOK
  <2> QED
    BY <1>6, <2>1, <2>3, <2>4 DEF TypeOK, AdminTypeOK, MoneyTypeOK, adminVars
<1>7. CASE Finalize(c)
  BY <1>3, <1>6, <1>7 DEF Finalize, SettleChallengersAsLosers, ResolveMarket, ResolveMarketV2
<1>8. CASE ArbitrateUpholdProposer(c)
  BY <1>3, <1>6, <1>8 DEF ArbitrateUpholdProposer, SettleChallengersAsLosers, ResolveMarket
<1>9. CASE VoidMarket(c)
  BY <1>6, <1>9 DEF VoidMarket, VoidInMarket
<1> QED BY <1>1, <1>4, <1>5, <1>7, <1>8, <1>9

\* Proposer collateral moves.
LEMMA CollateralStepType ==
  ASSUME TypeOK, CollateralStep
  PROVE  TypeOK'
<1> USE ConstantsAssumption
<1>1. PICK p \in Users, t \in DepositTokens :
        \/ \E amount \in CollateralInputs : DepositCollateral(p, t, amount)
        \/ \E recipient \in Users : SlashCollateral(p, t, recipient)
  BY DEF CollateralStep
<1>2. collateral' \in [Users -> Nat]
  <2>1. PICK held \in Nat : collateral' = [collateral EXCEPT ![p] = held]
    <3>1. collateral[p] \in Nat
      BY DEF TypeOK, MoneyTypeOK
    <3>2. ASSUME NEW amount \in CollateralInputs, DepositCollateral(p, t, amount)
          PROVE  \E held \in Nat : collateral' = [collateral EXCEPT ![p] = held]
      <4>1. collateral' = [collateral EXCEPT ![p] = collateral[p] + amount]
        BY <3>2 DEF DepositCollateral
      <4>2. collateral[p] + amount \in Nat
        BY <3>1
      <4> QED BY <4>1, <4>2
    <3>3. ASSUME NEW recipient \in Users, SlashCollateral(p, t, recipient)
          PROVE  \E held \in Nat : collateral' = [collateral EXCEPT ![p] = held]
      <4>1. collateral' = [collateral EXCEPT ![p] = 0]
        BY <3>3 DEF SlashCollateral
      <4> QED BY <4>1
    <3> QED BY <1>1, <3>2, <3>3
  <2> QED BY <2>1 DEF TypeOK, MoneyTypeOK
<1>3. balance' \in [Tokens -> [Accounts -> Nat]]
  <2>1. CASE \E amount \in CollateralInputs : DepositCollateral(p, t, amount)
    BY <2>1, TransferInType DEF TypeOK, DepositCollateral
  <2>2. CASE \E recipient \in Users : SlashCollateral(p, t, recipient)
    BY <2>2, TransferOutType DEF TypeOK, SlashCollateral
  <2> QED BY <1>1, <2>1, <2>2
<1>4. UNCHANGED <<now, adminVars, disputeVars, marketVars>>
  BY <1>1 DEF DepositCollateral, SlashCollateral
<1> QED
  BY <1>2, <1>3, <1>4 DEF TypeOK, AdminTypeOK, DisputeTypeOK, MarketTypeOK, MoneyTypeOK,
     adminVars, disputeVars, marketVars

\* The environment: a market settled out of band, or a gate that moves.
LEMMA EnvironmentStepType ==
  ASSUME TypeOK, EnvironmentStep
  PROVE  TypeOK'
<1> USE ConstantsAssumption
<1>1. PICK k \in MarketContracts :
        \/ \E g \in GateInputs : MoveGate(k, g)
        \/ \E m \in Markets, event \in OutOfBand, o \in BOOLEAN :
             SettledElsewhere(k, m, event, o)
  BY DEF EnvironmentStep
<1>2. CASE \E g \in GateInputs : MoveGate(k, g)
  BY <1>2 DEF TypeOK, AdminTypeOK, DisputeTypeOK, MarketTypeOK, MoneyTypeOK,
     MoveGate, adminVars, disputeVars, moneyVars
<1>3. ASSUME NEW m \in Markets, NEW s \in MarketState,
             market' = [market EXCEPT ![k][m] = s],
             UNCHANGED <<now, adminVars, disputeVars, gate, moneyVars>>
      PROVE  TypeOK'
  BY <1>3 DEF TypeOK, AdminTypeOK, DisputeTypeOK, MarketTypeOK, MoneyTypeOK,
     adminVars, disputeVars, moneyVars
<1>4. ASSUME NEW m \in Markets, NEW event \in OutOfBand, NEW out \in BOOLEAN,
             SettledElsewhere(k, m, event, out)
      PROVE  TypeOK'
  <2>1. \A status \in {"Active", "Resolved", "Canceled"}, o \in BOOLEAN :
          [status |-> status, outcome |-> o, settled_by |-> "elsewhere"] \in MarketState
    BY DEF MarketState
  <2>2. PICK s \in MarketState : market' = [market EXCEPT ![k][m] = s]
    BY <1>4, <2>1 DEF SettledElsewhere
  <2>3. UNCHANGED <<now, adminVars, disputeVars, gate, moneyVars>>
    BY <1>4 DEF SettledElsewhere
  <2> QED BY <1>3, <2>2, <2>3
<1> QED BY <1>1, <1>2, <1>4

\* Every reachable state is typed: in particular no call ever drives a balance
\* or the recorded collateral below zero, and no appeal exceeds its limit.
THEOREM TypeCorrect == Spec => []TypeOK
<1>1. Init => TypeOK
  <2> SUFFICES ASSUME Init PROVE TypeOK
    OBVIOUS
  <2>1. AdminTypeOK /\ MarketTypeOK /\ MoneyTypeOK /\ now \in Nat
    BY ConstantsAssumption DEF Init, AdminTypeOK, MarketTypeOK, MoneyTypeOK, ResolutionConfig,
       MarketState, Modes, Gates, Registers
  <2>2. DisputeTypeOK
    BY EmptySeq DEF Init, DisputeTypeOK
  <2> QED BY <2>1, <2>2 DEF TypeOK
<1>2. TypeOK /\ [Next]_vars => TypeOK'
  <2> SUFFICES ASSUME TypeOK, [Next]_vars PROVE TypeOK'
    OBVIOUS
  <2>1. CASE Tick
    BY <2>1 DEF Tick, TypeOK, AdminTypeOK, DisputeTypeOK, MarketTypeOK, MoneyTypeOK,
       adminVars, disputeVars, marketVars, moneyVars
  <2>2. CASE UNCHANGED vars
    BY <2>2 DEF vars, TypeOK, AdminTypeOK, DisputeTypeOK, MarketTypeOK, MoneyTypeOK,
       adminVars, disputeVars, marketVars, moneyVars
  <2> QED
    BY <2>1, <2>2, ProposeStepType, DisputeStepType, CollateralStepType, AdminStepType,
       EnvironmentStepType DEF Next
<1> QED BY <1>1, <1>2, PTL DEF Spec

-------------------------------------------------------------------------------
\* The kinds of steps.

\* The markets a step that concludes nothing may still touch: one that is not
\* resolved, settled by somebody else.
MarketQuiet ==
  \A k \in MarketContracts, m \in Markets :
    \/ market'[k][m] = market[k][m]
    \/ market[k][m].status # "Resolved" /\ market'[k][m].settled_by = "elsewhere"

DisputesQuiet == UNCHANGED disputeVars /\ MarketQuiet

Opening(cand) ==
  /\ AddCandidate(cand)
  /\ byMarket[cand.market_id] = 0
  /\ cand.status = "Proposed" /\ cand.challenged_by = Unset /\ cand.appeal_round = 0
  /\ WindowHolds(cand)
  /\ UNCHANGED market

Concluding(c, status, settled_as, outcome) ==
  /\ Conclude(c, status)
  /\ Finalizable(candidates[c]) \/ RequireArbitrable(candidates[c])
  /\ config.market_contract \in MarketContracts
  /\ RequireMarketActive(candidates[c].market_id)
  /\ SettleMarket(candidates[c].market_id, settled_as, outcome)
  /\ \/ status = "Finalized" /\ settled_as = "Resolved" /\ outcome = candidates[c].outcome
     \/ status = "Voided" /\ settled_as = "Canceled" /\ outcome = FALSE

\* Every step of the contract is of one of the five kinds.
LEMMA StepKinds ==
  ASSUME TypeOK, [Next]_vars
  PROVE  \/ DisputesQuiet
         \/ \E cand \in Candidate : Opening(cand)
         \/ \E c \in 1 .. Len(candidates), u \in Users, b \in Nat :
              Challenge(u, c, b)
         \/ \E c \in 1 .. Len(candidates), o \in BOOLEAN, w \in WindowInputs :
              Appeal(c, o, w)
         \/ \E c \in 1 .. Len(candidates) : \E status, settled_as, outcome :
              Concluding(c, status, settled_as, outcome)
<1> USE ConstantsAssumption
<1>1. CASE Tick \/ AdminStep \/ CollateralStep \/ UNCHANGED vars
  <2>1. UNCHANGED <<disputeVars, market>>
    <3>1. CASE AdminStep
      BY <3>1 DEF AdminStep, Initialize, SetDefaultChallengeWindow, SetMarketContract,
         ProposeMarketContract, ProposeFactory, ProposeTreasury, ProposeAddress,
         CancelFactory, CancelMarketContract, CancelTreasury, CancelAddress,
         ExecuteFactory, ExecuteMarketContract, ExecuteTreasury, Due,
         SetEmergencyMode, Pause, Unpause, SetPaused, marketVars
    <3> QED
      BY <1>1, <3>1 DEF Tick, CollateralStep, DepositCollateral, SlashCollateral, vars, marketVars
  <2> QED BY <2>1 DEF DisputesQuiet, MarketQuiet
<1>2. CASE EnvironmentStep
  <2>1. UNCHANGED disputeVars
    BY <1>2 DEF EnvironmentStep, SettledElsewhere, MoveGate
  <2>2. MarketQuiet
    <3> SUFFICES ASSUME NEW j \in MarketContracts, NEW n \in Markets,
                        market'[j][n] # market[j][n]
                 PROVE  /\ market[j][n].status # "Resolved"
                        /\ market'[j][n].settled_by = "elsewhere"
      BY DEF MarketQuiet
    <3>1. PICK k \in MarketContracts, m \in Markets, event \in OutOfBand, o \in BOOLEAN :
            SettledElsewhere(k, m, event, o)
      BY <1>2 DEF EnvironmentStep, MoveGate
    <3>2. market \in [MarketContracts -> [Markets -> MarketState]]
      BY DEF TypeOK, MarketTypeOK
    <3>3. /\ market[k][m].status # "Resolved"
          /\ market'[k][m].settled_by = "elsewhere"
          /\ ~ (j = k /\ n = m) => market'[j][n] = market[j][n]
      BY <3>1, <3>2 DEF SettledElsewhere
    <3> QED BY <3>3
  <2> QED BY <2>1, <2>2 DEF DisputesQuiet
<1>3. CASE ProposeStep
  <2>1. PICK p \in Users, m \in Markets, o \in BOOLEAN, e \in ExpiryInputs,
             w \in WindowInputs, b \in BondInputs :
          Propose(p, m, o, e, w, b) \/ ProposeV2(p, m, o, e, w, b)
    BY <1>3 DEF ProposeStep
  <2>2. PICK v \in {"V1", "V2"} : AddCandidate(FreshCandidate(p, m, o, v, e, w, b))
    BY <2>1 DEF Propose, ProposeV2
  <2> DEFINE cand == FreshCandidate(p, m, o, v, e, w, b)
  <2>3. byMarket[m] = 0 /\ ValidateChallengeWindow(w) /\ UNCHANGED market
    BY <2>1 DEF Propose, ProposeV2, Postable, marketVars
  <2>4. w \in Nat /\ now \in Nat
    BY DEF TypeOK
  <2>5. cand \in Candidate
    BY <2>4, FreshCandidateType
  <2>6. Opening(cand)
    BY <2>2, <2>3, <2>4 DEF Opening, FreshCandidate, WindowHolds, ValidateChallengeWindow
  <2> QED BY <2>5, <2>6
<1>4. CASE DisputeStep
  <2>1. PICK c \in 1 .. Len(candidates) :
          \/ \E u \in Users, b \in BondInputs : Challenge(u, c, b)
          \/ \E o \in BOOLEAN, w \in WindowInputs : Appeal(c, o, w)
          \/ Finalize(c) \/ ArbitrateUpholdProposer(c) \/ VoidMarket(c)
    BY <1>4, LenProperties DEF DisputeStep, TypeOK, DisputeTypeOK
  <2>2. AssertVersion => config.market_contract \in MarketContracts
    BY DEF AssertVersion, TypeOK, AdminTypeOK, ResolutionConfig
  <2>3. CASE Finalize(c)
    BY <2>2, <2>3 DEF Finalize, Concluding, ResolveMarket, ResolveMarketV2
  <2>4. CASE ArbitrateUpholdProposer(c)
    BY <2>2, <2>4 DEF ArbitrateUpholdProposer, Concluding, ResolveMarket
  <2>5. CASE VoidMarket(c)
    BY <2>2, <2>5 DEF VoidMarket, Concluding, VoidInMarket
  <2>6. CASE \E u \in Users, b \in BondInputs : Challenge(u, c, b)
    BY <2>6
  <2>7. CASE \E o \in BOOLEAN, w \in WindowInputs : Appeal(c, o, w)
    BY <2>7
  <2> QED BY <2>1, <2>3, <2>4, <2>5, <2>6, <2>7
<1> QED BY <1>1, <1>2, <1>3, <1>4 DEF Next

-------------------------------------------------------------------------------
\* What each kind of step does to the candidates and their challengers, with the
\* storage writes worked out.

\* The ids of the candidates are 1 .. Len(candidates), in both states.
LEMMA Ids ==
  ASSUME DisputeTypeOK
  PROVE  /\ DOMAIN candidates = 1 .. Len(candidates)
         /\ Len(candidates) \in Nat
         /\ \A c \in 1 .. Len(candidates) : /\ candidates[c] \in Candidate
                                            /\ challengers[c] \in Seq(ChallengeRecord)
BY LenProperties, ElementOfSeq DEF DisputeTypeOK

\* One candidate is rewritten: it stays in its market and keeps its bond, and every
\* other one stays as it is.
Rewritten(c) ==
  /\ DisputeTypeOK' /\ Len(candidates') = Len(candidates)
  /\ byMarket' = [byMarket EXCEPT ![candidates[c].market_id] = c]
  /\ candidates'[c].market_id = candidates[c].market_id
  /\ candidates'[c].bond_amount = candidates[c].bond_amount
  /\ \A d \in 1 .. Len(candidates) : d # c =>
       candidates'[d] = candidates[d] /\ challengers'[d] = challengers[d]

\* set_candidate under an existing id, with a candidate of the same market.
LEMMA RewriteOne ==
  ASSUME DisputeTypeOK, DisputeTypeOK', NEW c \in 1 .. Len(candidates),
         NEW cand \in Candidate, NEW records \in Seq(ChallengeRecord),
         SetCandidate(c, cand), cand.market_id = candidates[c].market_id,
         cand.bond_amount = candidates[c].bond_amount,
         challengers' = [challengers EXCEPT ![c] = records]
  PROVE  Rewritten(c) /\ candidates'[c] = cand /\ challengers'[c] = records
<1>1. byMarket' = [byMarket EXCEPT ![candidates[c].market_id] = c]
  BY DEF SetCandidate
<1>2. /\ Len(candidates') = Len(candidates)
      /\ \A d \in 1 .. Len(candidates) :
           candidates'[d] = IF d = c THEN cand ELSE candidates[d]
  BY SetCandidateEffect
<1>3. \A d \in 1 .. Len(candidates) :
        challengers'[d] = IF d = c THEN records ELSE challengers[d]
  BY SetChallengersEffect
<1> QED BY <1>1, <1>2, <1>3 DEF Rewritten

\* After a challenge the candidate is challenged by the last one on record.
LEMMA AfterChallenge ==
  ASSUME TypeOK, NEW c \in 1 .. Len(candidates), NEW u \in Users, NEW b \in Nat,
         Challenge(u, c, b)
  PROVE  /\ Rewritten(c) /\ UNCHANGED market
         /\ candidates[c].status = "Proposed"
         /\ candidates'[c].status = "Challenged" /\ candidates'[c].challenged_by = u
         /\ candidates'[c].appeal_round = candidates[c].appeal_round
         /\ candidates'[c].proposed_at = candidates[c].proposed_at
         /\ candidates'[c].challenge_deadline = candidates[c].challenge_deadline
         /\ challengers'[c] = Append(challengers[c], [challenger |-> u, bond |-> b])
<1> DEFINE cand == [candidates[c] EXCEPT !.status = "Challenged", !.challenged_by = u]
           records == Append(challengers[c], [challenger |-> u, bond |-> b])
<1>1. /\ cand \in Candidate /\ SetCandidate(c, cand)
      /\ records \in Seq(ChallengeRecord)
      /\ challengers' = [challengers EXCEPT ![c] = records]
      /\ DisputeTypeOK'
  BY ChallengeEffect
<1>2. DisputeTypeOK /\ candidates[c] \in Candidate
  BY Ids DEF TypeOK
<1>3. /\ cand.market_id = candidates[c].market_id
      /\ cand.bond_amount = candidates[c].bond_amount
      /\ cand.status = "Challenged" /\ cand.challenged_by = u
      /\ cand.appeal_round = candidates[c].appeal_round
      /\ cand.proposed_at = candidates[c].proposed_at
      /\ cand.challenge_deadline = candidates[c].challenge_deadline
  BY <1>2 DEF Candidate
<1>4. UNCHANGED market /\ candidates[c].status = "Proposed"
  BY DEF Challenge, Challengeable, marketVars
<1> HIDE DEF cand
<1>5. Rewritten(c) /\ candidates'[c] = cand /\ challengers'[c] = records
  <2> HIDE DEF records
  <2> QED BY <1>1, <1>2, <1>3, RewriteOne
<1> QED BY <1>3, <1>4, <1>5

\* After an appeal it has a new window and its challengers stay on record.
LEMMA AfterAppeal ==
  ASSUME TypeOK, NEW c \in 1 .. Len(candidates), NEW o \in BOOLEAN, NEW w \in WindowInputs,
         Appeal(c, o, w)
  PROVE  /\ Rewritten(c) /\ UNCHANGED market
         /\ ValidateChallengeWindow(w)
         /\ candidates[c].status = "Challenged"
         /\ candidates[c].appeal_round < MAX_APPEAL_ROUNDS
         /\ candidates'[c].status = "Proposed" /\ candidates'[c].challenged_by = Unset
         /\ candidates'[c].appeal_round = candidates[c].appeal_round + 1
         /\ candidates'[c].proposed_at = now
         /\ candidates'[c].challenge_deadline = now + w
         /\ challengers'[c] = challengers[c]
<1> DEFINE cand == [candidates[c] EXCEPT
                      !.outcome = o, !.proposed_at = now, !.challenge_deadline = now + w,
                      !.status = "Proposed", !.challenged_by = Unset,
                      !.appeal_round = @ + 1]
<1>1. /\ cand \in Candidate /\ SetCandidate(c, cand)
      /\ UNCHANGED challengers /\ DisputeTypeOK'
  BY AppealEffect
<1>2. DisputeTypeOK /\ candidates[c] \in Candidate /\ challengers[c] \in Seq(ChallengeRecord)
  BY Ids DEF TypeOK
<1>3. /\ cand.market_id = candidates[c].market_id
      /\ cand.bond_amount = candidates[c].bond_amount
      /\ cand.status = "Proposed" /\ cand.challenged_by = Unset
      /\ cand.appeal_round = candidates[c].appeal_round + 1
      /\ cand.proposed_at = now /\ cand.challenge_deadline = now + w
  BY <1>2 DEF Candidate
<1>4. /\ UNCHANGED market /\ ValidateChallengeWindow(w)
      /\ candidates[c].status = "Challenged"
      /\ candidates[c].appeal_round < MAX_APPEAL_ROUNDS
  BY DEF Appeal, Appealable, marketVars
<1>5. challengers' = [challengers EXCEPT ![c] = challengers[c]]
  BY <1>1, <1>2 DEF DisputeTypeOK
<1> HIDE DEF cand
<1>6. Rewritten(c) /\ candidates'[c] = cand /\ challengers'[c] = challengers[c]
  BY <1>1, <1>2, <1>3, <1>5, RewriteOne
<1> QED BY <1>3, <1>4, <1>6

\* After a conclusion the candidate is over, and has no challenger left.
LEMMA AfterConclusion ==
  ASSUME TypeOK, NEW c \in 1 .. Len(candidates), NEW status, NEW settled_as, NEW outcome,
         Concluding(c, status, settled_as, outcome)
  PROVE  /\ Rewritten(c)
         /\ status \in {"Finalized", "Voided"} /\ candidates'[c].status = status
         /\ candidates'[c].finalized_at = now
         /\ candidates'[c].outcome = candidates[c].outcome
         /\ candidates'[c].challenged_by = candidates[c].challenged_by
         /\ candidates'[c].appeal_round = candidates[c].appeal_round
         /\ candidates'[c].proposed_at = candidates[c].proposed_at
         /\ candidates'[c].challenge_deadline = candidates[c].challenge_deadline
         /\ challengers'[c] = <<>>
<1> DEFINE cand == [candidates[c] EXCEPT !.status = status, !.finalized_at = now]
<1>1. status \in {"Finalized", "Voided"} /\ Conclude(c, status)
  BY DEF Concluding
<1>2. /\ cand \in Candidate /\ SetCandidate(c, cand)
      /\ <<>> \in Seq(ChallengeRecord)
      /\ challengers' = [challengers EXCEPT ![c] = <<>>]
      /\ DisputeTypeOK'
  BY <1>1, ConcludeEffect
<1>3. DisputeTypeOK /\ candidates[c] \in Candidate
  BY Ids DEF TypeOK
<1>4. /\ cand.market_id = candidates[c].market_id
      /\ cand.bond_amount = candidates[c].bond_amount
      /\ cand.status = status /\ cand.finalized_at = now
      /\ cand.outcome = candidates[c].outcome
      /\ cand.challenged_by = candidates[c].challenged_by
      /\ cand.appeal_round = candidates[c].appeal_round
      /\ cand.proposed_at = candidates[c].proposed_at
      /\ cand.challenge_deadline = candidates[c].challenge_deadline
  BY <1>3 DEF Candidate
<1> HIDE DEF cand
<1>5. Rewritten(c) /\ candidates'[c] = cand /\ challengers'[c] = <<>>
  BY <1>2, <1>3, <1>4, RewriteOne
<1> QED BY <1>1, <1>4, <1>5

-------------------------------------------------------------------------------
\* What holds of each candidate by itself.

CandidateOK(cand, records) ==
  InStep(cand, records) /\ WindowHolds(cand) /\ SettledInTime(cand)

CandidatesOK == \A d \in 1 .. Len(candidates) : CandidateOK(candidates[d], challengers[d])

\* It holds of a candidate that is proposed.
LEMMA OpenedOK ==
  ASSUME NEW cand \in Candidate, cand.status = "Proposed", cand.appeal_round = 0,
         WindowHolds(cand)
  PROVE  CandidateOK(cand, <<>>)
BY ConstantsAssumption DEF CandidateOK, InStep, SettledInTime, Live

\* It holds again after a challenge.
LEMMA ChallengedOK ==
  ASSUME NEW old \in Candidate, NEW new \in Candidate, NEW u \in Users, NEW b \in Nat,
         NEW records \in Seq(ChallengeRecord), CandidateOK(old, records),
         old.status = "Proposed", new.status = "Challenged", new.challenged_by = u,
         new.appeal_round = old.appeal_round, new.proposed_at = old.proposed_at,
         new.challenge_deadline = old.challenge_deadline
  PROVE  CandidateOK(new, Append(records, [challenger |-> u, bond |-> b]))
<1> DEFINE record == [challenger |-> u, bond |-> b]
           more   == Append(records, record)
<1>1. record \in ChallengeRecord /\ record.challenger = u
  BY DEF ChallengeRecord
<1>2. Len(records) \in Nat
  BY LenProperties
<1>3. Len(records) = old.appeal_round
  BY DEF CandidateOK, InStep, Live, Candidate
<1> HIDE DEF record
<1>4. Len(more) = Len(records) + 1 /\ more[Len(records) + 1] = record
  BY <1>1, AppendProperties
<1> HIDE DEF more
<1>5. MAX_APPEAL_ROUNDS \in Nat /\ old.appeal_round \in 0 .. MAX_APPEAL_ROUNDS
  BY ConstantsAssumption DEF Candidate
<1>6. Len(more) = new.appeal_round + 1 /\ Len(more) <= MAX_APPEAL_ROUNDS + 1
  BY <1>2, <1>3, <1>4, <1>5
<1>7. more[Len(more)].challenger = u
  BY <1>1, <1>4
<1>8. InStep(new, more)
  BY <1>6, <1>7 DEF InStep, Live
<1>9. WindowHolds(new) /\ SettledInTime(new)
  BY DEF CandidateOK, WindowHolds, SettledInTime, Live
<1> QED BY <1>8, <1>9 DEF CandidateOK, more, record

\* It holds again after an appeal.
LEMMA AppealedOK ==
  ASSUME NEW old \in Candidate, NEW new \in Candidate, NEW w \in Nat,
         NEW records \in Seq(ChallengeRecord), CandidateOK(old, records),
         now \in Nat, ValidateChallengeWindow(w),
         old.status = "Challenged", old.appeal_round < MAX_APPEAL_ROUNDS,
         new.status = "Proposed", new.challenged_by = Unset,
         new.appeal_round = old.appeal_round + 1, new.proposed_at = now,
         new.challenge_deadline = now + w
  PROVE  CandidateOK(new, records)
<1>1. InStep(new, records)
  BY ConstantsAssumption DEF CandidateOK, InStep, Live, Candidate
<1>2. WindowHolds(new)
  BY ConstantsAssumption DEF WindowHolds, ValidateChallengeWindow
<1>3. SettledInTime(new)
  BY DEF SettledInTime, Live
<1> QED BY <1>1, <1>2, <1>3 DEF CandidateOK

\* It holds again after a conclusion: what was not challenged had its window, and
\* what was had the arbitration timelock too.
LEMMA ConcludedOK ==
  ASSUME NEW old \in Candidate, NEW new \in Candidate, NEW records,
         CandidateOK(old, records), now \in Nat,
         Finalizable(old) \/ RequireArbitrable(old),
         new.status \in {"Finalized", "Voided"}, new.finalized_at = now,
         new.challenged_by = old.challenged_by, new.appeal_round = old.appeal_round,
         new.proposed_at = old.proposed_at, new.challenge_deadline = old.challenge_deadline
  PROVE  CandidateOK(new, <<>>)
<1>1. /\ MIN_CHALLENGE_WINDOW_SECONDS \in Nat /\ ARBITRATION_TIMELOCK_SECONDS \in Nat
      /\ MAX_APPEAL_ROUNDS \in Nat
  BY ConstantsAssumption
<1>2. old.challenge_deadline \in Nat /\ old.proposed_at \in Nat
  BY DEF Candidate
<1>3. InStep(new, <<>>)
  BY <1>1 DEF InStep, Live
<1>4. /\ old.challenge_deadline >= old.proposed_at + MIN_CHALLENGE_WINDOW_SECONDS
      /\ old.status = "Proposed" => old.challenged_by = Unset
  BY DEF CandidateOK, WindowHolds
<1>5. WindowHolds(new)
  BY <1>4 DEF WindowHolds
<1>6. SettledInTime(new)
  BY <1>1, <1>2, <1>4 DEF SettledInTime, Finalizable, RequireArbitrable
<1> QED BY <1>3, <1>5, <1>6 DEF CandidateOK

\* So it holds of every candidate after any step.
LEMMA CandidatesOKPreserved ==
  ASSUME TypeOK, CandidatesOK, [Next]_vars
  PROVE  CandidatesOK'
<1>1. DisputeTypeOK /\ now \in Nat
  BY DEF TypeOK
<1>2. \A c \in 1 .. Len(candidates) :
        /\ candidates[c] \in Candidate /\ challengers[c] \in Seq(ChallengeRecord)
        /\ CandidateOK(candidates[c], challengers[c])
  BY <1>1, Ids DEF CandidatesOK
<1>3. ASSUME NEW c \in 1 .. Len(candidates), Rewritten(c)
      PROVE  /\ candidates'[c] \in Candidate
             /\ CandidateOK(candidates'[c], challengers'[c]) => CandidatesOK'
  <2>1. DisputeTypeOK' /\ Len(candidates') = Len(candidates)
    BY <1>3 DEF Rewritten
  <2>2. candidates'[c] \in Candidate
    BY <2>1, ElementOfSeq DEF DisputeTypeOK
  <2>3. ASSUME CandidateOK(candidates'[c], challengers'[c]), NEW d \in 1 .. Len(candidates')
        PROVE  CandidateOK(candidates'[d], challengers'[d])
    <3>1. CASE d = c
      BY <2>3, <3>1
    <3>2. CASE d # c
      <4>1. candidates'[d] = candidates[d] /\ challengers'[d] = challengers[d]
        BY <1>3, <2>1, <3>2 DEF Rewritten
      <4> QED BY <1>2, <2>1, <4>1
    <3> QED BY <3>1, <3>2
  <2> QED BY <2>2, <2>3 DEF CandidatesOK
<1>4. CASE DisputesQuiet
  BY <1>4 DEF DisputesQuiet, disputeVars, CandidatesOK
<1>5. ASSUME NEW cand \in Candidate, Opening(cand)
      PROVE  CandidatesOK'
  <2>1. AddCandidate(cand) /\ CandidateOK(cand, <<>>)
    BY <1>5, OpenedOK DEF Opening
  <2>2. /\ Len(candidates') = Len(candidates) + 1
        /\ \A d \in 1 .. Len(candidates) : /\ candidates'[d] = candidates[d]
                                           /\ challengers'[d] = challengers[d]
        /\ candidates'[Len(candidates) + 1] = cand
        /\ challengers'[Len(candidates) + 1] = <<>>
    BY <1>1, <2>1, AddCandidateEffect
  <2>3. Len(candidates) \in Nat
    BY <1>1, Ids
  <2> QED BY <1>2, <2>1, <2>2, <2>3 DEF CandidatesOK
<1>6. ASSUME NEW c \in 1 .. Len(candidates), NEW u \in Users, NEW b \in Nat,
             Challenge(u, c, b)
      PROVE  CandidatesOK'
  <2>1. Rewritten(c)
    BY <1>6, AfterChallenge
  <2>2. challengers'[c] = Append(challengers[c], [challenger |-> u, bond |-> b])
    BY <1>6, AfterChallenge
  <2>3. /\ candidates[c].status = "Proposed"
        /\ candidates'[c].status = "Challenged" /\ candidates'[c].challenged_by = u
        /\ candidates'[c].appeal_round = candidates[c].appeal_round
        /\ candidates'[c].proposed_at = candidates[c].proposed_at
        /\ candidates'[c].challenge_deadline = candidates[c].challenge_deadline
    BY <1>6, AfterChallenge
  <2>4. candidates'[c] \in Candidate
    BY <1>3, <2>1
  <2>5. CandidateOK(candidates'[c], Append(challengers[c], [challenger |-> u, bond |-> b]))
    BY <1>2, <2>3, <2>4, ChallengedOK
  <2> QED BY <1>3, <2>1, <2>2, <2>5
<1>7. ASSUME NEW c \in 1 .. Len(candidates), NEW o \in BOOLEAN, NEW w \in WindowInputs,
             Appeal(c, o, w)
      PROVE  CandidatesOK'
  <2>1. Rewritten(c) /\ challengers'[c] = challengers[c]
    BY <1>7, AfterAppeal
  <2>2. /\ ValidateChallengeWindow(w)
        /\ candidates[c].status = "Challenged"
        /\ candidates[c].appeal_round < MAX_APPEAL_ROUNDS
        /\ candidates'[c].status = "Proposed" /\ candidates'[c].challenged_by = Unset
        /\ candidates'[c].appeal_round = candidates[c].appeal_round + 1
        /\ candidates'[c].proposed_at = now
        /\ candidates'[c].challenge_deadline = now + w
    BY <1>7, AfterAppeal
  <2>3. candidates'[c] \in Candidate /\ w \in Nat
    BY <1>3, <2>1, ConstantsAssumption
  <2>4. CandidateOK(candidates'[c], challengers[c])
    BY <1>1, <1>2, <2>2, <2>3, AppealedOK
  <2> QED BY <1>3, <2>1, <2>4
<1>8. ASSUME NEW c \in 1 .. Len(candidates), NEW status, NEW settled_as, NEW outcome,
             Concluding(c, status, settled_as, outcome)
      PROVE  CandidatesOK'
  <2>1. Rewritten(c) /\ challengers'[c] = <<>>
    BY <1>8, AfterConclusion
  <2>2. /\ candidates'[c].status \in {"Finalized", "Voided"}
        /\ candidates'[c].finalized_at = now
        /\ candidates'[c].challenged_by = candidates[c].challenged_by
        /\ candidates'[c].appeal_round = candidates[c].appeal_round
        /\ candidates'[c].proposed_at = candidates[c].proposed_at
        /\ candidates'[c].challenge_deadline = candidates[c].challenge_deadline
    BY <1>8, AfterConclusion
  <2>3. Finalizable(candidates[c]) \/ RequireArbitrable(candidates[c])
    BY <1>8 DEF Concluding
  <2>4. candidates'[c] \in Candidate
    BY <1>3, <2>1
  <2>5. CandidateOK(candidates'[c], <<>>)
    BY <1>1, <1>2, <2>2, <2>3, <2>4, ConcludedOK
  <2> QED BY <1>3, <2>1, <2>5
<1> QED BY <1>4, <1>5, <1>6, <1>7, <1>8, StepKinds

-------------------------------------------------------------------------------
\* The market index.

\* Rewriting a candidate rewrites its market's index entry with what is there.
LEMMA IndexKept ==
  ASSUME DisputeTypeOK, OneCandidatePerMarket, NEW c \in 1 .. Len(candidates),
         Rewritten(c)
  PROVE  byMarket' = byMarket
<1>1. c \in DOMAIN candidates
  BY Ids
<1>2. byMarket[candidates[c].market_id] = c
  BY <1>1 DEF OneCandidatePerMarket
<1>3. byMarket' = [byMarket EXCEPT ![candidates[c].market_id] = c]
  BY DEF Rewritten
<1>4. byMarket \in [Markets -> Nat]
  BY DEF DisputeTypeOK
<1> QED BY <1>2, <1>3, <1>4

\* An index entry always names the one candidate of its market.
LEMMA OneCandidatePreserved ==
  ASSUME TypeOK, OneCandidatePerMarket, [Next]_vars
  PROVE  OneCandidatePerMarket'
<1>1. DisputeTypeOK
  BY DEF TypeOK
<1>2. /\ \A c \in 1 .. Len(candidates) : byMarket[candidates[c].market_id] = c
      /\ \A m \in Markets : byMarket[m] # 0 =>
           byMarket[m] \in 1 .. Len(candidates) /\ candidates[byMarket[m]].market_id = m
      /\ \A c \in 1 .. Len(candidates) : candidates[c] \in Candidate
  BY <1>1, Ids DEF OneCandidatePerMarket
<1>3. CASE DisputesQuiet
  BY <1>3 DEF DisputesQuiet, disputeVars, OneCandidatePerMarket
<1>4. ASSUME NEW cand \in Candidate, Opening(cand)
      PROVE  OneCandidatePerMarket'
  <2> DEFINE n == Len(candidates) + 1
  <2>1. AddCandidate(cand) /\ byMarket[cand.market_id] = 0
    BY <1>4 DEF Opening
  <2>2. /\ DisputeTypeOK' /\ Len(candidates') = n
        /\ \A d \in 1 .. Len(candidates) : candidates'[d] = candidates[d]
        /\ candidates'[n] = cand
        /\ byMarket' = [byMarket EXCEPT ![cand.market_id] = n]
    BY <1>1, <2>1, AddCandidateEffect
  <2>3. Len(candidates) \in Nat /\ cand.market_id \in Markets
    BY <1>1, Ids DEF Candidate
  <2>4. \A m \in Markets : byMarket'[m] = IF m = cand.market_id THEN n ELSE byMarket[m]
    BY <1>1, <2>2 DEF DisputeTypeOK
  <2>5. \A c \in 1 .. Len(candidates') : byMarket'[candidates'[c].market_id] = c
    <3> SUFFICES ASSUME NEW c \in 1 .. n
                 PROVE  byMarket'[candidates'[c].market_id] = c
      BY <2>2
    <3>1. CASE c = n
      BY <2>2, <2>3, <2>4, <3>1
    <3>2. CASE c \in 1 .. Len(candidates)
      <4>1. candidates'[c] = candidates[c] /\ candidates[c].market_id \in Markets
        BY <1>2, <2>2, <3>2 DEF Candidate
      <4>2. byMarket[candidates[c].market_id] = c /\ c # 0
        BY <1>2, <2>3, <3>2
      <4> QED BY <2>1, <2>4, <4>1, <4>2
    <3> QED BY <2>3, <3>1, <3>2
  <2>6. \A m \in Markets : byMarket'[m] # 0 =>
          byMarket'[m] \in 1 .. Len(candidates') /\ candidates'[byMarket'[m]].market_id = m
    BY <1>2, <2>2, <2>3, <2>4
  <2>7. DOMAIN candidates' = 1 .. Len(candidates')
    BY <2>2, LenProperties DEF DisputeTypeOK
  <2> QED BY <2>5, <2>6, <2>7 DEF OneCandidatePerMarket
<1>5. ASSUME NEW c \in 1 .. Len(candidates), Rewritten(c)
      PROVE  OneCandidatePerMarket'
  <2>1. byMarket' = byMarket
    BY <1>1, <1>5, IndexKept
  <2>2. /\ DisputeTypeOK' /\ Len(candidates') = Len(candidates)
        /\ \A d \in 1 .. Len(candidates) : candidates'[d].market_id = candidates[d].market_id
    BY <1>5 DEF Rewritten
  <2>3. DOMAIN candidates' = 1 .. Len(candidates)
    BY <2>2, LenProperties DEF DisputeTypeOK
  <2> QED BY <1>2, <2>1, <2>2, <2>3 DEF OneCandidatePerMarket
<1>6. ASSUME NEW c \in 1 .. Len(candidates), NEW status, NEW settled_as, NEW outcome,
             Concluding(c, status, settled_as, outcome)
      PROVE  OneCandidatePerMarket'
  <2>1. Rewritten(c)
    BY <1>6, AfterConclusion
  <2> QED BY <1>5, <2>1
<1> QED BY <1>3, <1>4, <1>5, <1>6, StepKinds, AfterChallenge, AfterAppeal

-------------------------------------------------------------------------------
\* The market contract and this one agree.

\* What both halves of MarketAgrees use of the state before the step.
LEMMA MarketAgreesUnfolded ==
  ASSUME TypeOK, OneCandidatePerMarket, MarketAgrees
  PROVE  /\ \A c \in 1 .. Len(candidates) : Decided(candidates[c])
         /\ \A k \in MarketContracts, m \in Markets : Accounted(m, market[k][m])
         /\ \A k \in MarketContracts, m \in Markets :
              market[k][m].settled_by = "resolution" =>
                /\ byMarket[m] \in 1 .. Len(candidates)
                /\ candidates[byMarket[m]].market_id = m
                /\ candidates[byMarket[m]].status \in {"Finalized", "Voided"}
         /\ \A c \in 1 .. Len(candidates) : /\ candidates[c].market_id \in Markets
                                            /\ byMarket[candidates[c].market_id] = c
<1>1. /\ DOMAIN candidates = 1 .. Len(candidates) /\ Len(candidates) \in Nat
      /\ \A c \in 1 .. Len(candidates) : candidates[c] \in Candidate
  BY Ids DEF TypeOK
<1>2. /\ \A c \in 1 .. Len(candidates) : Decided(candidates[c])
      /\ \A k \in MarketContracts, m \in Markets : Accounted(m, market[k][m])
  BY <1>1 DEF MarketAgrees
<1>3. ASSUME NEW k \in MarketContracts, NEW m \in Markets,
             market[k][m].settled_by = "resolution"
      PROVE  /\ byMarket[m] \in 1 .. Len(candidates)
             /\ candidates[byMarket[m]].market_id = m
             /\ candidates[byMarket[m]].status \in {"Finalized", "Voided"}
  <2>1. Accounted(m, market[k][m])
    BY <1>2
  <2>2. /\ byMarket[m] \in 1 .. Len(candidates)
        /\ candidates[byMarket[m]].status \in {"Finalized", "Voided"}
    BY <1>1, <1>3, <2>1 DEF Accounted
  <2>3. byMarket[m] # 0
    BY <1>1, <2>2
  <2> QED BY <2>2, <2>3 DEF OneCandidatePerMarket
<1>4. \A c \in 1 .. Len(candidates) : /\ candidates[c].market_id \in Markets
                                      /\ byMarket[candidates[c].market_id] = c
  BY <1>1 DEF OneCandidatePerMarket, Candidate
<1> QED BY <1>2, <1>3, <1>4

\* Nothing that concludes no dispute can make the two disagree.
LEMMA QuietAgrees ==
  ASSUME TypeOK, OneCandidatePerMarket, MarketAgrees, DisputesQuiet
  PROVE  MarketAgrees'
<1>1. ASSUME NEW cand, Decided(cand), cand.market_id \in Markets
      PROVE  Decided(cand)'
  BY <1>1 DEF DisputesQuiet, MarketQuiet, Decided
<1>2. ASSUME NEW k \in MarketContracts, NEW m \in Markets
      PROVE  Accounted(m, market[k][m])'
  <2>1. Accounted(m, market[k][m])
    BY MarketAgreesUnfolded
  <2>2. market'[k][m] = market[k][m] \/ market'[k][m].settled_by = "elsewhere"
    BY DEF DisputesQuiet, MarketQuiet
  <2> QED BY <2>1, <2>2 DEF Accounted, DisputesQuiet, disputeVars
<1>3. UNCHANGED candidates
  BY DEF DisputesQuiet, disputeVars
<1> QED BY <1>1, <1>2, <1>3, MarketAgreesUnfolded, Ids DEF MarketAgrees, TypeOK

\* A new candidate is for a market that never had one, so that this contract
\* never settled.
LEMMA OpeningAgrees ==
  ASSUME TypeOK, OneCandidatePerMarket, MarketAgrees,
         NEW cand \in Candidate, Opening(cand)
  PROVE  MarketAgrees'
<1> DEFINE n == Len(candidates) + 1
<1>1. /\ AddCandidate(cand) /\ byMarket[cand.market_id] = 0 /\ UNCHANGED market
      /\ cand.status = "Proposed"
  BY DEF Opening
<1>2. /\ DisputeTypeOK' /\ Len(candidates') = n
      /\ \A d \in 1 .. Len(candidates) : candidates'[d] = candidates[d]
      /\ candidates'[n] = cand
      /\ byMarket' = [byMarket EXCEPT ![cand.market_id] = n]
  BY <1>1, AddCandidateEffect DEF TypeOK
<1>3. Len(candidates) \in Nat /\ DOMAIN candidates' = 1 .. n
  BY <1>2, Ids, LenProperties DEF TypeOK, DisputeTypeOK
<1>4. ASSUME NEW c \in 1 .. n
      PROVE  Decided(candidates[c])'
  <2>1. CASE c = n
    BY <1>1, <1>2, <2>1 DEF Decided
  <2>2. CASE c \in 1 .. Len(candidates)
    <3>1. Decided(candidates[c]) /\ candidates'[c] = candidates[c]
      BY <1>2, <2>2, MarketAgreesUnfolded
    <3> QED BY <1>1, <3>1 DEF Decided
  <2> QED BY <1>3, <2>1, <2>2
<1>5. ASSUME NEW k \in MarketContracts, NEW m \in Markets
      PROVE  Accounted(m, market[k][m])'
  <2>1. CASE market[k][m].settled_by # "resolution"
    BY <1>1, <2>1 DEF Accounted
  <2>2. CASE market[k][m].settled_by = "resolution"
    <3>1. byMarket[m] \in 1 .. Len(candidates) /\ Accounted(m, market[k][m])
      BY <2>2, MarketAgreesUnfolded
    <3>2. m # cand.market_id
      BY <1>1, <1>3, <3>1
    <3>3. byMarket'[m] = byMarket[m]
      BY <1>2, <3>2 DEF TypeOK, DisputeTypeOK
    <3>4. candidates'[byMarket[m]] = candidates[byMarket[m]] /\ byMarket[m] \in 1 .. n
      BY <1>2, <1>3, <3>1
    <3> QED BY <1>1, <1>3, <3>1, <3>3, <3>4 DEF Accounted
  <2> QED BY <2>1, <2>2
<1> QED BY <1>3, <1>4, <1>5 DEF MarketAgrees

\* Neither does a challenge or an appeal: its candidate is live before and after,
\* so it is not the one any settled market speaks of.
LEMMA RewriteAgrees ==
  ASSUME TypeOK, OneCandidatePerMarket, MarketAgrees,
         NEW c \in 1 .. Len(candidates), Rewritten(c), UNCHANGED market,
         Live(candidates[c]), candidates'[c].status # "Finalized"
  PROVE  MarketAgrees'
<1>1. /\ DisputeTypeOK' /\ Len(candidates') = Len(candidates)
      /\ \A d \in 1 .. Len(candidates) : d # c => candidates'[d] = candidates[d]
  BY DEF Rewritten
<1>2. DOMAIN candidates' = 1 .. Len(candidates)
  BY <1>1, LenProperties DEF DisputeTypeOK
<1>3. byMarket' = byMarket
  BY IndexKept DEF TypeOK
<1>4. ASSUME NEW d \in 1 .. Len(candidates)
      PROVE  Decided(candidates[d])'
  <2>1. CASE d = c
    BY <2>1 DEF Decided
  <2>2. CASE d # c
    <3>1. Decided(candidates[d]) /\ candidates'[d] = candidates[d]
      BY <1>1, <2>2, MarketAgreesUnfolded
    <3> QED BY <3>1 DEF Decided
  <2> QED BY <2>1, <2>2
<1>5. ASSUME NEW k \in MarketContracts, NEW m \in Markets
      PROVE  Accounted(m, market[k][m])'
  <2>1. CASE market[k][m].settled_by # "resolution"
    BY <2>1 DEF Accounted
  <2>2. CASE market[k][m].settled_by = "resolution"
    <3>1. /\ byMarket[m] \in 1 .. Len(candidates) /\ Accounted(m, market[k][m])
          /\ candidates[byMarket[m]].status \in {"Finalized", "Voided"}
      BY <2>2, MarketAgreesUnfolded
    <3>2. byMarket[m] # c
      BY <3>1 DEF Live
    <3> QED BY <1>1, <1>2, <1>3, <3>1, <3>2 DEF Accounted
  <2> QED BY <2>1, <2>2
<1> QED BY <1>2, <1>4, <1>5 DEF MarketAgrees

\* A conclusion writes the same decision into the candidate and into its market.
LEMMA ConclusionAgrees ==
  ASSUME TypeOK, OneCandidatePerMarket, MarketAgrees,
         NEW c \in 1 .. Len(candidates), NEW status, NEW settled_as, NEW outcome,
         Concluding(c, status, settled_as, outcome)
  PROVE  MarketAgrees'
<1> DEFINE K == config.market_contract
           M == candidates[c].market_id
           decision == [status |-> settled_as, outcome |-> outcome,
                        settled_by |-> "resolution"]
<1>1. /\ Rewritten(c) /\ candidates'[c].status = status
      /\ candidates'[c].outcome = candidates[c].outcome
  BY AfterConclusion
<1>2. /\ DisputeTypeOK' /\ Len(candidates') = Len(candidates)
      /\ candidates'[c].market_id = M
      /\ \A d \in 1 .. Len(candidates) : d # c => candidates'[d] = candidates[d]
  BY <1>1 DEF Rewritten
<1>3. DOMAIN candidates' = 1 .. Len(candidates)
  BY <1>2, LenProperties DEF DisputeTypeOK
<1>4. byMarket' = byMarket
  BY <1>1, IndexKept DEF TypeOK
<1>5. Live(candidates[c])
  BY DEF Concluding, Finalizable, RequireArbitrable, Live
<1>6. K \in MarketContracts /\ M \in Markets /\ byMarket[M] = c
  BY MarketAgreesUnfolded DEF Concluding
<1>7. /\ market'[K][M] = decision
      /\ \A k \in MarketContracts, m \in Markets :
           ~ (k = K /\ m = M) => market'[k][m] = market[k][m]
  <2>1. market' = [market EXCEPT ![K][M] = decision]
    BY DEF Concluding, SettleMarket
  <2> HIDE DEF decision, K, M
  <2> QED BY <1>6, <2>1 DEF TypeOK, MarketTypeOK
<1>8. \/ status = "Finalized" /\ settled_as = "Resolved" /\ outcome = candidates[c].outcome
      \/ status = "Voided" /\ settled_as = "Canceled"
  BY DEF Concluding
<1>9. /\ decision.status = settled_as /\ decision.outcome = outcome
      /\ decision.settled_by = "resolution"
  OBVIOUS
<1> HIDE DEF decision, K, M
<1>10. ASSUME NEW d \in 1 .. Len(candidates)
       PROVE  Decided(candidates[d])'
  <2>1. CASE d = c
    BY <1>1, <1>2, <1>6, <1>7, <1>8, <1>9, <2>1 DEF Decided
  <2>2. CASE d # c
    <3>1. Decided(candidates[d]) /\ candidates'[d] = candidates[d]
      BY <1>2, <2>2, MarketAgreesUnfolded
    <3>2. candidates[d].market_id # M /\ candidates[d].market_id \in Markets
      BY <1>6, <2>2, MarketAgreesUnfolded
    <3> QED BY <1>7, <3>1, <3>2 DEF Decided
  <2> QED BY <2>1, <2>2
<1>11. ASSUME NEW k \in MarketContracts, NEW m \in Markets
       PROVE  Accounted(m, market[k][m])'
  <2>1. CASE k = K /\ m = M
    BY <1>1, <1>3, <1>4, <1>6, <1>7, <1>8, <1>9, <2>1 DEF Accounted
  <2>2. CASE ~ (k = K /\ m = M)
    <3>1. market'[k][m] = market[k][m]
      BY <1>7, <2>2
    <3>2. CASE market[k][m].settled_by # "resolution"
      BY <3>1, <3>2 DEF Accounted
    <3>3. CASE market[k][m].settled_by = "resolution"
      <4>1. /\ byMarket[m] \in 1 .. Len(candidates) /\ Accounted(m, market[k][m])
            /\ candidates[byMarket[m]].status \in {"Finalized", "Voided"}
        BY <3>3, MarketAgreesUnfolded
      <4>2. byMarket[m] # c
        BY <1>5, <4>1 DEF Live
      <4> QED BY <1>2, <1>3, <1>4, <3>1, <4>1, <4>2 DEF Accounted
    <3> QED BY <3>2, <3>3
  <2> QED BY <2>1, <2>2
<1> QED BY <1>3, <1>10, <1>11 DEF MarketAgrees

\* So the two agree after any step.
LEMMA MarketAgreesPreserved ==
  ASSUME TypeOK, OneCandidatePerMarket, MarketAgrees, [Next]_vars
  PROVE  MarketAgrees'
<1>1. ASSUME NEW c \in 1 .. Len(candidates), NEW u \in Users, NEW b \in Nat,
             Challenge(u, c, b)
      PROVE  MarketAgrees'
  <2>1. /\ Rewritten(c) /\ UNCHANGED market
        /\ candidates[c].status = "Proposed" /\ candidates'[c].status = "Challenged"
    BY <1>1, AfterChallenge
  <2> QED BY <2>1, RewriteAgrees DEF Live
<1>2. ASSUME NEW c \in 1 .. Len(candidates), NEW o \in BOOLEAN, NEW w \in WindowInputs,
             Appeal(c, o, w)
      PROVE  MarketAgrees'
  <2>1. /\ Rewritten(c) /\ UNCHANGED market
        /\ candidates[c].status = "Challenged" /\ candidates'[c].status = "Proposed"
    BY <1>2, AfterAppeal
  <2> QED BY <2>1, RewriteAgrees DEF Live
<1> QED BY <1>1, <1>2, StepKinds, QuietAgrees, OpeningAgrees, ConclusionAgrees

-------------------------------------------------------------------------------
\* The inductive invariant, and the theorems.

DisputesConsistent == CandidatesOK /\ OneCandidatePerMarket /\ MarketAgrees

\* It holds at the start, and no step from a typed state breaks it.
LEMMA Consistent == Spec => [](TypeOK /\ DisputesConsistent)
<1>1. Init => DisputesConsistent
  <2> SUFFICES ASSUME Init PROVE DisputesConsistent
    OBVIOUS
  <2>1. DOMAIN candidates = {} /\ Len(candidates) = 0
    BY DEF Init
  <2>2. CandidatesOK
    BY <2>1 DEF CandidatesOK
  <2>3. OneCandidatePerMarket
    BY <2>1 DEF OneCandidatePerMarket, Init
  <2>4. MarketAgrees
    BY <2>1 DEF MarketAgrees, Accounted, Init
  <2> QED BY <2>2, <2>3, <2>4 DEF DisputesConsistent
<1>2. TypeOK /\ DisputesConsistent /\ [Next]_vars => DisputesConsistent'
  BY CandidatesOKPreserved, OneCandidatePreserved, MarketAgreesPreserved
     DEF DisputesConsistent
<1> QED BY <1>1, <1>2, TypeCorrect, PTL DEF Spec

\* A candidate and its challenger list, two storage entries, never disagree on
\* how many challenges the candidate met and who made the last one.
THEOREM ChallengersStayInStep == Spec => []ChallengersInStep
<1>1. TypeOK /\ DisputesConsistent => ChallengersInStep
  BY Ids DEF DisputesConsistent, CandidatesOK, CandidateOK, ChallengersInStep, TypeOK
<1> QED BY <1>1, Consistent, PTL

\* No call opens a window shorter than the minimum, by any sequence of appeals.
THEOREM WindowsAlwaysHold == Spec => []WindowsHold
<1>1. TypeOK /\ DisputesConsistent => WindowsHold
  BY Ids DEF DisputesConsistent, CandidatesOK, CandidateOK, WindowsHold, TypeOK
<1> QED BY <1>1, Consistent, PTL

\* No outcome is made final before its window has passed, nor, over a standing
\* challenge, before the arbitration timelock has.
THEOREM NothingSettledEarly == Spec => []SettledAfterItsWindow
<1>1. TypeOK /\ DisputesConsistent => SettledAfterItsWindow
  BY Ids DEF DisputesConsistent, CandidatesOK, CandidateOK, SettledAfterItsWindow, TypeOK
<1> QED BY <1>1, Consistent, PTL

\* CandidateByMarket and Candidate stay inverse to one another.
THEOREM IndexIsExact == Spec => []OneCandidatePerMarket
<1>1. TypeOK /\ DisputesConsistent => OneCandidatePerMarket
  BY DEF DisputesConsistent
<1> QED BY <1>1, Consistent, PTL

\* The market and the dispute never disagree on what was decided.
THEOREM MarketAlwaysAgrees == Spec => []MarketAgrees
<1>1. TypeOK /\ DisputesConsistent => MarketAgrees
  BY DEF DisputesConsistent
<1> QED BY <1>1, Consistent, PTL

-------------------------------------------------------------------------------
\* The timelock on the treasury address.

\* What the abstract register sees of this contract.
Announced == IF pending["treasury"] = Unset THEN Unset ELSE pending["treasury"].new_address

\* An announcement is never mistaken for the absence of one.
LEMMA PendingTreasuryFields ==
  ASSUME TypeOK, pending["treasury"] # Unset
  PROVE  /\ pending["treasury"].effective_at \in Nat
         /\ Announced \in Treasuries /\ Announced # Unset
BY ConstantsAssumption DEF TypeOK, AdminTypeOK, PendingAddressChange, Registers,
   Registrable, Announced

\* Time passes for an address that has not stood for the whole delay.
LEMMA TickWaits ==
  ASSUME TypeOK, Tick
  PROVE  [SlashRegister!Next]_(SlashRegister!vars)
<1>1. now \in Nat /\ now' = now + 1 /\ ADDRESS_TIMELOCK_SECONDS \in Nat
  BY ConstantsAssumption DEF Tick, TypeOK
<1>2. UNCHANGED <<treasury, pending>>
  BY DEF Tick, adminVars
<1>3. CASE pending["treasury"] = Unset
  BY <1>2, <1>3 DEF SlashRegister!vars, NoticeGiven
<1>4. CASE pending["treasury"] # Unset
  <2>1. pending["treasury"].effective_at \in Nat /\ Announced # Unset
    BY <1>4, PendingTreasuryFields
  <2>2. CASE now >= pending["treasury"].effective_at
    BY <1>1, <1>2, <1>4, <2>1, <2>2 DEF SlashRegister!vars, NoticeGiven
  <2>3. CASE now < pending["treasury"].effective_at
    <3>1. NoticeGiven = now + ADDRESS_TIMELOCK_SECONDS - pending["treasury"].effective_at
      BY <1>1, <1>4, <2>1, <2>3 DEF NoticeGiven
    <3>2. NoticeGiven < ADDRESS_TIMELOCK_SECONDS /\ NoticeGiven' = NoticeGiven + 1
      BY <1>1, <1>2, <1>4, <2>1, <2>3, <3>1 DEF NoticeGiven
    <3> QED
      BY <1>2, <2>1, <3>2 DEF SlashRegister!Next, SlashRegister!Wait, Announced
  <2> QED
    BY <1>1, <2>1, <2>2, <2>3
<1> QED
  BY <1>3, <1>4

\* A step of the administration that is not about the treasury address.
LEMMA OtherAdminSteps ==
  ASSUME TypeOK, AdminStep,
         ~ \E t \in TreasuryInputs : ProposeTreasury(t), ~CancelTreasury,
         ~ \E t \in TreasuryInputs : ExecuteTreasury(t)
  PROVE  now' = now /\ treasury' = treasury /\ pending'["treasury"] = pending["treasury"]
<1>1. pending \in [Registers -> PendingAddressChange \cup {Unset}] /\ "treasury" \in Registers
  BY DEF TypeOK, AdminTypeOK, Registers
<1>2. CASE UNCHANGED <<now, treasury, pending>>
  BY <1>2
<1>3. CASE \/ \E f \in FactoryInputs : ProposeFactory(f)
           \/ \E k \in MarketContractInputs : ProposeMarketContract(k)
  BY <1>1, <1>3 DEF ProposeFactory, ProposeMarketContract, ProposeAddress
<1>4. CASE CancelFactory \/ CancelMarketContract
  BY <1>1, <1>4 DEF CancelFactory, CancelMarketContract, CancelAddress
<1>5. CASE \/ \E f \in FactoryInputs : ExecuteFactory(f)
           \/ \E k \in MarketContractInputs : ExecuteMarketContract(k)
  BY <1>1, <1>5 DEF ExecuteFactory, ExecuteMarketContract, Due
<1>6. CASE \/ \E f \in Factories, k \in MarketContracts, w \in WindowInputs : Initialize(f, k, w)
           \/ \E w \in WindowInputs : SetDefaultChallengeWindow(w)
           \/ \E k \in MarketContractInputs : SetMarketContract(k)
           \/ \E new_mode \in ModeInputs : SetEmergencyMode(new_mode)
           \/ Pause \/ Unpause
  BY <1>6 DEF Initialize, SetDefaultChallengeWindow, SetMarketContract, SetEmergencyMode,
     Pause, Unpause, SetPaused
<1> QED
  BY <1>3, <1>4, <1>5, <1>6 DEF AdminStep

\* Every step of the contract is a step of the register, or none of its business.
LEMMA SlashRegisterStep ==
  ASSUME TypeOK, TypeOK', [Next]_vars
  PROVE  [SlashRegister!Next]_(SlashRegister!vars)
<1>1. CASE now' = now /\ treasury' = treasury /\ pending'["treasury"] = pending["treasury"]
  BY <1>1 DEF SlashRegister!vars, NoticeGiven
<1>2. CASE Tick
  BY <1>2, TickWaits
<1>3. pending \in [Registers -> PendingAddressChange \cup {Unset}] /\ "treasury" \in Registers
  BY DEF TypeOK, AdminTypeOK, Registers
<1>4. ASSUME NEW t \in TreasuryInputs, ProposeTreasury(t)
      PROVE  SlashRegister!Announce
  <2>1. /\ t \in Treasuries /\ t # Unset /\ now \in Nat /\ ADDRESS_TIMELOCK_SECONDS \in Nat
        /\ now' = now /\ treasury' = treasury
    BY <1>4, ConstantsAssumption DEF TypeOK, ProposeTreasury, ProposeAddress
  <2>2. /\ pending'["treasury"] = [new_address |-> t,
                                   effective_at |-> now + ADDRESS_TIMELOCK_SECONDS]
        /\ pending'["treasury"] \in PendingAddressChange
    BY <1>3, <1>4, <2>1 DEF ProposeTreasury, ProposeAddress, PendingAddressChange
  <2>3. pending'["treasury"] # Unset /\ pending'["treasury"].new_address # Unset
    BY <2>1, <2>2, AbsenceAssumption
  <2>4. NoticeGiven' = 0
    BY <2>1, <2>2, <2>3 DEF NoticeGiven
  <2> QED
    BY <2>1, <2>3, <2>4 DEF SlashRegister!Announce
<1>5. CASE \E t \in TreasuryInputs : ExecuteTreasury(t)
  <2>1. /\ pending["treasury"] # Unset /\ now >= pending["treasury"].effective_at
        /\ treasury' = pending["treasury"].new_address /\ pending'["treasury"] = Unset
    BY <1>3, <1>5 DEF ExecuteTreasury, Due
  <2>2. NoticeGiven = ADDRESS_TIMELOCK_SECONDS /\ NoticeGiven' = 0 /\ Announced # Unset
    BY <2>1, PendingTreasuryFields DEF NoticeGiven
  <2>3. ADDRESS_TIMELOCK_SECONDS >= ADDRESS_TIMELOCK_SECONDS
    BY ConstantsAssumption
  <2> QED
    BY <2>1, <2>2, <2>3 DEF SlashRegister!Next, SlashRegister!Enact, Announced
<1>6. CASE CancelTreasury
  <2>1. pending'["treasury"] = Unset /\ treasury' = treasury
    BY <1>3, <1>6 DEF CancelTreasury, CancelAddress
  <2> QED
    BY <2>1 DEF SlashRegister!Next, SlashRegister!Withdraw, NoticeGiven
<1>7. CASE ProposeStep \/ DisputeStep \/ CollateralStep \/ EnvironmentStep \/ UNCHANGED vars
  <2>1. UNCHANGED <<now, treasury, pending>>
    <3>1. CASE DisputeStep
      BY <3>1 DEF adminVars, DisputeStep, Challenge, Appeal, Finalize,
         ArbitrateUpholdProposer, VoidMarket
    <3>2. CASE ProposeStep
      BY <3>2 DEF adminVars, ProposeStep, Propose, ProposeV2
    <3>3. CASE CollateralStep
      BY <3>3 DEF adminVars, CollateralStep, DepositCollateral, SlashCollateral
    <3>4. CASE EnvironmentStep
      BY <3>4 DEF adminVars, EnvironmentStep, MoveGate, SettledElsewhere
    <3>5. CASE UNCHANGED vars
      BY <3>5 DEF vars, adminVars
    <3> QED
      BY <1>7, <3>1, <3>2, <3>3, <3>4, <3>5
  <2> QED
    BY <2>1, <1>1
<1> QED
  BY <1>1, <1>2, <1>4, <1>5, <1>6, <1>7, OtherAdminSteps DEF Next, SlashRegister!Next

\* The treasury cut of every slash goes to an address that stood announced for
\* the whole timelock, neither cancelled nor replaced meanwhile.
THEOREM TreasuryAlwaysTimelocked == Spec => TreasuryIsTimelocked
<1>1. Init => SlashRegister!Init
  BY DEF Init, Registers, SlashRegister!Init, NoticeGiven
<1>2. TypeOK /\ TypeOK' /\ [Next]_vars => [SlashRegister!Next]_(SlashRegister!vars)
  BY SlashRegisterStep
<1> QED
  BY <1>1, <1>2, TypeCorrect, PTL DEF Spec, TreasuryIsTimelocked, SlashRegister!Spec
===============================================================================
