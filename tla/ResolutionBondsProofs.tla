-------------------------- MODULE ResolutionBondsProofs --------------------------
(***************************************************************************)
(* What the bonds of Resolution add up to, for every value of its          *)
(* constants: the contract implements BondEscrow, and holds what it owes.  *)
(*                                                                         *)
(* The amounts are read off three functions: HeldOf, what the contract     *)
(* holds of each token; StakesIn, the bonds locked in each market's        *)
(* dispute; and collateral.  The first half of the module is arithmetic:   *)
(* a split adds up to the bond it splits, and the credits of a conclusion  *)
(* to the bonds of its dispute (UpheldAddsUp, VoidedAddsUp, StakesAddUp).  *)
(* The second half sorts the steps by how they move money (MoneyMoves):    *)
(* lock one bond, settle one dispute, take or forfeit collateral, or move  *)
(* none.  The refinement and the invariants follow from that lemma alone.  *)
(*                                                                         *)
(* Then comes the reader of the events (ResolutionEvents).  What each event*)
(* tells it is a lemma (...Heard); the many events of a settlement are     *)
(* counted up one by one (HeardInOrder, StrikesInTurn), the open stakes as *)
(* the bag of a function over places (BagOver, Stood), so that striking one*)
(* off is shrinking its domain.  Following is what the reader knows, in    *)
(* parts, and every kind of call keeps it (...Follows).                    *)
(*                                                                         *)
(* And who pays for a dispute: EveryoneIsPaid says of a live one that what *)
(* its parties lack is what they staked, and of a concluded one who is     *)
(* short; every way a dispute may go keeps it (...Pays).                   *)
(***************************************************************************)
EXTENDS ResolutionProofs, ResolutionEvents, SumTheorems

-------------------------------------------------------------------------------
\* Where the money is.

\* What this contract holds of each token, the stakes of each market's dispute, and
\* the markets whose dispute is over.
HeldOf == [t \in Tokens |-> balance[t][This]]

StakesIn == [m \in Markets |-> Stakes(m)]

Closed == {m \in Markets : byMarket[m] # 0 /\ ~Live(candidates[byMarket[m]])}

\* The sums below are over finite sets, and the contract is none of its users.
LEMMA AccountsAreFinite ==
  /\ IsFiniteSet(Accounts) /\ IsFiniteSet(Tokens) /\ IsFiniteSet(Users) /\ IsFiniteSet(Markets)
  /\ Users \subseteq Accounts /\ Treasuries \subseteq Accounts /\ This \in Accounts
  /\ This \notin Users /\ This \notin Treasuries /\ Unset \notin Accounts
<1>1. /\ IsFiniteSet(Tokens) /\ IsFiniteSet(Users) /\ IsFiniteSet(Treasuries)
      /\ IsFiniteSet(Markets)
      /\ This \notin Users \cup Treasuries /\ Unset \notin Treasuries \cup Users \cup {This}
  BY ConstantsAssumption
<1>2. IsFiniteSet(Users \cup Treasuries)
  BY <1>1, FS_Union
<1>3. IsFiniteSet((Users \cup Treasuries) \cup {This})
  BY <1>2, FS_AddElement
<1>4. Accounts = (Users \cup Treasuries) \cup {This}
  BY DEF Accounts
<1> QED
  BY <1>1, <1>3, <1>4

\* What the contract holds is an amount of each token, and Holdings their sum.
LEMMA HeldTyped ==
  ASSUME MoneyTypeOK
  PROVE  /\ HeldOf \in [Tokens -> Nat]
         /\ Holdings = SumFunctionOnSet(HeldOf, Tokens)
<1>1. This \in Accounts
  BY DEF Accounts
<1>2. HeldOf \in [Tokens -> Nat]
  BY <1>1 DEF HeldOf, MoneyTypeOK
<1>3. Holdings = SumFunctionOnSet(HeldOf, Tokens)
  BY DEF Holdings, HeldOf, SumFunction
<1> QED
  BY <1>2, <1>3

\* So it is after the step.
LEMMA HeldTypedNext ==
  ASSUME MoneyTypeOK'
  PROVE  /\ HeldOf' \in [Tokens -> Nat]
         /\ Holdings' = SumFunctionOnSet(HeldOf', Tokens)
<1>1. This \in Accounts
  BY DEF Accounts
<1>2. HeldOf' \in [Tokens -> Nat]
  BY <1>1 DEF HeldOf, MoneyTypeOK
<1>3. Holdings' = SumFunctionOnSet(HeldOf', Tokens)
  BY DEF Holdings, HeldOf, SumFunction
<1> QED
  BY <1>2, <1>3

\* A transfer into this contract adds to what it holds.
LEMMA TransferInHolds ==
  ASSUME MoneyTypeOK, NEW token \in Tokens, NEW from \in Users, NEW amount \in Nat,
         TransferIn(token, from, amount)
  PROVE  HeldOf' = [HeldOf EXCEPT ![token] = @ + amount]
<1>1. from \in Accounts /\ This \in Accounts /\ from # This
  BY AccountsAreFinite
<1>2. balance \in [Tokens -> [Accounts -> Nat]]
  BY DEF MoneyTypeOK
<1>3. balance' = [balance EXCEPT ![token][from] = @ - amount, ![token][This] = @ + amount]
  BY DEF TransferIn
<1>4. balance'[token][This] = balance[token][This] + amount
  BY <1>1, <1>2, <1>3
<1>5. \A t \in Tokens : t # token => balance'[t][This] = balance[t][This]
  BY <1>2, <1>3
<1> QED
  BY <1>4, <1>5 DEF HeldOf

\* A transfer out of it that does not credit the contract itself takes away what is
\* paid and what is burned.
LEMMA TransferOutHolds ==
  ASSUME MoneyTypeOK, NEW token \in Tokens, NEW credit, NEW burned,
         TransferOut(token, credit, burned), credit[This] = 0
  PROVE  HeldOf' = [HeldOf EXCEPT ![token] = @ - (SumFunction(credit) + burned)]
<1> DEFINE out == SumFunction(credit) + burned
           paid == [a \in Accounts |->
                      balance[token][a] + credit[a] - (IF a = This THEN out ELSE 0)]
<1>1. out \in 0 .. balance[token][This] /\ balance' = [balance EXCEPT ![token] = paid]
  BY DEF TransferOut
<1>2. balance \in [Tokens -> [Accounts -> Nat]] /\ This \in Accounts
  BY AccountsAreFinite DEF MoneyTypeOK
<1>3. balance[token][This] \in Nat
  BY <1>2
<1> HIDE DEF out
<1>4. paid[This] = balance[token][This] - out
  BY <1>1, <1>2, <1>3
<1> HIDE DEF paid
<1>5. balance'[token][This] = balance[token][This] - out
  BY <1>1, <1>2, <1>4
<1>6. \A t \in Tokens : t # token => balance'[t][This] = balance[t][This]
  BY <1>1, <1>2
<1>7. HeldOf' = [HeldOf EXCEPT ![token] = @ - out]
  BY <1>5, <1>6 DEF HeldOf
<1> QED
  BY <1>7 DEF out

-------------------------------------------------------------------------------
\* What a split adds up to.

\* The three legs of a split are the bond, and the treasury's is what the escrow lets
\* stay behind.
LEMMA SplitAddsUp ==
  ASSUME NEW bond \in Nat
  PROVE  /\ SplitBond(bond).reward \in Nat
         /\ SplitBond(bond).burned \in Nat
         /\ SplitBond(bond).treasury \in Nat
         /\ SplitBond(bond).reward + SplitBond(bond).burned + SplitBond(bond).treasury = bond
         /\ SplitBond(bond).treasury = Escrow!Retained(bond)
<1>1. (bond * 5000) \div 10000 = bond \div 2
  OBVIOUS
<1>2. (bond * 2500) \div 10000 = bond \div 4
  OBVIOUS
<1>3. bond \div 2 \in Nat /\ bond \div 4 \in Nat /\ bond \div 2 + bond \div 4 <= bond
  OBVIOUS
<1> QED
  BY <1>1, <1>2, <1>3
  DEF SplitBond, REWARD_BPS, BURN_BPS, BPS_DENOMINATOR, Escrow!Retained

BondsPosted(records) == [i \in DOMAIN records |-> records[i].bond]

\* A challenger list is a finite family of bonds.
LEMMA RecordsTyped ==
  ASSUME NEW records \in Seq(ChallengeRecord)
  PROVE  /\ DOMAIN records = 1 .. Len(records) /\ Len(records) \in Nat
         /\ IsFiniteSet(DOMAIN records)
         /\ \A i \in DOMAIN records : records[i].bond \in Nat /\ records[i].challenger \in Users
         /\ DOMAIN BondsPosted(records) = DOMAIN records
         /\ \A i \in DOMAIN records : BondsPosted(records)[i] = records[i].bond
         /\ SumFunction(BondsPosted(records)) \in Nat
<1>1. DOMAIN records = 1 .. Len(records) /\ Len(records) \in Nat
  BY LenProperties
<1>2. \A i \in DOMAIN records : records[i].bond \in Nat /\ records[i].challenger \in Users
  <2> TAKE i \in DOMAIN records
  <2>1. records[i] \in ChallengeRecord
    BY <1>1, ElementOfSeq
  <2> QED
    BY <2>1 DEF ChallengeRecord
<1>3. IsFiniteSet(1 .. Len(records))
  BY <1>1, FS_Interval
<1> DEFINE f == BondsPosted(records)
           D == DOMAIN records
<1>4. DOMAIN f = D /\ \A i \in D : f[i] = records[i].bond
  BY DEF BondsPosted
<1> HIDE DEF f, D
<1>5. IsFiniteSet(D) /\ \A i \in D : f[i] \in Nat
  BY <1>1, <1>2, <1>3, <1>4 DEF D
<1>6. SumFunction(f) \in Nat
  BY <1>4, <1>5, SumOfNats DEF SumFunction
<1> QED
  BY <1>1, <1>2, <1>4, <1>5, <1>6 DEF f, D

\* The three legs of all forfeited bonds are the bonds, and the leg of the treasury is
\* what the escrow lets stay behind.
LEMMA ForfeitedAddsUp ==
  ASSUME NEW records \in Seq(ChallengeRecord)
  PROVE  /\ Forfeited(records, "reward") \in Nat
         /\ Forfeited(records, "burned") \in Nat
         /\ Forfeited(records, "treasury") \in Nat
         /\ Forfeited(records, "reward") + Forfeited(records, "burned")
              + Forfeited(records, "treasury") = SumFunction(BondsPosted(records))
         /\ Forfeited(records, "treasury")
              = SumFunction([i \in DOMAIN records |-> Escrow!Retained(records[i].bond)])
<1> DEFINE D == DOMAIN records
           reward == [i \in D |-> SplitBond(records[i].bond)["reward"]]
           burned == [i \in D |-> SplitBond(records[i].bond)["burned"]]
           cut == [i \in D |-> SplitBond(records[i].bond)["treasury"]]
           gone == [i \in D |-> reward[i] + burned[i]]
           kept == [i \in D |-> Escrow!Retained(records[i].bond)]
           bonds == BondsPosted(records)
<1>1. /\ IsFiniteSet(D) /\ DOMAIN bonds = D
      /\ \A i \in D : records[i].bond \in Nat /\ bonds[i] = records[i].bond
  BY RecordsTyped
<1>2. \A i \in D : /\ reward[i] \in Nat /\ burned[i] \in Nat /\ cut[i] \in Nat
                   /\ gone[i] = reward[i] + burned[i]
                   /\ bonds[i] = gone[i] + cut[i]
                   /\ cut[i] = kept[i]
  BY <1>1, SplitAddsUp
<1>3. /\ Forfeited(records, "reward") = SumFunctionOnSet(reward, D)
      /\ Forfeited(records, "burned") = SumFunctionOnSet(burned, D)
      /\ Forfeited(records, "treasury") = SumFunctionOnSet(cut, D)
  BY DEF Forfeited, SumFunction
<1>4. /\ SumFunction(kept) = SumFunctionOnSet(kept, D)
      /\ SumFunction(bonds) = SumFunctionOnSet(bonds, D)
  BY <1>1 DEF SumFunction
<1> HIDE DEF D, reward, burned, cut, gone, kept, bonds
<1>5. /\ SumFunctionOnSet(reward, D) \in Nat /\ SumFunctionOnSet(burned, D) \in Nat
      /\ SumFunctionOnSet(cut, D) \in Nat
  BY <1>1, <1>2, SumOfNats
<1>6. SumFunctionOnSet(gone, D) = SumFunctionOnSet(reward, D) + SumFunctionOnSet(burned, D)
  <2>1. \A i \in D : reward[i] \in Int /\ burned[i] \in Int
    BY <1>2
  <2> QED
    BY <1>1, <1>2, <2>1, SumOfBoth
<1>7. SumFunctionOnSet(bonds, D) = SumFunctionOnSet(gone, D) + SumFunctionOnSet(cut, D)
  <2>1. \A i \in D : gone[i] \in Int /\ cut[i] \in Int
    BY <1>2
  <2> QED
    BY <1>1, <1>2, <2>1, SumOfBoth
<1>8. SumFunctionOnSet(cut, D) = SumFunctionOnSet(kept, D)
  BY <1>1, <1>2, SumAgrees
<1>9. /\ SumFunction(kept) = SumFunctionOnSet(cut, D)
      /\ SumFunctionOnSet(reward, D) + SumFunctionOnSet(burned, D) + SumFunctionOnSet(cut, D)
           = SumFunction(bonds)
  BY <1>4, <1>5, <1>6, <1>7, <1>8
<1> QED
  BY <1>3, <1>5, <1>9 DEF D, kept, bonds

\* Sorted by who posted them, the bonds of a challenger list are all there.
LEMMA PostedAddsUp ==
  ASSUME NEW records \in Seq(ChallengeRecord)
  PROVE  /\ \A a \in Accounts : PostedBy(records, a) \in Nat
         /\ PostedBy(records, This) = 0
         /\ SumFunctionOnSet([a \in Accounts |-> PostedBy(records, a)], Accounts)
              = SumFunction(BondsPosted(records))
<1> DEFINE D == DOMAIN records
           f == BondsPosted(records)
           Of(a) == {i \in D : records[i].challenger = a}
           h == [i \in D |-> records[i].challenger]
<1>1. /\ IsFiniteSet(D) /\ DOMAIN f = D
      /\ \A i \in D : f[i] \in Nat /\ records[i].challenger \in Users
  BY RecordsTyped
<1>2. \A a : PostedBy(records, a) = SumFunctionOnSet(f, Of(a))
  BY DEF PostedBy, BondsPosted
<1>3. ASSUME NEW a \in Accounts
      PROVE  PostedBy(records, a) \in Nat
  <2>1. IsFiniteSet(Of(a)) /\ \A i \in Of(a) : f[i] \in Nat
    BY <1>1, FS_Subset
  <2> HIDE DEF Of, f
  <2> QED
    BY <1>2, <2>1, SumOfNats
<1>4. PostedBy(records, This) = 0
  <2>1. Of(This) = {}
    BY <1>1, AccountsAreFinite
  <2> HIDE DEF Of
  <2> QED
    BY <1>2, <2>1, SumOfNothing
<1>5. SumFunctionOnSet(f, D)
        = SumFunctionOnSet([a \in Accounts |-> SumFunctionOnSet(f, {i \in D : h[i] = a})], Accounts)
  <2>1. \A i \in D : h[i] \in Accounts /\ f[i] \in Int
    BY <1>1, AccountsAreFinite
  <2>2. IsFiniteSet(Accounts)
    BY AccountsAreFinite
  <2> HIDE DEF D, f, h
  <2> QED
    BY <1>1, <2>1, <2>2, SumByParts
<1>6. [a \in Accounts |-> SumFunctionOnSet(f, {i \in D : h[i] = a})]
        = [a \in Accounts |-> PostedBy(records, a)]
  <2>1. ASSUME NEW a \in Accounts
        PROVE  SumFunctionOnSet(f, {i \in D : h[i] = a}) = PostedBy(records, a)
    <3>1. {i \in D : h[i] = a} = Of(a)
      OBVIOUS
    <3> HIDE DEF f, Of, h, D
    <3> QED
      BY <1>2, <3>1, Zenon
  <2> HIDE DEF f, Of, h, D
  <2> QED
    BY <2>1
<1>7. SumFunction(f) = SumFunctionOnSet(f, D)
  BY <1>1 DEF SumFunction
<1> HIDE DEF f, D, h
<1>8. SumFunctionOnSet([a \in Accounts |-> PostedBy(records, a)], Accounts) = SumFunction(f)
  BY <1>5, <1>6, <1>7
<1> QED
  BY <1>3, <1>4, <1>8 DEF f

-------------------------------------------------------------------------------
\* What the two kinds of conclusion pay out.

\* An account's share, when it is the only one that has any.
LEMMA OneShare ==
  ASSUME NEW a \in Accounts, NEW amount \in Int
  PROVE  SumFunctionOnSet([x \in Accounts |-> IF x = a THEN amount ELSE 0], Accounts) = amount
<1> DEFINE f == [x \in Accounts |-> IF x = a THEN amount ELSE 0]
<1>1. f[a] = amount /\ \A x \in Accounts : x # a => f[x] = 0
  OBVIOUS
<1> HIDE DEF f
<1> QED
  BY <1>1, AccountsAreFinite, SumOfOne

\* What the treasury is credited: its cut, or nothing as long as none is registered.
Cut(cut) == IF treasury = Unset THEN 0 ELSE cut

\* The accounts credited with the cut add up to it.
LEMMA TreasuryShare ==
  ASSUME treasury \in Treasuries \cup {Unset}, NEW cut \in Nat
  PROVE  /\ \A a \in Accounts : TreasuryCredit(a, cut) \in Nat
         /\ TreasuryCredit(This, cut) = 0
         /\ SumFunctionOnSet([a \in Accounts |-> TreasuryCredit(a, cut)], Accounts) = Cut(cut)
<1>1. /\ Treasuries \subseteq Accounts /\ This \notin Treasuries
      /\ Unset \notin Accounts /\ This \in Accounts /\ IsFiniteSet(Accounts)
  BY AccountsAreFinite
<1>2. \A a \in Accounts : TreasuryCredit(a, cut) \in Nat
  BY DEF TreasuryCredit
<1>3. TreasuryCredit(This, cut) = 0
  BY <1>1 DEF TreasuryCredit
<1> DEFINE f == [a \in Accounts |-> TreasuryCredit(a, cut)]
<1>4. CASE treasury = Unset
  <2>1. \A a \in Accounts : f[a] = 0
    BY <1>1, <1>4 DEF TreasuryCredit
  <2> HIDE DEF f
  <2>2. SumFunctionOnSet(f, Accounts) = 0
    BY <1>1, <2>1, SumOfZeros
  <2> QED
    BY <1>2, <1>3, <1>4, <2>2 DEF f, Cut
<1>5. CASE treasury # Unset
  <2>1. treasury \in Accounts /\ f[treasury] = cut
    BY <1>1, <1>5 DEF TreasuryCredit
  <2>2. \A a \in Accounts : a # treasury => f[a] = 0
    BY DEF TreasuryCredit
  <2> HIDE DEF f
  <2>3. SumFunctionOnSet(f, Accounts) = cut
    BY <1>1, <2>1, <2>2, SumOfOne
  <2> QED
    BY <1>2, <1>3, <1>5, <2>3 DEF f, Cut
<1> QED
  BY <1>4, <1>5

\* The proposer's bond and reward, and the cut of the treasury.
LEMMA UpheldAddsUp ==
  ASSUME treasury \in Treasuries \cup {Unset},
         NEW cand \in Candidate, NEW records \in Seq(ChallengeRecord)
  PROVE  /\ UpheldCredit(cand, records)[This] = 0
         /\ SumFunction(UpheldCredit(cand, records))
              = cand.bond_amount + Forfeited(records, "reward")
                  + Cut(Forfeited(records, "treasury"))
<1> DEFINE due == cand.bond_amount + Forfeited(records, "reward")
           cut == Forfeited(records, "treasury")
           f == [a \in Accounts |-> IF a = cand.proposer THEN due ELSE 0]
           g == [a \in Accounts |-> TreasuryCredit(a, cut)]
           h == UpheldCredit(cand, records)
<1>1. due \in Nat /\ cut \in Nat /\ cand.proposer \in Users
  <2>1. cand.bond_amount \in Nat /\ cand.proposer \in Users
    BY DEF Candidate
  <2>2. Forfeited(records, "reward") \in Nat /\ Forfeited(records, "treasury") \in Nat
    BY ForfeitedAddsUp
  <2> QED
    BY <2>1, <2>2
<1>2. /\ cand.proposer \in Accounts /\ cand.proposer # This /\ This \in Accounts
      /\ IsFiniteSet(Accounts)
  BY <1>1, AccountsAreFinite
<1>3. h = [a \in Accounts |-> (IF a = cand.proposer THEN due ELSE 0) + TreasuryCredit(a, cut)]
  BY DEF UpheldCredit
<1> HIDE DEF due, cut, h
<1>4. /\ \A a \in Accounts : TreasuryCredit(a, cut) \in Nat
      /\ TreasuryCredit(This, cut) = 0
      /\ SumFunctionOnSet(g, Accounts) = Cut(cut)
  BY <1>1, TreasuryShare
<1>5. SumFunctionOnSet(f, Accounts) = due
  BY <1>1, <1>2, OneShare
<1>6. \A a \in Accounts : f[a] \in Int /\ g[a] \in Int /\ h[a] = f[a] + g[a]
  BY <1>1, <1>3, <1>4
<1>7. h[This] = 0
  BY <1>2, <1>3, <1>4
<1> HIDE DEF f, g
<1>8. SumFunctionOnSet(h, Accounts) = due + Cut(cut)
  BY <1>2, <1>4, <1>5, <1>6, SumOfBoth
<1>9. SumFunction(h) = SumFunctionOnSet(h, Accounts)
  BY <1>3 DEF SumFunction
<1>10. h[This] = 0 /\ SumFunction(h) = due + Cut(cut)
  BY <1>7, <1>8, <1>9
<1> QED
  BY <1>10 DEF h, due, cut

\* The winner's reward, every challenger's bond, and the cut of the treasury.
LEMMA VoidedAddsUp ==
  ASSUME treasury \in Treasuries \cup {Unset},
         NEW cand \in Candidate, NEW records \in Seq(ChallengeRecord), records # <<>>
  PROVE  /\ VoidedCredit(cand, records)[This] = 0
         /\ SumFunction(VoidedCredit(cand, records))
              = SplitBond(cand.bond_amount).reward + SumFunction(BondsPosted(records))
                  + Cut(SplitBond(cand.bond_amount).treasury)
<1> DEFINE winner == records[Len(records)].challenger
           reward == SplitBond(cand.bond_amount).reward
           cut == SplitBond(cand.bond_amount).treasury
           posted == SumFunction(BondsPosted(records))
           f == [a \in Accounts |-> IF a = winner THEN reward ELSE 0]
           g == [a \in Accounts |-> PostedBy(records, a)]
           fg == [a \in Accounts |-> f[a] + g[a]]
           k == [a \in Accounts |-> TreasuryCredit(a, cut)]
           h == VoidedCredit(cand, records)
<1>1. reward \in Nat /\ cut \in Nat
  BY SplitAddsUp DEF Candidate
<1>2. winner \in Users /\ posted \in Nat
  <2>1. Len(records) \in DOMAIN records
    BY RecordsTyped, EmptySeq
  <2> QED
    BY <2>1, RecordsTyped
<1>3. winner \in Accounts /\ winner # This /\ This \in Accounts /\ IsFiniteSet(Accounts)
  BY <1>2, AccountsAreFinite
<1>4. h = [a \in Accounts |-> (IF a = winner THEN reward ELSE 0) + PostedBy(records, a)
                              + TreasuryCredit(a, cut)]
  BY DEF VoidedCredit
<1> HIDE DEF winner, reward, cut, posted, h
<1>5. /\ \A a \in Accounts : TreasuryCredit(a, cut) \in Nat
      /\ TreasuryCredit(This, cut) = 0
      /\ SumFunctionOnSet(k, Accounts) = Cut(cut)
  BY <1>1, TreasuryShare
<1>6. /\ \A a \in Accounts : PostedBy(records, a) \in Nat
      /\ PostedBy(records, This) = 0
      /\ SumFunctionOnSet(g, Accounts) = posted
  BY PostedAddsUp DEF posted
<1>7. SumFunctionOnSet(f, Accounts) = reward
  BY <1>1, <1>3, OneShare
<1>8. \A a \in Accounts : /\ f[a] \in Int /\ g[a] \in Int /\ k[a] \in Int
                          /\ fg[a] = f[a] + g[a]
                          /\ h[a] = fg[a] + k[a]
  BY <1>1, <1>4, <1>5, <1>6
<1>9. h[This] = 0
  BY <1>3, <1>4, <1>5, <1>6
<1> HIDE DEF f, g, k, fg
<1>10. SumFunctionOnSet(fg, Accounts) = reward + posted
  BY <1>3, <1>6, <1>7, <1>8, SumOfBoth
<1>11. SumFunctionOnSet(h, Accounts) = reward + posted + Cut(cut)
  <2>1. \A a \in Accounts : fg[a] \in Int
    BY <1>8
  <2> QED
    BY <1>3, <1>5, <1>8, <1>10, <2>1, SumOfBoth
<1>12. SumFunction(h) = SumFunctionOnSet(h, Accounts)
  BY <1>4 DEF SumFunction
<1>13. h[This] = 0 /\ SumFunction(h) = reward + posted + Cut(cut)
  BY <1>9, <1>11, <1>12
<1> QED
  BY <1>13 DEF h, reward, posted, cut

\* The stakes of a live candidate: its bond, and the bonds of its challengers.
StakesWith(bond, records) == <<bond>> \o [i \in DOMAIN records |-> records[i].bond]

\* Their sum, what may stay behind of them, and one bond more.
LEMMA StakesAddUp ==
  ASSUME NEW bond \in Nat, NEW records \in Seq(ChallengeRecord)
  PROVE  LET stakes == StakesWith(bond, records)
         IN  /\ stakes \in Seq(Nat) /\ stakes # <<>>
             /\ SumFunction(stakes) = bond + SumFunction(BondsPosted(records))
             /\ SumFunction([i \in DOMAIN stakes |-> Escrow!Retained(stakes[i])])
                  = Escrow!Retained(bond) + Forfeited(records, "treasury")
             /\ \A b \in Nat : \A u :
                  StakesWith(bond, Append(records, [challenger |-> u, bond |-> b]))
                    = Append(stakes, b)
<1> DEFINE n == Len(records)
           s == BondsPosted(records)
           stakes == StakesWith(bond, records)
           kept == [i \in DOMAIN stakes |-> Escrow!Retained(stakes[i])]
           rest == [i \in DOMAIN records |-> Escrow!Retained(records[i].bond)]
<1>1. /\ DOMAIN records = 1 .. n /\ n \in Nat
      /\ \A i \in 1 .. n : records[i].bond \in Nat /\ s[i] = records[i].bond
      /\ DOMAIN s = 1 .. n
  BY RecordsTyped
<1>2. s \in Seq(Nat) /\ Len(s) = n /\ <<bond>> \in Seq(Nat) /\ Len(<<bond>>) = 1
  BY <1>1 DEF BondsPosted
<1>3. stakes = <<bond>> \o s
  BY DEF StakesWith, BondsPosted
<1> HIDE DEF s
<1>4. /\ stakes \in Seq(Nat) /\ Len(stakes) = n + 1 /\ DOMAIN stakes = 1 .. n + 1
      /\ stakes[1] = bond /\ \A i \in 1 .. n : stakes[i + 1] = s[i]
  BY <1>1, <1>2, <1>3
<1>5. stakes # <<>>
  BY <1>1, <1>4
<1> HIDE DEF n, stakes
<1>6. SumFunction(stakes) = bond + SumFunction(s)
  <2>1. stakes[1] \in Int /\ \A i \in 1 .. n : s[i] \in Int /\ stakes[i + 1] = s[i]
    BY <1>1, <1>4
  <2>2. SumFunction(stakes) = stakes[1] + SumFunction(s)
    BY <1>1, <1>4, <2>1, SumOfCons
  <2> QED
    BY <1>4, <2>2
<1>7. SumFunction(kept) = Escrow!Retained(bond) + SumFunction(rest)
  <2>1. DOMAIN kept = 1 .. n + 1 /\ DOMAIN rest = 1 .. n
    BY <1>1, <1>4
  <2>2. \A b \in Nat : Escrow!Retained(b) \in Int
    BY DEF Escrow!Retained
  <2>3. 1 \in 1 .. n + 1 /\ \A i \in 1 .. n : i + 1 \in 1 .. n + 1
    BY <1>1
  <2>4. kept[1] = Escrow!Retained(bond) /\ kept[1] \in Int
    BY <1>4, <2>2, <2>3
  <2>5. \A i \in 1 .. n : kept[i + 1] = rest[i] /\ rest[i] \in Int
    BY <1>1, <1>4, <2>2, <2>3
  <2> HIDE DEF kept, rest
  <2>6. SumFunction(kept) = kept[1] + SumFunction(rest)
    BY <1>1, <2>1, <2>4, <2>5, SumOfCons
  <2> QED
    BY <2>4, <2>6
<1>8. Forfeited(records, "treasury") = SumFunction(rest)
  BY ForfeitedAddsUp
<1>9. ASSUME NEW b \in Nat, NEW u
      PROVE  StakesWith(bond, Append(records, [challenger |-> u, bond |-> b])) = Append(stakes, b)
  <2> DEFINE more == Append(records, [challenger |-> u, bond |-> b])
             t == [i \in DOMAIN more |-> more[i].bond]
  <2>1. /\ DOMAIN more = 1 .. n + 1
        /\ \A i \in 1 .. n : more[i] = records[i]
        /\ more[n + 1] = [challenger |-> u, bond |-> b]
    BY <1>1 DEF n
  <2>2. t = Append(s, b)
    <3>1. DOMAIN t = 1 .. n + 1 /\ \A i \in 1 .. n : t[i] = s[i]
      BY <1>1, <2>1
    <3>2. t[n + 1] = b
      BY <1>1, <2>1
    <3>3. t = [i \in 1 .. n + 1 |-> t[i]]
      BY <3>1
    <3> HIDE DEF t
    <3>4. t \in Seq(Nat) /\ Len(t) = n + 1
      <4>1. \A i \in 1 .. n + 1 : t[i] \in Nat
        BY <1>1, <3>1, <3>2
      <4> QED
        BY <1>1, <3>3, <4>1
    <3> QED
      BY <1>1, <1>2, <3>1, <3>2, <3>4
  <2>3. StakesWith(bond, more) = <<bond>> \o t
    BY DEF StakesWith
  <2> HIDE DEF t, more
  <2>4. <<bond>> \o Append(s, b) = Append(<<bond>> \o s, b)
    BY <1>2
  <2> QED
    BY <1>3, <2>2, <2>3, <2>4 DEF more
<1> QED
  BY <1>4, <1>5, <1>6, <1>7, <1>8, <1>9 DEF stakes, s

-------------------------------------------------------------------------------
\* What the calls do to the stakes.

\* The stakes after one more bond.
LEMMA StakesGrow ==
  ASSUME NEW bond \in Nat, NEW records \in Seq(ChallengeRecord), NEW b \in Nat, NEW u
  PROVE  StakesWith(bond, Append(records, [challenger |-> u, bond |-> b]))
           = Append(StakesWith(bond, records), b)
<1>1. \A b1 \in Nat : \A u1 :
        StakesWith(bond, Append(records, [challenger |-> u1, bond |-> b1]))
          = Append(StakesWith(bond, records), b1)
  BY StakesAddUp
<1> QED
  BY <1>1

\* What is paid out when only the treasury's share of the total may be withheld.
LEMMA Withheld ==
  ASSUME NEW rest \in Nat, NEW cut \in Nat, NEW given \in {0, cut}, NEW more \in Nat
  PROVE  /\ rest + given \in Nat /\ cut - given \in 0 .. (cut + more)
         /\ rest + given = (rest + cut) - (cut - given)
OBVIOUS

\* A market nobody proposed for has no stakes and is not closed; the stakes of one in
\* dispute are the bonds of its candidate.
LEMMA StakesOfMarket ==
  ASSUME NEW m \in Markets
  PROVE  /\ StakesIn[m] = Stakes(m)
         /\ byMarket[m] = 0 => StakesIn[m] = <<>> /\ m \notin Closed
         /\ byMarket[m] # 0 /\ Live(candidates[byMarket[m]]) =>
              /\ m \notin Closed
              /\ StakesIn[m] = StakesWith(candidates[byMarket[m]].bond_amount,
                                          challengers[byMarket[m]])
BY DEF StakesIn, Stakes, StakesWith, Closed

\* Rewriting the candidate of a market leaves the stakes of the others alone.
LEMMA RewriteStakes ==
  ASSUME DisputeTypeOK, OneCandidatePerMarket, NEW c \in 1 .. Len(candidates),
         Rewritten(c), Live(candidates[c])
  PROVE  LET m == candidates[c].market_id
             bond == candidates[c].bond_amount
         IN  /\ m \in Markets /\ m \notin Closed /\ bond \in Nat
             /\ challengers[c] \in Seq(ChallengeRecord)
             /\ StakesIn[m] = StakesWith(bond, challengers[c])
             /\ Live(candidates'[c]) =>
                  /\ Closed' = Closed
                  /\ StakesIn' = [StakesIn EXCEPT ![m] = StakesWith(bond, challengers'[c])]
             /\ ~Live(candidates'[c]) =>
                  /\ Closed' = Closed \cup {m}
                  /\ StakesIn' = [StakesIn EXCEPT ![m] = <<>>]
<1> DEFINE bond == candidates[c].bond_amount
<1>1. /\ candidates[c] \in Candidate /\ challengers[c] \in Seq(ChallengeRecord)
      /\ DOMAIN candidates = 1 .. Len(candidates) /\ Len(candidates) \in Nat
  BY Ids
<1>2. bond \in Nat /\ candidates[c].market_id \in Markets
  BY <1>1 DEF Candidate
<1> PICK m \in Markets : m = candidates[c].market_id
  BY <1>2
<1>3. byMarket' = byMarket /\ byMarket[m] = c /\ c # 0
  BY <1>1, IndexKept DEF OneCandidatePerMarket
<1>4. m \notin Closed /\ StakesIn[m] = StakesWith(bond, challengers[c])
  BY <1>2, <1>3, StakesOfMarket
<1>5. ASSUME NEW n \in Markets, n # m
      PROVE  Stakes(n)' = Stakes(n) /\ (n \in Closed' <=> n \in Closed)
  <2>1. CASE byMarket[n] = 0
    BY <1>3, <2>1 DEF Stakes, Closed
  <2>2. CASE byMarket[n] # 0
    <3>1. byMarket[n] \in 1 .. Len(candidates) /\ byMarket[n] # c
      BY <1>1, <1>5, <2>2 DEF OneCandidatePerMarket
    <3>2. /\ candidates'[byMarket[n]] = candidates[byMarket[n]]
          /\ challengers'[byMarket[n]] = challengers[byMarket[n]]
      BY <3>1 DEF Rewritten
    <3> QED
      BY <1>3, <3>2 DEF Stakes, Closed
  <2> QED
    BY <2>1, <2>2
<1>6. candidates'[c].bond_amount = bond
  BY DEF Rewritten
<1>7. Stakes(m)' = IF Live(candidates'[c]) THEN StakesWith(bond, challengers'[c]) ELSE <<>>
  <2> HIDE DEF bond
  <2>1. Stakes(m)' = IF Live(candidates'[c])
                     THEN <<candidates'[c].bond_amount>>
                            \o [i \in DOMAIN challengers'[c] |-> challengers'[c][i].bond]
                     ELSE <<>>
    BY <1>3 DEF Stakes
  <2> QED
    BY <1>6, <2>1 DEF StakesWith
<1>8. m \in Closed' <=> ~Live(candidates'[c])
  BY <1>2, <1>3 DEF Closed
<1>9. ASSUME NEW stakes, Stakes(m)' = stakes
      PROVE  StakesIn' = [StakesIn EXCEPT ![m] = stakes]
  <2>1. StakesIn' = [n \in Markets |-> Stakes(n)'] /\ StakesIn = [n \in Markets |-> Stakes(n)]
    BY DEF StakesIn
  <2> QED
    BY <1>2, <1>5, <1>9, <2>1
<1>10. Closed' = IF Live(candidates'[c]) THEN Closed ELSE Closed \cup {m}
  <2>1. \A n \in Markets : n \in Closed' <=> (n \in Closed \/ (n = m /\ ~Live(candidates'[c])))
    BY <1>4, <1>5, <1>8
  <2>2. /\ \A n : n \in Closed => n \in Markets
        /\ \A n : n \in Closed' => n \in Markets
    BY DEF Closed
  <2>3. \A n : n \in Closed' <=> (n \in Closed \/ (n = m /\ ~Live(candidates'[c])))
    BY <1>2, <2>1, <2>2
  <2>4. CASE Live(candidates'[c])
    <3>1. \A n : n \in Closed' <=> n \in Closed
      BY <2>3, <2>4
    <3>2. Closed' = Closed
      BY <3>1
    <3> QED
      BY <2>4, <3>2
  <2>5. CASE ~Live(candidates'[c])
    <3>1. \A n : n \in Closed' <=> n \in Closed \cup {m}
      BY <2>3, <2>5
    <3>2. Closed' = Closed \cup {m}
      BY <3>1
    <3> QED
      BY <2>5, <3>2
  <2> QED
    BY <2>4, <2>5
<1> QED
  BY <1>1, <1>2, <1>4, <1>7, <1>9, <1>10

\* So does opening one.
LEMMA OpeningStakes ==
  ASSUME DisputeTypeOK, OneCandidatePerMarket, NEW cand \in Candidate,
         AddCandidate(cand), byMarket[cand.market_id] = 0, cand.status = "Proposed"
  PROVE  LET m == cand.market_id
         IN  /\ m \in Markets /\ m \notin Closed
             /\ Closed' = Closed
             /\ StakesIn' = [StakesIn EXCEPT ![m] = Append(@, cand.bond_amount)]
<1> DEFINE m == cand.market_id
           n == Len(candidates) + 1
           bond == cand.bond_amount
<1>1. m \in Markets /\ bond \in Nat
  BY DEF Candidate
<1>2. DOMAIN candidates = 1 .. Len(candidates) /\ Len(candidates) \in Nat
  BY Ids
<1>3. /\ byMarket' = [byMarket EXCEPT ![m] = n]
      /\ candidates'[n] = cand /\ challengers'[n] = <<>>
      /\ \A d \in 1 .. Len(candidates) : /\ candidates'[d] = candidates[d]
                                         /\ challengers'[d] = challengers[d]
  BY AddCandidateEffect
<1>4. byMarket \in [Markets -> Nat]
  BY DEF DisputeTypeOK
<1>5. byMarket'[m] = n /\ n # 0 /\ \A k \in Markets : k # m => byMarket'[k] = byMarket[k]
  <2> HIDE DEF m
  <2> QED
    BY <1>1, <1>2, <1>3, <1>4
<1>6. StakesIn[m] = <<>> /\ m \notin Closed
  BY <1>1, StakesOfMarket
<1>7. Stakes(m)' = <<bond>> /\ m \notin Closed'
  <2>1. Live(cand)
    BY DEF Live
  <2>2. [i \in DOMAIN challengers'[n] |-> challengers'[n][i].bond] = <<>>
    BY <1>3
  <2>3. <<bond>> \o <<>> = <<bond>>
    BY <1>1
  <2>4. Stakes(m)' = <<candidates'[n].bond_amount>>
                       \o [i \in DOMAIN challengers'[n] |-> challengers'[n][i].bond]
    BY <1>3, <1>5, <2>1 DEF Stakes
  <2> QED
    BY <1>3, <1>5, <2>1, <2>2, <2>3, <2>4 DEF Closed
<1>8. ASSUME NEW k \in Markets, k # m
      PROVE  Stakes(k)' = Stakes(k) /\ (k \in Closed' <=> k \in Closed)
  <2>1. byMarket'[k] = byMarket[k]
    BY <1>5, <1>8
  <2>2. CASE byMarket[k] = 0
    BY <2>1, <2>2 DEF Stakes, Closed
  <2>3. CASE byMarket[k] # 0
    <3>1. byMarket[k] \in 1 .. Len(candidates)
      BY <1>2, <2>3 DEF OneCandidatePerMarket
    <3>2. /\ candidates'[byMarket[k]] = candidates[byMarket[k]]
          /\ challengers'[byMarket[k]] = challengers[byMarket[k]]
      BY <1>3, <3>1
    <3> QED
      BY <2>1, <3>2 DEF Stakes, Closed
  <2> QED
    BY <2>2, <2>3
<1>9. Append(StakesIn[m], bond) = <<bond>>
  BY <1>1, <1>6
<1>10. StakesIn' = [StakesIn EXCEPT ![m] = Append(StakesIn[m], bond)]
  <2>1. StakesIn' = [k \in Markets |-> Stakes(k)'] /\ StakesIn = [k \in Markets |-> Stakes(k)]
    BY DEF StakesIn
  <2> HIDE DEF m, bond
  <2> QED
    BY <1>1, <1>7, <1>8, <1>9, <2>1
<1>11. Closed' = Closed
  <2>1. \A k \in Markets : k \in Closed' <=> k \in Closed
    BY <1>6, <1>7, <1>8
  <2>2. /\ \A k : k \in Closed => k \in Markets
        /\ \A k : k \in Closed' => k \in Markets
    BY DEF Closed
  <2>3. \A k : k \in Closed' <=> k \in Closed
    BY <2>1, <2>2
  <2> QED
    BY <2>3
<1> QED
  BY <1>1, <1>6, <1>10, <1>11

-------------------------------------------------------------------------------
\* How money moves: every step locks one bond, settles one dispute, takes or
\* forfeits collateral, or moves none of it.

Still == UNCHANGED <<StakesIn, Closed, collateral, HeldOf>>

Locking(m, bond) ==
  /\ AssertVersion /\ m \notin Closed /\ bond > 0
  /\ StakesIn' = [StakesIn EXCEPT ![m] = Append(@, bond)]
  /\ HeldOf' = [HeldOf EXCEPT ![GetCollateralToken(m)] = @ + bond]
  /\ Closed' = Closed /\ collateral' = collateral

\* What the escrow lets stay behind of the stakes of one dispute.
RetainedOf(stakes) == SumFunction([i \in DOMAIN stakes |-> Escrow!Retained(stakes[i])])

Settling(m, kept) ==
  /\ AssertVersion /\ m \notin Closed /\ StakesIn[m] # <<>>
  /\ kept \in 0 .. RetainedOf(StakesIn[m])
  /\ StakesIn' = [StakesIn EXCEPT ![m] = <<>>]
  /\ HeldOf' = [HeldOf EXCEPT ![GetCollateralToken(m)] =
                  @ - (SumFunction(StakesIn[m]) - kept)]
  /\ Closed' = Closed \cup {m} /\ collateral' = collateral

Depositing(p, token, amount) ==
  /\ AssertVersion /\ amount > 0
  /\ collateral' = [collateral EXCEPT ![p] = @ + amount]
  /\ HeldOf' = [HeldOf EXCEPT ![token] = @ + amount]
  /\ UNCHANGED <<StakesIn, Closed>>

Forfeiting(p, token) ==
  /\ AssertVersion /\ collateral[p] > 0
  /\ collateral' = [collateral EXCEPT ![p] = 0]
  /\ HeldOf' = [HeldOf EXCEPT ![token] = @ - collateral[p]]
  /\ UNCHANGED <<StakesIn, Closed>>

\* A proposal locks the bond of its market's candidate.
LEMMA ProposalMoves ==
  ASSUME TypeOK, OneCandidatePerMarket, ProposeStep
  PROVE  \E m \in Markets, bond \in Nat : Locking(m, bond)
<1>1. PICK p \in Users, m \in Markets, o \in BOOLEAN, e \in ExpiryInputs,
           w \in WindowInputs, b \in BondInputs :
        Propose(p, m, o, e, w, b) \/ ProposeV2(p, m, o, e, w, b)
  BY DEF ProposeStep
<1>2. PICK v \in {"V1", "V2"} : AddCandidate(FreshCandidate(p, m, o, v, e, w, b))
  BY <1>1 DEF Propose, ProposeV2
<1>3. /\ Postable(m, w, b) /\ UNCHANGED collateral
      /\ TransferIn(GetCollateralToken(m), p, b)
  BY <1>1 DEF Propose, ProposeV2
<1>4. /\ b \in Nat /\ e \in Nat /\ w \in Nat /\ MIN_BOND_AMOUNT \in Nat \ {0}
  BY ConstantsAssumption
<1>5. AssertVersion /\ b > 0 /\ byMarket[m] = 0
  BY <1>3, <1>4 DEF Postable
<1>6. PICK cand \in Candidate : cand = FreshCandidate(p, m, o, v, e, w, b)
  BY <1>4, FreshCandidateType DEF TypeOK
<1>7. /\ cand.market_id = m /\ cand.status = "Proposed" /\ cand.bond_amount = b
      /\ AddCandidate(cand)
  BY <1>2, <1>6 DEF FreshCandidate
<1>8. /\ m \notin Closed /\ Closed' = Closed
      /\ StakesIn' = [StakesIn EXCEPT ![m] = Append(@, b)]
  BY <1>5, <1>7, OpeningStakes DEF TypeOK
<1>9. GetCollateralToken(m) \in Tokens
  BY <1>5, CollateralTokenType DEF TypeOK
<1>10. HeldOf' = [HeldOf EXCEPT ![GetCollateralToken(m)] = @ + b]
  BY <1>3, <1>4, <1>9, TransferInHolds DEF TypeOK
<1>11. Locking(m, b)
  BY <1>3, <1>5, <1>8, <1>10 DEF Locking
<1> QED
  BY <1>4, <1>11

\* A challenge locks one more.
LEMMA ChallengeMoves ==
  ASSUME TypeOK, OneCandidatePerMarket,
         NEW c \in 1 .. Len(candidates), NEW u \in Users, NEW b \in Nat, Challenge(u, c, b)
  PROVE  \E m \in Markets : Locking(m, b)
<1>1. candidates[c] \in Candidate /\ challengers[c] \in Seq(ChallengeRecord)
  BY Ids DEF TypeOK
<1> PICK m \in Markets : m = candidates[c].market_id
  BY <1>1 DEF Candidate
<1>2. /\ AssertVersion /\ b >= MIN_CHALLENGE_BOND_AMOUNT /\ UNCHANGED collateral
      /\ TransferIn(GetCollateralToken(m), u, b)
  BY DEF Challenge
<1>3. b > 0
  <2>1. MIN_CHALLENGE_BOND_AMOUNT \in Nat \ {0}
    BY ConstantsAssumption
  <2> QED
    BY <1>2, <2>1
<1>4. /\ Rewritten(c) /\ Live(candidates[c]) /\ Live(candidates'[c])
      /\ challengers'[c] = Append(challengers[c], [challenger |-> u, bond |-> b])
  BY AfterChallenge DEF Live
<1> DEFINE bond == candidates[c].bond_amount
<1>5. /\ m \notin Closed /\ bond \in Nat
      /\ StakesIn[m] = StakesWith(bond, challengers[c])
      /\ Closed' = Closed
      /\ StakesIn' = [StakesIn EXCEPT ![m] = StakesWith(bond, challengers'[c])]
  BY <1>4, RewriteStakes DEF TypeOK
<1> HIDE DEF bond
<1>6. StakesWith(bond, challengers'[c]) = Append(StakesIn[m], b)
  <2>1. PICK records \in Seq(ChallengeRecord) : records = challengers[c]
    BY <1>1
  <2>2. StakesWith(bond, Append(records, [challenger |-> u, bond |-> b]))
          = Append(StakesWith(bond, records), b)
    BY <1>5, StakesGrow
  <2> QED
    BY <1>4, <1>5, <2>1, <2>2
<1>7. StakesIn' = [StakesIn EXCEPT ![m] = Append(@, b)]
  BY <1>5, <1>6
<1>8. GetCollateralToken(m) \in Tokens
  BY <1>2, CollateralTokenType DEF TypeOK
<1>9. HeldOf' = [HeldOf EXCEPT ![GetCollateralToken(m)] = @ + b]
  BY <1>2, <1>8, TransferInHolds DEF TypeOK
<1> QED
  BY <1>2, <1>3, <1>5, <1>7, <1>9 DEF Locking

\* An appeal moves nothing.
LEMMA AppealMoves ==
  ASSUME TypeOK, OneCandidatePerMarket,
         NEW c \in 1 .. Len(candidates), NEW o \in BOOLEAN, NEW w \in WindowInputs,
         Appeal(c, o, w)
  PROVE  Still
<1>1. /\ Rewritten(c) /\ Live(candidates[c]) /\ Live(candidates'[c])
      /\ challengers'[c] = challengers[c]
  BY AfterAppeal DEF Live
<1>2. candidates[c].market_id \in Markets
  BY Ids DEF TypeOK, Candidate
<1> PICK m \in Markets : m = candidates[c].market_id
  BY <1>2
<1>3. Closed' = Closed /\ StakesIn' = [StakesIn EXCEPT ![m] = StakesIn[m]]
  BY <1>1, RewriteStakes DEF TypeOK
<1>4. StakesIn' = StakesIn
  BY <1>3 DEF StakesIn
<1>5. UNCHANGED <<collateral, balance>>
  BY DEF Appeal, moneyVars
<1>6. HeldOf' = HeldOf
  BY <1>5 DEF HeldOf
<1> QED
  BY <1>3, <1>4, <1>5, <1>6 DEF Still

\* A dispute that ends pays out its stakes, but for what the split keeps for a
\* treasury nobody has registered.
LEMMA ConclusionMoves ==
  ASSUME TypeOK, DisputesConsistent, NEW c \in 1 .. Len(candidates),
         Finalize(c) \/ ArbitrateUpholdProposer(c) \/ VoidMarket(c)
  PROVE  \E m \in Markets : \E kept \in Nat : Settling(m, kept)
<1> DEFINE cand == candidates[c]
           records == challengers[c]
           bond == candidates[c].bond_amount
<1>1. /\ cand \in Candidate /\ records \in Seq(ChallengeRecord) /\ bond \in Nat
      /\ treasury \in Treasuries \cup {Unset}
  BY Ids DEF TypeOK, AdminTypeOK, Candidate
<1> PICK m \in Markets : m = candidates[c].market_id
  BY <1>1 DEF Candidate
<1> PICK t \in Tokens : AssertVersion /\ t = GetCollateralToken(m)
  BY CollateralTokenType DEF TypeOK, Finalize, ArbitrateUpholdProposer, VoidMarket
<1>2. PICK status, settled_as, outcome : Concluding(c, status, settled_as, outcome)
  <2>1. AssertVersion => config.market_contract \in MarketContracts
    BY DEF AssertVersion, TypeOK, AdminTypeOK, ResolutionConfig
  <2>2. CASE Finalize(c)
    BY <2>1, <2>2 DEF Finalize, Concluding, ResolveMarket, ResolveMarketV2
  <2>3. CASE ArbitrateUpholdProposer(c)
    BY <2>1, <2>3 DEF ArbitrateUpholdProposer, Concluding, ResolveMarket
  <2>4. CASE VoidMarket(c)
    BY <2>1, <2>4 DEF VoidMarket, Concluding, VoidInMarket
  <2> QED
    BY <2>2, <2>3, <2>4
<1>3. Rewritten(c) /\ Live(candidates[c]) /\ ~Live(candidates'[c])
  BY <1>2, AfterConclusion DEF Concluding, Finalizable, RequireArbitrable, Live
<1>4. /\ m \notin Closed /\ StakesIn[m] = StakesWith(bond, records)
      /\ Closed' = Closed \cup {m} /\ StakesIn' = [StakesIn EXCEPT ![m] = <<>>]
  BY <1>3, RewriteStakes DEF TypeOK, DisputesConsistent
<1>5. /\ StakesIn[m] # <<>>
      /\ SumFunction(StakesIn[m]) = bond + SumFunction(BondsPosted(records))
      /\ RetainedOf(StakesIn[m]) = Escrow!Retained(bond) + Forfeited(records, "treasury")
  <2>1. PICK stakes : stakes = StakesWith(bond, records)
    OBVIOUS
  <2> HIDE DEF bond, records
  <2>2. /\ stakes # <<>>
        /\ SumFunction(stakes) = bond + SumFunction(BondsPosted(records))
        /\ SumFunction([i \in DOMAIN stakes |-> Escrow!Retained(stakes[i])])
             = Escrow!Retained(bond) + Forfeited(records, "treasury")
    BY <1>1, <2>1, StakesAddUp
  <2>3. RetainedOf(stakes) = Escrow!Retained(bond) + Forfeited(records, "treasury")
    BY <2>2 DEF RetainedOf
  <2> QED
    BY <1>4, <2>1, <2>2, <2>3
<1>6. UNCHANGED collateral
  BY DEF Finalize, ArbitrateUpholdProposer, VoidMarket
<1>7. SumFunction(BondsPosted(records)) \in Nat
  BY <1>1, RecordsTyped
<1>8. /\ SplitBond(bond).reward \in Nat /\ SplitBond(bond).burned \in Nat
      /\ SplitBond(bond).treasury \in Nat
      /\ SplitBond(bond).reward + SplitBond(bond).burned + SplitBond(bond).treasury = bond
      /\ SplitBond(bond).treasury = Escrow!Retained(bond)
  BY <1>1, SplitAddsUp
<1>9. /\ Forfeited(records, "reward") \in Nat /\ Forfeited(records, "burned") \in Nat
      /\ Forfeited(records, "treasury") \in Nat
      /\ Forfeited(records, "reward") + Forfeited(records, "burned")
           + Forfeited(records, "treasury") = SumFunction(BondsPosted(records))
  BY <1>1, ForfeitedAddsUp
<1> HIDE DEF bond, records
<1>10. ASSUME NEW paid \in Nat, NEW kept \in 0 .. RetainedOf(StakesIn[m]),
              HeldOf' = [HeldOf EXCEPT ![t] = @ - paid],
              paid = SumFunction(StakesIn[m]) - kept
       PROVE  \E k \in Nat : Settling(m, k)
  <2>1. Settling(m, kept)
    BY <1>4, <1>5, <1>6, <1>10 DEF Settling
  <2>2. kept \in Nat
    BY <1>5, <1>8, <1>9
  <2> QED
    BY <2>1, <2>2
<1>11. CASE Finalize(c) \/ ArbitrateUpholdProposer(c)
  <2> DEFINE cut == Forfeited(records, "treasury")
             credit == UpheldCredit(cand, records)
             burned == Forfeited(records, "burned")
             paid == SumFunction(credit) + burned
  <2>1. TransferOut(t, credit, burned)
    BY <1>11 DEF Finalize, ArbitrateUpholdProposer, SettleChallengersAsLosers, records
  <2>2. /\ credit[This] = 0
        /\ SumFunction(credit) = bond + Forfeited(records, "reward") + Cut(cut)
    BY <1>1, UpheldAddsUp DEF bond
  <2>3. HeldOf' = [HeldOf EXCEPT ![t] = @ - paid]
    BY <2>1, <2>2, TransferOutHolds DEF TypeOK
  <2> HIDE DEF credit
  <2>4. Cut(cut) \in {0, cut}
    BY DEF Cut
  <2>5. /\ RetainedOf(StakesIn[m]) = SplitBond(bond).treasury + cut
        /\ SumFunction(StakesIn[m]) = bond + (Forfeited(records, "reward") + burned + cut)
        /\ cut \in Nat /\ burned \in Nat /\ bond \in Nat
    BY <1>1, <1>5, <1>8, <1>9
  <2>6. paid = bond + Forfeited(records, "reward") + Cut(cut) + burned
    BY <2>2
  <2> HIDE DEF cut, burned, paid
  <2>7. /\ paid \in Nat /\ cut - Cut(cut) \in 0 .. RetainedOf(StakesIn[m])
        /\ paid = SumFunction(StakesIn[m]) - (cut - Cut(cut))
    <3> DEFINE rest == bond + Forfeited(records, "reward") + burned
               kept == SplitBond(bond).treasury
    <3>1. rest \in Nat /\ kept \in Nat /\ Cut(cut) \in Nat
      <4>1. rest \in Nat
        BY <1>9, <2>5
      <4>2. kept \in Nat
        BY <1>8
      <4>3. Cut(cut) \in Nat
        BY <2>4, <2>5
      <4> QED
        BY <4>1, <4>2, <4>3
    <3>2. paid = rest + Cut(cut)
      BY <1>9, <2>5, <2>6, <3>1
    <3>3. SumFunction(StakesIn[m]) = rest + cut
      BY <1>9, <2>5
    <3>4. RetainedOf(StakesIn[m]) = cut + kept
      BY <2>5, <3>1
    <3> HIDE DEF rest, kept
    <3> QED
      BY <2>4, <2>5, <3>1, <3>2, <3>3, <3>4, Withheld
  <2> QED
    BY <1>10, <2>3, <2>7
<1>12. CASE VoidMarket(c)
  <2> DEFINE cut == SplitBond(bond).treasury
             credit == VoidedCredit(cand, records)
             burned == SplitBond(bond).burned
             paid == SumFunction(credit) + burned
  <2>1. TransferOut(t, credit, burned)
    BY <1>12 DEF VoidMarket, records, bond
  <2>2. records # <<>>
    <3>1. CandidateOK(cand, records)
      BY DEF DisputesConsistent, CandidatesOK, records
    <3>2. cand.status = "Challenged" /\ cand.appeal_round \in Nat
      BY <1>1, <1>12, ConstantsAssumption DEF VoidMarket, RequireArbitrable, Candidate
    <3>3. Len(records) = cand.appeal_round + 1
      BY <3>1, <3>2 DEF CandidateOK, InStep, Live
    <3> QED
      BY <3>2, <3>3
  <2>3. /\ credit[This] = 0
        /\ SumFunction(credit)
             = SplitBond(bond).reward + SumFunction(BondsPosted(records)) + Cut(cut)
    BY <1>1, <2>2, VoidedAddsUp DEF bond
  <2>4. HeldOf' = [HeldOf EXCEPT ![t] = @ - paid]
    BY <2>1, <2>3, TransferOutHolds DEF TypeOK
  <2> HIDE DEF credit
  <2>5. Cut(cut) \in {0, cut}
    BY DEF Cut
  <2>6. /\ RetainedOf(StakesIn[m]) = cut + Forfeited(records, "treasury")
        /\ SumFunction(StakesIn[m])
             = SplitBond(bond).reward + burned + cut + SumFunction(BondsPosted(records))
        /\ cut \in Nat /\ burned \in Nat
    BY <1>5, <1>7, <1>8, <1>9
  <2>7. paid = SplitBond(bond).reward + SumFunction(BondsPosted(records)) + Cut(cut) + burned
    BY <2>3
  <2> HIDE DEF cut, burned, paid
  <2>8. /\ paid \in Nat /\ cut - Cut(cut) \in 0 .. RetainedOf(StakesIn[m])
        /\ paid = SumFunction(StakesIn[m]) - (cut - Cut(cut))
    <3> DEFINE rest == SplitBond(bond).reward + SumFunction(BondsPosted(records)) + burned
               kept == Forfeited(records, "treasury")
    <3>1. rest \in Nat /\ kept \in Nat /\ Cut(cut) \in Nat
      <4>1. rest \in Nat
        BY <1>7, <1>8, <2>6
      <4>2. kept \in Nat
        BY <1>9
      <4>3. Cut(cut) \in Nat
        BY <2>5, <2>6
      <4> QED
        BY <4>1, <4>2, <4>3
    <3>2. paid = rest + Cut(cut)
      BY <1>7, <1>8, <2>6, <2>7, <3>1
    <3>3. SumFunction(StakesIn[m]) = rest + cut
      BY <1>7, <1>8, <2>6
    <3>4. RetainedOf(StakesIn[m]) = cut + kept
      BY <2>6, <3>1
    <3> HIDE DEF rest, kept
    <3> QED
      BY <2>5, <2>6, <3>1, <3>2, <3>3, <3>4, Withheld
  <2> QED
    BY <1>10, <2>4, <2>8
<1> QED
  BY <1>11, <1>12

\* Collateral comes and goes under its own record.
LEMMA CollateralMoves ==
  ASSUME TypeOK, CollateralStep
  PROVE  \E p \in Users, token \in DepositTokens :
           Forfeiting(p, token) \/ \E amount \in Nat : Depositing(p, token, amount)
<1>1. PICK p \in Users, token \in DepositTokens :
        \/ \E amount \in CollateralInputs : DepositCollateral(p, token, amount)
        \/ \E recipient \in Users : SlashCollateral(p, token, recipient)
  BY DEF CollateralStep
<1>2. token \in Tokens /\ collateral[p] \in Nat
  BY ConstantsAssumption DEF TypeOK, MoneyTypeOK
<1>3. UNCHANGED disputeVars => UNCHANGED <<StakesIn, Closed>>
  BY DEF disputeVars, StakesIn, Stakes, Closed
<1>4. ASSUME NEW amount \in CollateralInputs, DepositCollateral(p, token, amount)
      PROVE  Depositing(p, token, amount) /\ amount \in Nat
  <2>1. amount \in Nat
    BY ConstantsAssumption
  <2>2. TransferIn(token, p, amount)
    BY <1>4 DEF DepositCollateral
  <2>3. HeldOf' = [HeldOf EXCEPT ![token] = @ + amount]
    BY <1>2, <2>1, <2>2, TransferInHolds DEF TypeOK
  <2>4. /\ AssertVersion /\ amount > 0 /\ collateral' = [collateral EXCEPT ![p] = @ + amount]
        /\ UNCHANGED <<StakesIn, Closed>>
    BY <1>3, <1>4 DEF DepositCollateral
  <2> QED
    BY <2>1, <2>3, <2>4 DEF Depositing
<1>5. ASSUME NEW recipient \in Users, SlashCollateral(p, token, recipient)
      PROVE  Forfeiting(p, token)
  <2> DEFINE credit == [a \in Accounts |-> IF a = recipient THEN collateral[p] ELSE 0]
  <2>1. TransferOut(token, credit, 0)
    BY <1>5 DEF SlashCollateral
  <2>2. recipient \in Accounts /\ recipient # This /\ This \in Accounts
    BY AccountsAreFinite
  <2>3. credit[This] = 0
    BY <2>2
  <2>4. SumFunction(credit) = collateral[p]
    <3>1. SumFunctionOnSet(credit, Accounts) = collateral[p]
      BY <1>2, <2>2, OneShare
    <3> QED
      BY <3>1 DEF SumFunction
  <2> HIDE DEF credit
  <2>5. HeldOf' = [HeldOf EXCEPT ![token] = @ - (SumFunction(credit) + 0)]
    BY <1>2, <2>1, <2>3, TransferOutHolds DEF TypeOK
  <2>6. SumFunction(credit) + 0 = collateral[p]
    BY <1>2, <2>4
  <2>7. /\ AssertVersion /\ collateral[p] > 0 /\ collateral' = [collateral EXCEPT ![p] = 0]
        /\ UNCHANGED <<StakesIn, Closed>>
    BY <1>3, <1>5 DEF SlashCollateral
  <2> QED
    BY <2>5, <2>6, <2>7 DEF Forfeiting
<1> QED
  BY <1>1, <1>4, <1>5

\* No other call moves any.
LEMMA OthersStandStill ==
  ASSUME Tick \/ AdminStep \/ EnvironmentStep \/ UNCHANGED vars
  PROVE  Still
<1>1. UNCHANGED <<disputeVars, moneyVars>>
  <2>1. CASE AdminStep
    BY <2>1 DEF AdminStep, Initialize, SetDefaultChallengeWindow, SetMarketContract,
       ProposeMarketContract, ProposeFactory, ProposeTreasury, ProposeAddress,
       CancelFactory, CancelMarketContract, CancelTreasury, CancelAddress,
       ExecuteFactory, ExecuteMarketContract, ExecuteTreasury, Due,
       SetEmergencyMode, Pause, Unpause, SetPaused
  <2>2. CASE EnvironmentStep
    BY <2>2 DEF EnvironmentStep, SettledElsewhere, MoveGate
  <2> QED
    BY <2>1, <2>2 DEF Tick, vars
<1> QED
  BY <1>1 DEF disputeVars, moneyVars, Still, StakesIn, Stakes, Closed, HeldOf

\* So money only moves in these five ways.
LEMMA MoneyMoves ==
  ASSUME TypeOK, DisputesConsistent, [Next]_vars
  PROVE  \/ Still
         \/ \E m \in Markets, bond \in Nat : Locking(m, bond)
         \/ \E m \in Markets, kept \in Nat : Settling(m, kept)
         \/ \E p \in Users, token \in DepositTokens : Forfeiting(p, token)
         \/ \E p \in Users, token \in DepositTokens, amount \in Nat :
              Depositing(p, token, amount)
<1>1. OneCandidatePerMarket
  BY DEF DisputesConsistent
<1>2. CASE DisputeStep
  <2>1. PICK c \in 1 .. Len(candidates) :
          \/ \E u \in Users, b \in BondInputs : Challenge(u, c, b)
          \/ \E o \in BOOLEAN, w \in WindowInputs : Appeal(c, o, w)
          \/ Finalize(c) \/ ArbitrateUpholdProposer(c) \/ VoidMarket(c)
    BY <1>2, LenProperties DEF DisputeStep, TypeOK, DisputeTypeOK
  <2>2. CASE \E u \in Users, b \in BondInputs : Challenge(u, c, b)
    <3>1. PICK u \in Users, b \in BondInputs : Challenge(u, c, b)
      BY <2>2
    <3>2. b \in Nat
      BY ConstantsAssumption
    <3> QED
      BY <1>1, <3>1, <3>2, ChallengeMoves
  <2>3. CASE \E o \in BOOLEAN, w \in WindowInputs : Appeal(c, o, w)
    BY <1>1, <2>3, AppealMoves
  <2>4. CASE Finalize(c) \/ ArbitrateUpholdProposer(c) \/ VoidMarket(c)
    BY <2>4, ConclusionMoves
  <2> QED
    BY <2>1, <2>2, <2>3, <2>4
<1>3. CASE ProposeStep
  BY <1>1, <1>3, ProposalMoves
<1>4. CASE CollateralStep
  BY <1>4, CollateralMoves
<1>5. CASE Tick \/ AdminStep \/ EnvironmentStep \/ UNCHANGED vars
  BY <1>5, OthersStandStill
<1> QED
  BY <1>2, <1>3, <1>4, <1>5 DEF Next

-------------------------------------------------------------------------------
\* The contract implements the escrow it promises.

\* A change of what is held of one token is a change of the holdings.
LEMMA HoldingsFollow ==
  ASSUME MoneyTypeOK, MoneyTypeOK', NEW token \in Tokens, NEW change \in Int,
         HeldOf' = [HeldOf EXCEPT ![token] = @ + change]
  PROVE  Holdings' = Holdings + change
<1>1. /\ HeldOf \in [Tokens -> Nat] /\ HeldOf' \in [Tokens -> Nat]
      /\ Holdings = SumFunctionOnSet(HeldOf, Tokens)
      /\ Holdings' = SumFunctionOnSet(HeldOf', Tokens)
  BY HeldTyped, HeldTypedNext
<1>2. IsFiniteSet(Tokens)
  BY AccountsAreFinite
<1>3. PICK f \in [Tokens -> Nat], g \in [Tokens -> Nat] : f = HeldOf /\ g = HeldOf'
  BY <1>1
<1>4. g[token] = f[token] + change /\ \A t \in Tokens : t # token => g[t] = f[t]
  BY <1>3
<1>5. g[token] \in Int /\ \A t \in Tokens : f[t] \in Int
  OBVIOUS
<1>6. SumFunctionOnSet(f, Tokens) \in Int
  BY <1>2, <1>5, SumIsInt
<1>7. SumFunctionOnSet(g, Tokens) = SumFunctionOnSet(f, Tokens) + g[token] - f[token]
  BY <1>2, <1>4, <1>5, SumUpdate
<1>8. SumFunctionOnSet(g, Tokens) = SumFunctionOnSet(f, Tokens) + change
  BY <1>4, <1>5, <1>6, <1>7
<1> QED
  BY <1>1, <1>3, <1>8

\* Holdings are an amount, before and after the step.
LEMMA HoldingsTyped ==
  ASSUME MoneyTypeOK
  PROVE  Holdings \in Nat
<1>1. HeldOf \in [Tokens -> Nat] /\ Holdings = SumFunctionOnSet(HeldOf, Tokens)
  BY HeldTyped
<1>2. IsFiniteSet(Tokens) /\ \A t \in Tokens : HeldOf[t] \in Nat
  BY <1>1, AccountsAreFinite
<1> QED
  BY <1>1, <1>2, SumOfNats

\* Holdings are an amount after the step.
LEMMA HoldingsTypedNext ==
  ASSUME MoneyTypeOK'
  PROVE  Holdings' \in Nat
<1>1. HeldOf' \in [Tokens -> Nat] /\ Holdings' = SumFunctionOnSet(HeldOf', Tokens)
  BY HeldTypedNext
<1>2. IsFiniteSet(Tokens) /\ \A t \in Tokens : HeldOf'[t] \in Nat
  BY <1>1, AccountsAreFinite
<1> QED
  BY <1>1, <1>2, SumOfNats

\* Stakes are sequences of bonds.
LEMMA StakesTyped ==
  ASSUME DisputeTypeOK, OneCandidatePerMarket
  PROVE  StakesIn \in [Markets -> Seq(Nat)]
<1>1. ASSUME NEW m \in Markets
      PROVE  StakesIn[m] \in Seq(Nat)
  <2>1. CASE byMarket[m] # 0 /\ Live(candidates[byMarket[m]])
    <3>1. byMarket[m] \in 1 .. Len(candidates)
      BY <2>1, Ids DEF OneCandidatePerMarket
    <3>2. /\ candidates[byMarket[m]].bond_amount \in Nat
          /\ challengers[byMarket[m]] \in Seq(ChallengeRecord)
      BY <3>1, Ids DEF Candidate
    <3> QED
      BY <2>1, <3>2, StakesOfMarket, StakesAddUp
  <2>2. CASE ~ (byMarket[m] # 0 /\ Live(candidates[byMarket[m]]))
    <3>1. StakesIn[m] = <<>>
      BY <2>2 DEF StakesIn, Stakes
    <3> QED
      BY <3>1, EmptySeq
  <2> QED
    BY <2>1, <2>2
<1> QED
  BY <1>1 DEF StakesIn

\* A dispute's stakes, and what may stay behind of them, are amounts.
LEMMA StakesSums ==
  ASSUME NEW stakes \in Seq(Nat)
  PROVE  SumFunction(stakes) \in Nat /\ RetainedOf(stakes) \in Nat
<1>1. DOMAIN stakes = 1 .. Len(stakes) /\ Len(stakes) \in Nat
  BY LenProperties
<1>2. IsFiniteSet(DOMAIN stakes)
  BY <1>1, FS_Interval
<1>3. SumFunction(stakes) \in Nat
  BY <1>1, <1>2, SumOfNats, ElementOfSeq DEF SumFunction
<1> DEFINE kept == [i \in DOMAIN stakes |-> Escrow!Retained(stakes[i])]
<1>4. \A i \in DOMAIN stakes : kept[i] \in Nat
  <2>1. \A i \in DOMAIN stakes : stakes[i] \in Nat
    BY <1>1, ElementOfSeq
  <2>2. \A b \in Nat : Escrow!Retained(b) \in Nat
    BY SplitAddsUp
  <2> QED
    BY <2>1, <2>2
<1>5. DOMAIN kept = DOMAIN stakes
  OBVIOUS
<1> HIDE DEF kept
<1>6. SumFunction(kept) \in Nat
  BY <1>2, <1>4, <1>5, SumOfNats DEF SumFunction
<1> QED
  BY <1>3, <1>6 DEF kept, RetainedOf

\* The escrow's sums are this module's.
LEMMA EscrowSum ==
  ASSUME NEW f
  PROVE  Escrow!SumFunction(f) = SumFunction(f)
BY Zenon DEF SumFunction, SumFunctionOnSet, FoldFunctionOnSet, MapThenFoldSet,
   Escrow!SumFunction, Escrow!SumFunctionOnSet, Escrow!FoldFunctionOnSet,
   Escrow!MapThenFoldSet

\* Every step of the contract is a step of the escrow, or none of its business.
LEMMA EscrowStep ==
  ASSUME TypeOK, TypeOK', DisputesConsistent, [Next]_vars
  PROVE  [Escrow!Next]_(Escrow!vars)
<1>0. MoneyTypeOK /\ MoneyTypeOK' /\ DisputeTypeOK /\ OneCandidatePerMarket
  BY DEF TypeOK, DisputesConsistent
<1>1. /\ MoneyTypeOK /\ MoneyTypeOK' /\ Holdings \in Nat /\ Holdings' \in Nat
      /\ StakesIn \in [Markets -> Seq(Nat)]
      /\ collateral \in [Users -> Nat] /\ HeldOf \in [Tokens -> Nat]
  <2>1. Holdings \in Nat /\ Holdings' \in Nat
    BY <1>0, HoldingsTyped, HoldingsTypedNext
  <2>2. StakesIn \in [Markets -> Seq(Nat)]
    BY <1>0, StakesTyped
  <2>3. HeldOf \in [Tokens -> Nat]
    BY <1>0, HeldTyped
  <2>4. collateral \in [Users -> Nat]
    BY <1>0 DEF MoneyTypeOK
  <2> QED
    BY <1>0, <2>1, <2>2, <2>3, <2>4
<1>2. AssertVersion => \A m \in Markets : GetCollateralToken(m) \in Tokens
  BY CollateralTokenType DEF TypeOK
<1>3. CASE Still
  <2>1. Holdings' = Holdings
    BY <1>0, <1>3, HeldTyped, HeldTypedNext DEF Still
  <2> QED
    BY <1>3, <2>1 DEF Still, StakesIn, Closed, Escrow!vars
<1>4. ASSUME NEW m \in Markets, NEW bond \in Nat, Locking(m, bond)
      PROVE  Escrow!Next
  <2>1. PICK token \in Tokens : token = GetCollateralToken(m)
    BY <1>2, <1>4 DEF Locking
  <2>2. HeldOf' = [HeldOf EXCEPT ![token] = @ + bond]
    BY <1>4, <2>1 DEF Locking
  <2>3. Holdings' = Holdings + bond
    <3>1. bond \in Int
      OBVIOUS
    <3> QED
      BY <1>0, <2>2, <3>1, HoldingsFollow
  <2>4. Holdings' > Holdings /\ Holdings' - Holdings = bond /\ bond > 0
    BY <1>1, <1>4, <2>3 DEF Locking
  <2>5. Escrow!Lock(m, bond)
    BY <1>4, <2>3, <2>4 DEF Locking, Escrow!Lock, StakesIn, Closed
  <2> QED
    BY <2>4, <2>5 DEF Escrow!Next
<1>5. ASSUME NEW m \in Markets, NEW kept \in Nat, Settling(m, kept)
      PROVE  Escrow!Next
  <2>1. PICK token \in Tokens : token = GetCollateralToken(m)
    BY <1>2, <1>5 DEF Settling
  <2>2. PICK stakes \in Seq(Nat) : stakes = StakesIn[m]
    BY <1>1
  <2>3. SumFunction(stakes) \in Nat
    BY StakesSums
  <2>4. HeldOf' = [HeldOf EXCEPT ![token] = @ - (SumFunction(stakes) - kept)]
    BY <1>5, <2>1, <2>2 DEF Settling
  <2>5. HeldOf' = [HeldOf EXCEPT ![token] = @ + (kept - SumFunction(stakes))]
    <3>1. HeldOf[token] - (SumFunction(stakes) - kept)
            = HeldOf[token] + (kept - SumFunction(stakes))
      BY <1>1, <2>3
    <3> QED
      BY <2>4, <3>1
  <2>6. kept - SumFunction(stakes) \in Int
    BY <2>3
  <2>7. Holdings' = Holdings + (kept - SumFunction(stakes))
    BY <1>0, <2>5, <2>6, HoldingsFollow
  <2>8. SumFunction(stakes) - (Holdings - Holdings') = kept
    BY <1>1, <2>3, <2>7
  <2>9. kept \in 0 .. RetainedOf(stakes) /\ stakes # <<>> /\ m \notin Closed
    BY <1>5, <2>2 DEF Settling
  <2>10. /\ StakesIn' = [StakesIn EXCEPT ![m] = <<>>]
         /\ Closed' = Closed \cup {m} /\ collateral' = collateral
    BY <1>5 DEF Settling
  <2>11. Escrow!Settle(m)
    <3>1. SumFunction(StakesIn[m]) - (Holdings - Holdings') \in 0 .. RetainedOf(StakesIn[m])
      BY <2>2, <2>8, <2>9
    <3>2. StakesIn[m] # <<>>
      BY <2>2, <2>9
    <3> QED
      BY <2>9, <2>10, <3>1, <3>2, EscrowSum DEF Escrow!Settle, RetainedOf, StakesIn, Closed
  <2> QED
    BY <2>11 DEF Escrow!Next
<1>6. ASSUME NEW p \in Users, NEW token \in DepositTokens, Forfeiting(p, token)
      PROVE  Escrow!Next
  <2>1. token \in Tokens /\ collateral[p] \in Nat
    BY <1>1, ConstantsAssumption
  <2>2. HeldOf' = [HeldOf EXCEPT ![token] = @ + (0 - collateral[p])]
    <3>1. HeldOf[token] - collateral[p] = HeldOf[token] + (0 - collateral[p])
      BY <1>1, <2>1
    <3> QED
      BY <1>6, <3>1 DEF Forfeiting
  <2>3. Holdings' = Holdings + (0 - collateral[p])
    <3>1. PICK change \in Int : change = 0 - collateral[p]
      BY <2>1
    <3>2. HeldOf' = [HeldOf EXCEPT ![token] = @ + change]
      BY <2>2, <3>1
    <3> QED
      BY <1>0, <2>1, <3>1, <3>2, HoldingsFollow
  <2>4. Holdings' = Holdings - collateral[p]
    BY <1>1, <2>1, <2>3
  <2>5. Escrow!Forfeit(p)
    BY <1>6, <2>4 DEF Forfeiting, Escrow!Forfeit, StakesIn, Closed
  <2> QED
    BY <2>5 DEF Escrow!Next
<1>7. ASSUME NEW p \in Users, NEW token \in DepositTokens, NEW amount \in Nat,
             Depositing(p, token, amount)
      PROVE  Escrow!Next
  <2>1. token \in Tokens
    BY ConstantsAssumption
  <2>2. Holdings' = Holdings + amount
    <3>1. amount \in Int /\ HeldOf' = [HeldOf EXCEPT ![token] = @ + amount]
      BY <1>7 DEF Depositing
    <3> QED
      BY <1>0, <2>1, <3>1, HoldingsFollow
  <2>3. Holdings' > Holdings /\ Holdings' - Holdings = amount
    BY <1>1, <1>7, <2>2 DEF Depositing
  <2>4. Escrow!Deposit(p, amount)
    BY <1>7, <2>2 DEF Depositing, Escrow!Deposit, StakesIn, Closed
  <2> QED
    BY <2>3, <2>4 DEF Escrow!Next
<1> QED
  BY <1>3, <1>4, <1>5, <1>6, <1>7, MoneyMoves

\* Every bond is locked once and released once, together with the others of its
\* dispute, and out of nobody else's money.
THEOREM EscrowImplemented == Spec => ImplementsEscrow
<1>1. Init => Escrow!Init
  <2> SUFFICES ASSUME Init PROVE Escrow!Init
    OBVIOUS
  <2>1. \A m \in Markets : Stakes(m) = <<>> /\ byMarket[m] = 0
    BY DEF Init, Stakes
  <2>2. Holdings = 0
    <3> DEFINE f == HeldOf
    <3>1. IsFiniteSet(Tokens) /\ \A t \in Tokens : f[t] = 0
      BY AccountsAreFinite DEF Init, HeldOf, Accounts
    <3>2. Holdings = SumFunctionOnSet(f, Tokens)
      BY DEF Holdings, HeldOf, SumFunction
    <3> HIDE DEF f
    <3> QED
      BY <3>1, <3>2, SumOfZeros
  <2> QED
    BY <2>1, <2>2 DEF Init, Escrow!Init
<1>2. TypeOK /\ TypeOK' /\ DisputesConsistent /\ [Next]_vars => [Escrow!Next]_(Escrow!vars)
  BY EscrowStep
<1> QED
  BY <1>1, <1>2, Consistent, PTL DEF Spec, ImplementsEscrow, Escrow!Spec

-------------------------------------------------------------------------------
\* What the contract owes.

\* To a market: the stakes of its dispute.
Owed == [m \in Markets |-> SumFunction(StakesIn[m])]

\* A bond more is owed as soon as it is posted.
LEMMA SumOfAppend ==
  ASSUME NEW s \in Seq(Nat), NEW b \in Nat
  PROVE  SumFunction(Append(s, b)) = SumFunction(s) + b
<1> DEFINE n == Len(s)
           t == Append(s, b)
           D == 1 .. n
<1>1. /\ n \in Nat /\ DOMAIN s = D /\ DOMAIN t = D \cup {n + 1} /\ n + 1 \notin D
      /\ t[n + 1] = b /\ \A i \in D : t[i] = s[i] /\ s[i] \in Nat
  OBVIOUS
<1>2. IsFiniteSet(D)
  BY <1>1, FS_Interval
<1>3. /\ SumFunction(t) = SumFunctionOnSet(t, D \cup {n + 1})
      /\ SumFunction(s) = SumFunctionOnSet(s, D)
  BY <1>1 DEF SumFunction
<1>4. t[n + 1] \in Int /\ \A i \in D : t[i] \in Int
  BY <1>1
<1> HIDE DEF n, t, D
<1>5. SumFunctionOnSet(t, D \cup {n + 1}) = SumFunctionOnSet(t, D) + t[n + 1]
  BY <1>1, <1>2, <1>4, SumInsert
<1>6. SumFunctionOnSet(t, D) = SumFunctionOnSet(s, D)
  BY <1>1, <1>2, SumAgrees
<1> QED
  BY <1>1, <1>3, <1>5, <1>6 DEF t

\* One market's stakes change: so does the sum over any set of markets it is in.
LEMMA OwedChanges ==
  ASSUME DisputeTypeOK, OneCandidatePerMarket, NEW m \in Markets, NEW s \in Seq(Nat),
         StakesIn' = [StakesIn EXCEPT ![m] = s], NEW S \in SUBSET Markets
  PROVE  /\ StakesIn[m] \in Seq(Nat) /\ SumFunction(StakesIn[m]) \in Nat /\ SumFunction(s) \in Nat
         /\ SumFunctionOnSet(Owed, S) \in Nat
         /\ m \in S => SumFunctionOnSet(Owed', S)
                         = SumFunctionOnSet(Owed, S) + SumFunction(s) - SumFunction(StakesIn[m])
         /\ m \notin S => SumFunctionOnSet(Owed', S) = SumFunctionOnSet(Owed, S)
<1>1. PICK f \in [Markets -> Seq(Nat)] : f = StakesIn
  BY StakesTyped
<1>2. PICK g \in [Markets -> Seq(Nat)] : g = StakesIn'
  BY <1>1
<1>3. g[m] = s /\ \A n \in Markets : n # m => g[n] = f[n]
  BY <1>1, <1>2
<1>4. \A n \in Markets : SumFunction(f[n]) \in Nat /\ SumFunction(g[n]) \in Nat
  BY StakesSums
<1> DEFINE old == [n \in Markets |-> SumFunction(f[n])]
           new == [n \in Markets |-> SumFunction(g[n])]
<1>5. old = Owed /\ new = Owed'
  BY <1>1, <1>2 DEF Owed
<1>6. \A n \in Markets : old[n] = SumFunction(f[n]) /\ new[n] = SumFunction(g[n])
  OBVIOUS
<1> HIDE DEF old, new
<1>7. IsFiniteSet(S)
  BY AccountsAreFinite, FS_Subset
<1>8. \A n \in S : old[n] \in Nat /\ new[n] \in Nat /\ (n # m => new[n] = old[n])
  BY <1>3, <1>4, <1>6
<1>9. SumFunctionOnSet(old, S) \in Nat
  BY <1>7, <1>8, SumOfNats
<1>10. ASSUME m \in S
       PROVE  SumFunctionOnSet(new, S) = SumFunctionOnSet(old, S) + new[m] - old[m]
  <2>1. new[m] \in Int /\ \A n \in S : old[n] \in Int
    BY <1>8, <1>10
  <2> QED
    BY <1>7, <1>8, <1>10, <2>1, SumUpdate
<1>11. ASSUME m \notin S
       PROVE  SumFunctionOnSet(new, S) = SumFunctionOnSet(old, S)
  <2>1. \A n \in S : new[n] = old[n]
    BY <1>8, <1>11
  <2> QED
    BY <1>7, <2>1, SumAgrees
<1> QED
  BY <1>1, <1>3, <1>4, <1>5, <1>6, <1>9, <1>10, <1>11

\* An amount is an integer.
LEMMA AmountsAreInts ==
  ASSUME NEW S, NEW f \in [S -> Nat]
  PROVE  \A x \in S : f[x] \in Nat /\ f[x] \in Int
OBVIOUS

\* One depositor's collateral changes.
LEMMA CollateralChanges ==
  ASSUME collateral \in [Users -> Nat], NEW p \in Users, NEW amount \in Nat,
         collateral' = [collateral EXCEPT ![p] = amount]
  PROVE  /\ SumFunction(collateral) \in Nat
         /\ SumFunction(collateral') = SumFunction(collateral) + amount - collateral[p]
<1>1. PICK f \in [Users -> Nat], g \in [Users -> Nat] : f = collateral /\ g = collateral'
  OBVIOUS
<1>2. g[p] = amount /\ \A u \in Users : u # p => g[u] = f[u]
  BY <1>1
<1>3. g[p] \in Int /\ \A u \in Users : f[u] \in Int
  BY AmountsAreInts
<1>4. IsFiniteSet(Users)
  BY AccountsAreFinite
<1>5. SumFunctionOnSet(f, Users) \in Nat
  BY <1>4, SumOfNats
<1>6. SumFunctionOnSet(g, Users) = SumFunctionOnSet(f, Users) + g[p] - f[p]
  BY <1>2, <1>3, <1>4, SumUpdate
<1>7. SumFunction(f) = SumFunctionOnSet(f, Users) /\ SumFunction(g) = SumFunctionOnSet(g, Users)
  BY DEF SumFunction
<1> QED
  BY <1>1, <1>2, <1>5, <1>6, <1>7

\* What a live candidate has locked is what its market is owed, so what is locked in
\* a token is what is owed to the markets settled in it.
LEMMA LockedIsOwed ==
  ASSUME DisputeTypeOK, OneCandidatePerMarket, NEW t
  PROVE  Locked(t) = SumFunctionOnSet(Owed, {m \in Markets : GetCollateralToken(m) = t})
<1> DEFINE D == {c \in DOMAIN candidates : /\ Live(candidates[c])
                                           /\ GetCollateralToken(candidates[c].market_id) = t}
           S == {m \in Markets : GetCollateralToken(m) = t}
           g == [c \in DOMAIN candidates |-> BondsOf(c)]
           h == [c \in DOMAIN candidates |-> candidates[c].market_id]
           T == {h[c] : c \in D}
<1>1. /\ DOMAIN candidates = 1 .. Len(candidates) /\ Len(candidates) \in Nat
      /\ \A c \in DOMAIN candidates : /\ candidates[c] \in Candidate
                                      /\ challengers[c] \in Seq(ChallengeRecord)
  BY Ids
<1>2. ASSUME NEW c \in D
      PROVE  /\ h[c] \in S /\ byMarket[h[c]] = c
             /\ Owed[h[c]] = g[c]
  <2>1. h[c] = candidates[c].market_id /\ h[c] \in Markets
    BY <1>1 DEF Candidate
  <2>2. byMarket[h[c]] = c /\ c # 0
    BY <1>1, <2>1 DEF OneCandidatePerMarket
  <2>3. StakesIn[h[c]] = StakesWith(candidates[c].bond_amount, challengers[c])
    BY <2>1, <2>2, StakesOfMarket
  <2>4. /\ candidates[c].bond_amount \in Nat /\ challengers[c] \in Seq(ChallengeRecord)
    BY <1>1 DEF Candidate
  <2>5. SumFunction(StakesWith(candidates[c].bond_amount, challengers[c]))
          = candidates[c].bond_amount + SumFunction(BondsPosted(challengers[c]))
    BY <2>4, StakesAddUp
  <2>6. g[c] = candidates[c].bond_amount + SumFunction(BondsPosted(challengers[c]))
    BY DEF BondsOf, BondsPosted
  <2> QED
    BY <2>1, <2>2, <2>3, <2>5, <2>6 DEF Owed
<1>3. Locked(t) = SumFunctionOnSet(g, D)
  BY DEF Locked
<1>4. \A m \in S : m \notin T => Owed[m] = 0
  <2> SUFFICES ASSUME NEW m \in S, m \notin T PROVE Owed[m] = 0
    OBVIOUS
  <2>1. ~ (byMarket[m] # 0 /\ Live(candidates[byMarket[m]]))
    <3> SUFFICES ASSUME byMarket[m] # 0, Live(candidates[byMarket[m]]) PROVE FALSE
      OBVIOUS
    <3>1. byMarket[m] \in DOMAIN candidates /\ candidates[byMarket[m]].market_id = m
      BY DEF OneCandidatePerMarket
    <3>2. byMarket[m] \in D /\ h[byMarket[m]] = m
      BY <3>1
    <3> QED
      BY <3>2
  <2>2. StakesIn[m] = <<>>
    BY <2>1 DEF StakesIn, Stakes
  <2>3. SumFunction(<<>>) = 0
    <3>1. DOMAIN <<>> = {}
      OBVIOUS
    <3> QED
      BY <3>1, SumOfNothing DEF SumFunction
  <2> QED
    BY <2>2, <2>3 DEF Owed
<1>5. \A m \in Markets : Owed[m] \in Int
  BY StakesTyped, StakesSums DEF Owed
<1>6. IsFiniteSet(D) /\ IsFiniteSet(S)
  <2>1. IsFiniteSet(DOMAIN candidates) /\ IsFiniteSet(Markets)
    BY <1>1, FS_Interval, AccountsAreFinite
  <2>2. D \subseteq DOMAIN candidates /\ S \subseteq Markets
    OBVIOUS
  <2> HIDE DEF D, S
  <2> QED
    BY <2>1, <2>2, FS_Subset
<1>7. S \subseteq Markets
  OBVIOUS
<1> HIDE DEF D, S, g, h
<1>8. SumFunctionOnSet(g, D) = SumFunctionOnSet(Owed, T)
  <2>1. \A x, y \in D : h[x] = h[y] => x = y
    BY <1>2
  <2>2. \A x \in D : Owed[h[x]] \in Int /\ g[x] = Owed[h[x]]
    BY <1>2, <1>5, <1>7
  <2> QED
    BY <1>6, <2>1, <2>2, SumReindexed
<1>9. SumFunctionOnSet(Owed, S) = SumFunctionOnSet(Owed, T)
  <2>1. T \in SUBSET S /\ \A m \in S : Owed[m] \in Int
    BY <1>2, <1>5, <1>7
  <2> HIDE DEF T
  <2> QED
    BY <1>4, <1>6, <2>1, SumOfTheRest
<1> QED
  BY <1>3, <1>8, <1>9 DEF S

\* So what is locked over all tokens is what is owed to all markets.
LEMMA AllLockedIsOwed ==
  ASSUME DisputeTypeOK, OneCandidatePerMarket,
         \A m \in Markets : GetCollateralToken(m) \in Tokens
  PROVE  SumFunction([t \in Tokens |-> Locked(t)]) = SumFunctionOnSet(Owed, Markets)
<1> DEFINE h == [m \in Markets |-> GetCollateralToken(m)]
           Part(t) == {m \in Markets : h[m] = t}
<1>1. [t \in Tokens |-> Locked(t)] = [t \in Tokens |-> SumFunctionOnSet(Owed, Part(t))]
  <2>1. ASSUME NEW t \in Tokens
        PROVE  Locked(t) = SumFunctionOnSet(Owed, Part(t))
    <3>1. Part(t) = {m \in Markets : GetCollateralToken(m) = t}
      OBVIOUS
    <3> HIDE DEF Part
    <3> QED
      BY <3>1, LockedIsOwed
  <2> HIDE DEF Part
  <2> QED
    BY <2>1
<1>2. \A m \in Markets : h[m] \in Tokens /\ Owed[m] \in Int
  BY StakesTyped, StakesSums DEF Owed
<1>3. IsFiniteSet(Markets) /\ IsFiniteSet(Tokens)
  BY AccountsAreFinite
<1> HIDE DEF h
<1>4. SumFunctionOnSet(Owed, Markets)
        = SumFunctionOnSet([t \in Tokens |-> SumFunctionOnSet(Owed, {m \in Markets : h[m] = t})],
                           Tokens)
  BY <1>2, <1>3, SumByParts
<1>5. SumFunction([t \in Tokens |-> Locked(t)])
        = SumFunctionOnSet([t \in Tokens |-> Locked(t)], Tokens)
  BY DEF SumFunction
<1> QED
  BY <1>1, <1>4, <1>5

-------------------------------------------------------------------------------
\* What the contract owes, it holds.

OwedToAll == SumFunctionOnSet(Owed, Markets)

\* All tokens taken together, its holdings cover the bonds and the collateral.
Funded == Holdings >= OwedToAll + SumFunction(collateral)

\* No step breaks it: whoever is paid is paid what was owed.
LEMMA FundedPreserved ==
  ASSUME TypeOK, TypeOK', DisputesConsistent, Funded, [Next]_vars
  PROVE  Funded'
<1>1. /\ MoneyTypeOK /\ MoneyTypeOK' /\ DisputeTypeOK /\ OneCandidatePerMarket
      /\ collateral \in [Users -> Nat]
  BY DEF TypeOK, DisputesConsistent, MoneyTypeOK
<1>2. HeldOf \in [Tokens -> Nat] /\ Holdings \in Nat /\ Holdings' \in Nat
  BY <1>1, HeldTyped, HoldingsTyped, HoldingsTypedNext
<1>3. AssertVersion => \A m \in Markets : GetCollateralToken(m) \in Tokens
  BY CollateralTokenType DEF TypeOK
<1>4. Markets \in SUBSET Markets
  OBVIOUS
<1>5. OwedToAll \in Nat /\ SumFunction(collateral) \in Nat
  <2>1. IsFiniteSet(Markets) /\ \A m \in Markets : Owed[m] \in Nat
    BY <1>1, AccountsAreFinite, StakesTyped, StakesSums DEF Owed
  <2>2. IsFiniteSet(Users) /\ \A u \in Users : collateral[u] \in Nat
    BY <1>1, AccountsAreFinite
  <2>3. SumFunction(collateral) = SumFunctionOnSet(collateral, Users)
    BY <1>1 DEF SumFunction
  <2> QED
    BY <2>1, <2>2, <2>3, SumOfNats DEF OwedToAll
<1>6. CASE Still
  <2>1. Holdings' = Holdings
    BY <1>1, <1>6, HeldTyped, HeldTypedNext DEF Still
  <2> QED
    BY <1>6, <2>1 DEF Still, Funded, OwedToAll, Owed
<1>7. ASSUME NEW m \in Markets, NEW bond \in Nat, Locking(m, bond)
      PROVE  Funded'
  <2>1. PICK token \in Tokens : token = GetCollateralToken(m)
    BY <1>3, <1>7 DEF Locking
  <2>2. Holdings' = Holdings + bond
    <3>1. HeldOf' = [HeldOf EXCEPT ![token] = @ + bond] /\ bond \in Int
      BY <1>7, <2>1 DEF Locking
    <3> QED
      BY <1>1, <3>1, HoldingsFollow
  <2>3. PICK stakes \in Seq(Nat) : stakes = StakesIn[m]
    BY <1>1, StakesTyped
  <2>4. PICK more \in Seq(Nat) : more = Append(stakes, bond)
    BY AppendProperties
  <2>5. StakesIn' = [StakesIn EXCEPT ![m] = more]
    BY <1>7, <2>3, <2>4 DEF Locking
  <2>6. /\ OwedToAll' = OwedToAll + SumFunction(more) - SumFunction(stakes)
        /\ SumFunction(stakes) \in Nat
    BY <1>1, <1>4, <2>3, <2>5, OwedChanges DEF OwedToAll
  <2>7. SumFunction(more) = SumFunction(stakes) + bond
    BY <2>4, SumOfAppend
  <2>8. OwedToAll' = OwedToAll + bond
    BY <1>5, <2>6, <2>7
  <2>9. SumFunction(collateral)' = SumFunction(collateral)
    BY <1>7 DEF Locking
  <2> QED
    BY <1>2, <1>5, <2>2, <2>8, <2>9 DEF Funded
<1>8. ASSUME NEW m \in Markets, NEW kept \in Nat, Settling(m, kept)
      PROVE  Funded'
  <2>1. PICK token \in Tokens : token = GetCollateralToken(m)
    BY <1>3, <1>8 DEF Settling
  <2>2. PICK stakes \in Seq(Nat) : stakes = StakesIn[m]
    BY <1>1, StakesTyped
  <2>3. PICK nothing \in Seq(Nat) : nothing = <<>>
    BY EmptySeq
  <2>4. StakesIn' = [StakesIn EXCEPT ![m] = nothing]
    BY <1>8, <2>3 DEF Settling
  <2>5. /\ OwedToAll' = OwedToAll + SumFunction(nothing) - SumFunction(stakes)
        /\ SumFunction(stakes) \in Nat /\ SumFunction(nothing) = 0
    <3>1. SumFunction(nothing) = 0
      BY <2>3, SumOfNothing DEF SumFunction
    <3> QED
      BY <1>1, <1>4, <2>2, <2>4, <3>1, OwedChanges DEF OwedToAll
  <2>6. Holdings' = Holdings + (kept - SumFunction(stakes))
    <3>1. HeldOf' = [HeldOf EXCEPT ![token] = @ - (SumFunction(stakes) - kept)]
      BY <1>8, <2>1, <2>2 DEF Settling
    <3>2. HeldOf[token] - (SumFunction(stakes) - kept)
            = HeldOf[token] + (kept - SumFunction(stakes))
      BY <1>2, <2>5
    <3>3. PICK change \in Int : change = kept - SumFunction(stakes)
      BY <2>5
    <3>4. HeldOf' = [HeldOf EXCEPT ![token] = @ + change]
      BY <3>1, <3>2, <3>3
    <3> QED
      BY <1>1, <3>3, <3>4, HoldingsFollow
  <2>7. SumFunction(collateral)' = SumFunction(collateral)
    BY <1>8 DEF Settling
  <2> QED
    BY <1>2, <1>5, <2>5, <2>6, <2>7 DEF Funded
<1>9. ASSUME NEW p \in Users, NEW token \in DepositTokens, Forfeiting(p, token)
      PROVE  Funded'
  <2>1. token \in Tokens /\ collateral[p] \in Nat
    BY <1>1, ConstantsAssumption
  <2>2. Holdings' = Holdings - collateral[p]
    <3>1. HeldOf' = [HeldOf EXCEPT ![token] = @ - collateral[p]]
      BY <1>9 DEF Forfeiting
    <3>2. PICK change \in Int : change = 0 - collateral[p]
      BY <2>1
    <3>3. HeldOf[token] - collateral[p] = HeldOf[token] + change
      BY <1>2, <2>1, <3>2
    <3>4. HeldOf' = [HeldOf EXCEPT ![token] = @ + change]
      BY <3>1, <3>3
    <3>5. Holdings' = Holdings + change
      BY <1>1, <2>1, <3>4, HoldingsFollow
    <3> QED
      BY <1>2, <2>1, <3>2, <3>5
  <2>3. SumFunction(collateral') = SumFunction(collateral) + 0 - collateral[p]
    <3>1. collateral' = [collateral EXCEPT ![p] = 0]
      BY <1>9 DEF Forfeiting
    <3> QED
      BY <1>1, <3>1, CollateralChanges
  <2>4. OwedToAll' = OwedToAll
    BY <1>9 DEF Forfeiting, OwedToAll, Owed
  <2> QED
    BY <1>2, <1>5, <2>1, <2>2, <2>3, <2>4 DEF Funded
<1>10. ASSUME NEW p \in Users, NEW token \in DepositTokens, NEW amount \in Nat,
              Depositing(p, token, amount)
       PROVE  Funded'
  <2>1. token \in Tokens /\ collateral[p] \in Nat
    BY <1>1, ConstantsAssumption
  <2>2. Holdings' = Holdings + amount
    <3>1. amount \in Int /\ HeldOf' = [HeldOf EXCEPT ![token] = @ + amount]
      BY <1>10 DEF Depositing
    <3> QED
      BY <1>1, <2>1, <3>1, HoldingsFollow
  <2>3. PICK sum \in Nat : sum = collateral[p] + amount
    BY <2>1
  <2>4. SumFunction(collateral') = SumFunction(collateral) + sum - collateral[p]
    <3>1. collateral' = [collateral EXCEPT ![p] = sum]
      BY <1>10, <2>3 DEF Depositing
    <3> QED
      BY <1>1, <3>1, CollateralChanges
  <2>5. OwedToAll' = OwedToAll
    BY <1>10 DEF Depositing, OwedToAll, Owed
  <2> QED
    BY <1>2, <1>5, <2>1, <2>2, <2>3, <2>4, <2>5 DEF Funded
<1> QED
  BY <1>6, <1>7, <1>8, <1>9, <1>10, MoneyMoves

\* Nothing is owed at the start.
LEMMA NothingOwedAtFirst ==
  ASSUME Init
  PROVE  /\ \A S \in SUBSET Markets : SumFunctionOnSet(Owed, S) = 0
         /\ SumFunction(collateral) = 0
<1>1. ASSUME NEW S \in SUBSET Markets
      PROVE  SumFunctionOnSet(Owed, S) = 0
  <2>1. SumFunction(<<>>) = 0
    <3>1. DOMAIN <<>> = {}
      OBVIOUS
    <3> QED
      BY <3>1, SumOfNothing DEF SumFunction
  <2>2. \A m \in Markets : StakesIn[m] = <<>>
    BY DEF Init, StakesIn, Stakes
  <2>3. IsFiniteSet(S) /\ \A m \in S : Owed[m] = 0
    BY <2>1, <2>2, AccountsAreFinite, FS_Subset DEF Owed
  <2> QED
    BY <2>3, SumOfZeros
<1>2. SumFunction(collateral) = 0
  <2>1. DOMAIN collateral = Users /\ \A u \in Users : collateral[u] = 0
    BY DEF Init
  <2> QED
    BY <2>1, AccountsAreFinite, SumOfZeros DEF SumFunction
<1> QED
  BY <1>1, <1>2

\* Whatever was settled, slashed or deposited before, and in whatever tokens, the
\* contract's holdings over all tokens cover every bond of every live dispute and
\* the proposer collateral.
THEOREM HoldingsCoverDebts ==
  Spec => [](AssertVersion =>
               Holdings >= SumFunction([t \in Tokens |-> Locked(t)]) + SumFunction(collateral))
<1>1. TypeOK /\ Init => Funded
  <2> SUFFICES ASSUME TypeOK, Init PROVE Funded
    OBVIOUS
  <2>1. OwedToAll = 0 /\ SumFunction(collateral) = 0
    BY NothingOwedAtFirst DEF OwedToAll
  <2>2. Holdings \in Nat
    BY HoldingsTyped DEF TypeOK
  <2> QED
    BY <2>1, <2>2 DEF Funded
<1>2. TypeOK /\ TypeOK' /\ DisputesConsistent /\ Funded /\ [Next]_vars => Funded'
  BY FundedPreserved
<1>3. TypeOK /\ DisputesConsistent /\ Funded =>
        (AssertVersion =>
           Holdings >= SumFunction([t \in Tokens |-> Locked(t)]) + SumFunction(collateral))
  <2> SUFFICES ASSUME TypeOK, DisputesConsistent, Funded, AssertVersion
               PROVE  Holdings >= SumFunction([t \in Tokens |-> Locked(t)])
                                    + SumFunction(collateral)
    OBVIOUS
  <2>1. \A m \in Markets : GetCollateralToken(m) \in Tokens
    BY CollateralTokenType DEF TypeOK
  <2>2. SumFunction([t \in Tokens |-> Locked(t)]) = OwedToAll
    BY <2>1, AllLockedIsOwed DEF TypeOK, DisputesConsistent, OwedToAll
  <2> QED
    BY <2>2 DEF Funded
<1> QED
  BY <1>1, <1>2, <1>3, Consistent, PTL DEF Spec

-------------------------------------------------------------------------------
\* And token by token, where two things hold that the contract leaves to its callers.

\* A market is settled in the same token whichever deployment is registered: the
\* token is looked up again at every settlement, so set_market_contract could
\* otherwise move a dispute to a token its bonds were not posted in.
MarketsKeepTheirToken ==
  \A j, k \in MarketContracts : CollateralToken[j] = CollateralToken[k]

\* Collateral in a market's token is in no other one: slash_collateral pays out in
\* the token it is told, which need not be the one that was deposited.
CollateralKeptApart ==
  \A t \in DepositTokens, k \in MarketContracts, m \in Markets :
    CollateralToken[k][m] = t => DepositTokens = {t}

TokenOf == CollateralToken[CHOOSE k \in MarketContracts : TRUE]

SettledIn(t) == {m \in Markets : TokenOf[m] = t}

\* The collateral that is known to be held in a token.
CollateralIn(t) == IF DepositTokens = {t} THEN SumFunction(collateral) ELSE 0

FundedIn(t) == HeldOf[t] >= SumFunctionOnSet(Owed, SettledIn(t)) + CollateralIn(t)

\* The token of a market does not depend on the state.
LEMMA TokenIsKept ==
  ASSUME TypeOK, AssertVersion, MarketsKeepTheirToken
  PROVE  \A m \in Markets : GetCollateralToken(m) = TokenOf[m] /\ TokenOf[m] \in Tokens
<1>1. config.market_contract \in MarketContracts
  BY DEF TypeOK, AdminTypeOK, ResolutionConfig, AssertVersion
<1>2. (CHOOSE k \in MarketContracts : TRUE) \in MarketContracts
  BY <1>1
<1>3. TokenOf = CollateralToken[config.market_contract]
  BY <1>1, <1>2 DEF MarketsKeepTheirToken, TokenOf
<1>4. CollateralToken[config.market_contract] \in [Markets -> Tokens]
  BY <1>1, ConstantsAssumption
<1> QED
  BY <1>3, <1>4 DEF GetCollateralToken

\* What is owed in a token is an amount.
LEMMA OwedTyped ==
  ASSUME DisputeTypeOK, OneCandidatePerMarket, collateral \in [Users -> Nat], NEW t
  PROVE  /\ SumFunctionOnSet(Owed, SettledIn(t)) \in Nat
         /\ SumFunction(collateral) \in Nat /\ CollateralIn(t) \in Nat
<1>1. IsFiniteSet(SettledIn(t)) /\ \A m \in SettledIn(t) : Owed[m] \in Nat
  <2>1. SettledIn(t) \subseteq Markets
    BY DEF SettledIn
  <2> QED
    BY <2>1, AccountsAreFinite, FS_Subset, StakesTyped, StakesSums DEF Owed
<1>2. IsFiniteSet(Users) /\ \A u \in Users : collateral[u] \in Nat
  BY AccountsAreFinite
<1>3. SumFunction(collateral) = SumFunctionOnSet(collateral, Users)
  BY DEF SumFunction
<1>4. SumFunctionOnSet(Owed, SettledIn(t)) \in Nat /\ SumFunction(collateral) \in Nat
  BY <1>1, <1>2, <1>3, SumOfNats
<1> QED
  BY <1>4 DEF CollateralIn

\* No step breaks it.
LEMMA FundedInPreserved ==
  ASSUME TypeOK, TypeOK', DisputesConsistent, [Next]_vars,
         MarketsKeepTheirToken, CollateralKeptApart,
         NEW t \in Tokens, FundedIn(t)
  PROVE  FundedIn(t)'
<1>1. /\ MoneyTypeOK /\ MoneyTypeOK' /\ DisputeTypeOK /\ OneCandidatePerMarket
      /\ collateral \in [Users -> Nat] /\ collateral' \in [Users -> Nat]
  BY DEF TypeOK, DisputesConsistent, MoneyTypeOK
<1>2. /\ HeldOf \in [Tokens -> Nat] /\ HeldOf' \in [Tokens -> Nat]
      /\ HeldOf[t] \in Nat /\ HeldOf'[t] \in Nat
  BY <1>1, HeldTyped, HeldTypedNext
<1>3. AssertVersion =>
        \A m \in Markets : GetCollateralToken(m) = TokenOf[m] /\ TokenOf[m] \in Tokens
  BY TokenIsKept
<1>4. SettledIn(t) \in SUBSET Markets
  BY DEF SettledIn
<1>5. SumFunctionOnSet(Owed, SettledIn(t)) \in Nat /\ SumFunction(collateral) \in Nat
  BY <1>1, OwedTyped
<1>6. CollateralIn(t) \in Nat
  BY <1>1, OwedTyped
<1>7. CASE Still
  BY <1>7 DEF Still, FundedIn, CollateralIn, Owed
<1>8. ASSUME NEW m \in Markets, NEW bond \in Nat, Locking(m, bond)
      PROVE  FundedIn(t)'
  <2>1. PICK token \in Tokens : token = GetCollateralToken(m) /\ token = TokenOf[m]
    BY <1>3, <1>8 DEF Locking
  <2>2. HeldOf' = [HeldOf EXCEPT ![token] = @ + bond]
    BY <1>8, <2>1 DEF Locking
  <2>3. PICK stakes \in Seq(Nat) : stakes = StakesIn[m]
    BY <1>1, StakesTyped
  <2>4. PICK more \in Seq(Nat) : more = Append(stakes, bond)
    BY AppendProperties
  <2>5. StakesIn' = [StakesIn EXCEPT ![m] = more]
    BY <1>8, <2>3, <2>4 DEF Locking
  <2>6. SumFunction(more) = SumFunction(stakes) + bond /\ SumFunction(stakes) \in Nat
    BY <2>4, SumOfAppend, StakesSums
  <2>7. /\ m \in SettledIn(t) => SumFunctionOnSet(Owed', SettledIn(t))
                                   = SumFunctionOnSet(Owed, SettledIn(t))
                                     + SumFunction(more) - SumFunction(stakes)
        /\ m \notin SettledIn(t) => SumFunctionOnSet(Owed', SettledIn(t))
                                      = SumFunctionOnSet(Owed, SettledIn(t))
    BY <1>1, <1>4, <2>3, <2>5, OwedChanges
  <2>8. CollateralIn(t)' = CollateralIn(t)
    BY <1>8 DEF Locking, CollateralIn
  <2>9. CASE t = token
    <3>1. m \in SettledIn(t) /\ HeldOf'[t] = HeldOf[t] + bond
      BY <1>2, <2>1, <2>2, <2>9 DEF SettledIn
    <3> QED
      BY <1>2, <1>5, <1>6, <2>6, <2>7, <2>8, <3>1 DEF FundedIn
  <2>10. CASE t # token
    <3>1. m \notin SettledIn(t) /\ HeldOf'[t] = HeldOf[t]
      BY <1>2, <2>1, <2>2, <2>10 DEF SettledIn
    <3> QED
      BY <2>7, <2>8, <3>1 DEF FundedIn
  <2> QED
    BY <2>9, <2>10
<1>9. ASSUME NEW m \in Markets, NEW kept \in Nat, Settling(m, kept)
      PROVE  FundedIn(t)'
  <2>1. PICK token \in Tokens : token = GetCollateralToken(m) /\ token = TokenOf[m]
    BY <1>3, <1>9 DEF Settling
  <2>2. PICK stakes \in Seq(Nat) : stakes = StakesIn[m]
    BY <1>1, StakesTyped
  <2>3. PICK nothing \in Seq(Nat) : nothing = <<>>
    BY EmptySeq
  <2>4. StakesIn' = [StakesIn EXCEPT ![m] = nothing]
    BY <1>9, <2>3 DEF Settling
  <2>5. SumFunction(stakes) \in Nat /\ SumFunction(nothing) = 0
    BY <2>3, StakesSums, SumOfNothing DEF SumFunction
  <2>6. HeldOf' = [HeldOf EXCEPT ![token] = @ - (SumFunction(stakes) - kept)]
    BY <1>9, <2>1, <2>2 DEF Settling
  <2>7. /\ m \in SettledIn(t) => SumFunctionOnSet(Owed', SettledIn(t))
                                   = SumFunctionOnSet(Owed, SettledIn(t))
                                     + SumFunction(nothing) - SumFunction(stakes)
        /\ m \notin SettledIn(t) => SumFunctionOnSet(Owed', SettledIn(t))
                                      = SumFunctionOnSet(Owed, SettledIn(t))
    BY <1>1, <1>4, <2>2, <2>4, OwedChanges
  <2>8. CollateralIn(t)' = CollateralIn(t)
    BY <1>9 DEF Settling, CollateralIn
  <2>9. CASE t = token
    <3>1. m \in SettledIn(t) /\ HeldOf'[t] = HeldOf[t] - (SumFunction(stakes) - kept)
      BY <1>2, <2>1, <2>6, <2>9 DEF SettledIn
    <3> QED
      BY <1>2, <1>5, <1>6, <2>5, <2>7, <2>8, <3>1 DEF FundedIn
  <2>10. CASE t # token
    <3>1. m \notin SettledIn(t) /\ HeldOf'[t] = HeldOf[t]
      BY <1>2, <2>1, <2>6, <2>10 DEF SettledIn
    <3> QED
      BY <2>7, <2>8, <3>1 DEF FundedIn
  <2> QED
    BY <2>9, <2>10
<1>10. ASSUME NEW p \in Users, NEW token \in DepositTokens, NEW amount \in Nat,
              NEW change \in Int, AssertVersion, UNCHANGED StakesIn,
              amount = collateral[p] + change,
              collateral' = [collateral EXCEPT ![p] = amount],
              HeldOf' = [HeldOf EXCEPT ![token] = @ + change]
       PROVE  FundedIn(t)'
  <2>1. token \in Tokens /\ collateral[p] \in Nat
    BY <1>1, ConstantsAssumption
  <2>2. SumFunctionOnSet(Owed, SettledIn(t))' = SumFunctionOnSet(Owed, SettledIn(t))
    BY <1>10 DEF Owed
  <2>3. SumFunction(collateral') = SumFunction(collateral) + amount - collateral[p]
    BY <1>1, <1>10, CollateralChanges
  <2>4. SumFunction(collateral') = SumFunction(collateral) + change
    BY <1>5, <1>10, <2>1, <2>3
  <2>5. CASE t # token
    <3>1. DepositTokens # {t}
      BY <2>5
    <3>2. CollateralIn(t)' = 0 /\ CollateralIn(t) = 0
      BY <3>1 DEF CollateralIn
    <3>3. HeldOf'[t] = HeldOf[t]
      BY <1>2, <1>10, <2>5
    <3> QED
      BY <2>2, <3>2, <3>3 DEF FundedIn
  <2>6. CASE t = token /\ DepositTokens = {t}
    <3>1. CollateralIn(t) = SumFunction(collateral) /\ CollateralIn(t)' = SumFunction(collateral')
      BY <2>6 DEF CollateralIn
    <3>2. HeldOf'[t] = HeldOf[t] + change
      BY <1>2, <1>10, <2>6
    <3> QED
      BY <1>2, <1>5, <2>2, <2>4, <3>1, <3>2 DEF FundedIn
  <2>7. CASE t = token /\ DepositTokens # {t}
    <3>1. CollateralIn(t)' = 0
      BY <2>7 DEF CollateralIn
    <3>2. SumFunctionOnSet(Owed, SettledIn(t)) = 0
      <4>1. PICK k \in MarketContracts : TokenOf = CollateralToken[k]
        BY <1>10 DEF TypeOK, AdminTypeOK, ResolutionConfig, AssertVersion, TokenOf
      <4>2. \A m \in Markets : TokenOf[m] # t
        BY <2>7, <4>1 DEF CollateralKeptApart
      <4>3. SettledIn(t) = {}
        BY <4>2 DEF SettledIn
      <4> QED
        BY <4>3, SumOfNothing
    <3> QED
      BY <1>2, <2>2, <3>1, <3>2 DEF FundedIn
  <2> QED
    BY <2>5, <2>6, <2>7
<1>11. ASSUME NEW p \in Users, NEW token \in DepositTokens, Forfeiting(p, token)
       PROVE  FundedIn(t)'
  <2>1. token \in Tokens /\ collateral[p] \in Nat
    BY <1>1, ConstantsAssumption
  <2>2. PICK change \in Int : change = 0 - collateral[p]
    BY <2>1
  <2>3. HeldOf[token] - collateral[p] = HeldOf[token] + change /\ 0 = collateral[p] + change
    BY <1>2, <2>1, <2>2
  <2>4. HeldOf' = [HeldOf EXCEPT ![token] = @ + change]
    BY <1>11, <2>3 DEF Forfeiting
  <2>5. /\ collateral' = [collateral EXCEPT ![p] = 0] /\ UNCHANGED StakesIn
        /\ AssertVersion /\ 0 \in Nat
    BY <1>11 DEF Forfeiting
  <2> QED
    BY <1>10, <2>3, <2>4, <2>5
<1>12. ASSUME NEW p \in Users, NEW token \in DepositTokens, NEW amount \in Nat,
              Depositing(p, token, amount)
       PROVE  FundedIn(t)'
  <2>1. collateral[p] \in Nat
    BY <1>1
  <2>2. PICK sum \in Nat : sum = collateral[p] + amount
    BY <2>1
  <2>3. PICK change \in Int : change = amount
    OBVIOUS
  <2>4. /\ AssertVersion
        /\ collateral' = [collateral EXCEPT ![p] = sum] /\ UNCHANGED StakesIn
        /\ HeldOf' = [HeldOf EXCEPT ![token] = @ + change]
        /\ sum = collateral[p] + change
    BY <1>12, <2>2, <2>3 DEF Depositing
  <2> QED
    BY <1>10, <2>4
<1> QED
  BY <1>7, <1>8, <1>9, <1>11, <1>12, MoneyMoves

\* Every bond of every live dispute is backed by tokens this contract holds, in the
\* token it will be settled in, and the collateral by its holdings, if the markets
\* keep their token and collateral in a market's token is in no other one.
THEOREM BondsAlwaysBacked ==
  ASSUME MarketsKeepTheirToken, CollateralKeptApart
  PROVE  Spec => []BondsBacked
<1> DEFINE AllFunded == \A t \in Tokens : FundedIn(t)
<1>1. TypeOK /\ Init => AllFunded
  <2> SUFFICES ASSUME TypeOK, Init, NEW t \in Tokens PROVE FundedIn(t)
    OBVIOUS
  <2>1. SumFunctionOnSet(Owed, SettledIn(t)) = 0 /\ CollateralIn(t) = 0
    BY NothingOwedAtFirst DEF SettledIn, CollateralIn
  <2>2. HeldOf[t] \in Nat
    BY HeldTyped DEF TypeOK
  <2> QED
    BY <2>1, <2>2 DEF FundedIn
<1>2. TypeOK /\ TypeOK' /\ DisputesConsistent /\ AllFunded /\ [Next]_vars => AllFunded'
  BY FundedInPreserved
<1>3. TypeOK /\ DisputesConsistent /\ AllFunded =>
        (AssertVersion => \A t \in Tokens : balance[t][This] >= Locked(t))
  <2> SUFFICES ASSUME TypeOK, DisputesConsistent, AllFunded, AssertVersion, NEW t \in Tokens
               PROVE  balance[t][This] >= Locked(t)
    OBVIOUS
  <2>1. SettledIn(t) = {m \in Markets : GetCollateralToken(m) = t}
    BY TokenIsKept DEF SettledIn
  <2>2. Locked(t) = SumFunctionOnSet(Owed, SettledIn(t))
    BY <2>1, LockedIsOwed DEF TypeOK, DisputesConsistent
  <2>3. HeldOf[t] = balance[t][This] /\ HeldOf[t] \in Nat
    BY HeldTyped DEF TypeOK, HeldOf
  <2>4. SumFunctionOnSet(Owed, SettledIn(t)) \in Nat /\ CollateralIn(t) \in Nat
    BY OwedTyped DEF TypeOK, DisputesConsistent, MoneyTypeOK
  <2> QED
    BY <2>2, <2>3, <2>4 DEF FundedIn
<1> HIDE DEF AllFunded
<1>4. Spec => [](AssertVersion => \A t \in Tokens : balance[t][This] >= Locked(t))
  BY <1>1, <1>2, <1>3, Consistent, PTL DEF Spec
<1>5. (/\ AssertVersion => \A t \in Tokens : balance[t][This] >= Locked(t)
       /\ AssertVersion =>
            Holdings >= SumFunction([t \in Tokens |-> Locked(t)]) + SumFunction(collateral))
        => BondsBacked
  BY DEF BondsBacked
<1> QED
  BY <1>4, <1>5, HoldingsCoverDebts, PTL

-------------------------------------------------------------------------------
\* Bags.  The stakes open in a dispute are those of the places D of f: one copy for each
\* place.
BagOver(f, D) == [x \in {f[i] : i \in D} |-> Cardinality({i \in D : f[i] = x})]

\* The copies of x, and those with one place more.
Copies(f, D, x) == Cardinality({i \in D : f[i] = x})

Counted(f, D, j, x) ==
  /\ Copies(f, D, x) \in Nat
  /\ Copies(f, D, x) = 0 <=> x \notin {f[i] : i \in D}
  /\ Copies(f, D \cup {j}, x) = IF f[j] = x THEN Copies(f, D, x) + 1 ELSE Copies(f, D, x)

LEMMA OnePlaceMore ==
  ASSUME NEW f, NEW D, IsFiniteSet(D), NEW j, j \notin D, NEW x
  PROVE  Counted(f, D, j, x)
<1> DEFINE P == {i \in D : f[i] = x}
<1>1. IsFiniteSet(P) /\ j \notin P
  <2>1. P \subseteq D
    OBVIOUS
  <2> HIDE DEF P
  <2>2. IsFiniteSet(P)
    BY <2>1, FS_Subset
  <2> QED
    BY <2>1, <2>2
<1>2. {i \in D \cup {j} : f[i] = x} = IF f[j] = x THEN P \cup {j} ELSE P
  OBVIOUS
<1>3. P = {} <=> x \notin {f[i] : i \in D}
  OBVIOUS
<1> HIDE DEF P
<1>4. Cardinality(P \cup {j}) = Cardinality(P) + 1
  BY <1>1, FS_AddElement
<1>5. Cardinality(P) \in Nat /\ (Cardinality(P) = 0 <=> P = {})
  BY <1>1, FS_CardinalityType, FS_EmptySet
<1>6. Cardinality({i \in D \cup {j} : f[i] = x})
        = IF f[j] = x THEN Cardinality(P) + 1 ELSE Cardinality(P)
  BY <1>2, <1>4
<1> QED
  BY <1>3, <1>5, <1>6 DEF P, Counted, Copies

Grows(f, D, j) == BagOver(f, D) (+) SetToBag({f[j]}) = BagOver(f, D \cup {j})

Shrinks(f, D, j) == BagOver(f, D \cup {j}) (-) SetToBag({f[j]}) = BagOver(f, D)

LEMMA BagGrows ==
  ASSUME NEW f, NEW D, IsFiniteSet(D), NEW j, j \notin D
  PROVE  Grows(f, D, j) /\ Shrinks(f, D, j)
<1> DEFINE E == D \cup {j}
           n(x) == Copies(f, D, x)
           m(x) == Copies(f, E, x)
           X == {f[i] : i \in D}
           Y == {f[i] : i \in E}
<1>1. ASSUME NEW x
      PROVE  /\ n(x) \in Nat /\ (n(x) = 0 <=> x \notin X)
             /\ m(x) = IF f[j] = x THEN n(x) + 1 ELSE n(x)
  <2>1. Counted(f, D, j, x)
    BY OnePlaceMore
  <2> QED
    BY <2>1 DEF Counted
<1>2. Y = X \cup {f[j]}
  OBVIOUS
<1>3. BagOver(f, D) = [x \in X |-> n(x)] /\ BagOver(f, E) = [x \in Y |-> m(x)]
  BY DEF BagOver, Copies
<1> HIDE DEF n, m, X, Y, E
<1>4. [x \in X |-> n(x)] (+) SetToBag({f[j]}) = [x \in Y |-> m(x)]
  <2> DEFINE A == [x \in X |-> n(x)] (+) SetToBag({f[j]})
  <2>1. A = [x \in X \cup {f[j]} |-> (IF x \in X THEN [y \in X |-> n(y)][x] ELSE 0)
                                  + (IF x \in {f[j]} THEN [y \in {f[j]} |-> 1][x] ELSE 0)]
    BY DEF (+), SetToBag
  <2>2. ASSUME NEW x \in Y
        PROVE  (IF x \in X THEN [y \in X |-> n(y)][x] ELSE 0)
                 + (IF x \in {f[j]} THEN [y \in {f[j]} |-> 1][x] ELSE 0) = m(x)
    <3>1. (IF x \in X THEN [y \in X |-> n(y)][x] ELSE 0) = n(x)
      <4>1. n(x) \in Nat /\ (n(x) = 0 <=> x \notin X)
        BY <1>1
      <4> QED
        BY <4>1
    <3>2. (IF x \in {f[j]} THEN [y \in {f[j]} |-> 1][x] ELSE 0) = IF f[j] = x THEN 1 ELSE 0
      OBVIOUS
    <3> QED
      BY <1>1, <3>1, <3>2
  <2> HIDE DEF A
  <2>3. A = [x \in Y |-> m(x)]
    BY <1>2, <2>1, <2>2
  <2> QED
    BY <2>3 DEF A
<1>5. [x \in Y |-> m(x)] (-) SetToBag({f[j]}) = [x \in X |-> n(x)]
  <2> DEFINE b == [x \in Y |-> m(x)]
             B == [x \in Y |-> IF x = f[j] THEN m(x) - 1 ELSE m(x)]
  <2>1. ASSUME NEW x \in Y PROVE B[x] = n(x)
    BY <1>1, <2>1
  <2>2. {x \in Y : B[x] > 0} = X
    <3>1. \A x \in Y : B[x] = n(x) /\ n(x) \in Nat /\ (n(x) = 0 <=> x \notin X)
      BY <1>1, <2>1
    <3> HIDE DEF B
    <3> QED
      BY <1>2, <3>1
  <2>3. b (-) SetToBag({f[j]}) = [x \in {d \in Y : B[d] > 0} |-> B[x]]
    <3>1. DOMAIN b = Y /\ DOMAIN SetToBag({f[j]}) = {f[j]} /\ SetToBag({f[j]})[f[j]] = 1
      BY DEF SetToBag
    <3>2. \A x \in Y : b[x] = m(x)
      OBVIOUS
    <3> HIDE DEF b
    <3>3. [x \in DOMAIN b |-> IF x \in DOMAIN SetToBag({f[j]}) THEN b[x] - SetToBag({f[j]})[x]
                              ELSE b[x]] = B
      BY <3>1, <3>2
    <3>4. DOMAIN B = Y
      OBVIOUS
    <3> HIDE DEF B
    <3> QED
      BY <3>3, <3>4, Zenon DEF (-)
  <2> HIDE DEF B, b
  <2>4. [x \in {d \in Y : B[d] > 0} |-> B[x]] = [x \in X |-> n(x)]
    BY <1>2, <2>1, <2>2
  <2> QED
    BY <2>3, <2>4 DEF b
<1> QED
  BY <1>3, <1>4, <1>5 DEF E, Grows, Shrinks

LEMMA BagOfNone == ASSUME NEW f PROVE BagOver(f, {}) = EmptyBag
BY DEF BagOver, EmptyBag, SetToBag

-------------------------------------------------------------------------------
\* Folds.

\* One turn of the fold: what the last of the events T makes of the ones before it.
Turn(i, s, g, T) == IF T = {} THEN i ELSE Heard(g[T \ {Max(T)}], s[Max(T)])

HeardInTurn(i, s, g, n) == g = [T \in SUBSET (1 .. n) |-> Turn(i, s, g, T)]

LEMMA FoldInTurn ==
  ASSUME NEW i, NEW s, NEW n, DOMAIN s = 1 .. n, \E g : HeardInTurn(i, s, g, n)
  PROVE  \E g : HeardInTurn(i, s, g, n) /\ FoldLeft(Heard, i, s) = g[1 .. n]
<1> DEFINE h == CHOOSE g : g = [T \in SUBSET DOMAIN s |-> IF T = {} THEN i
                 ELSE LET x == Max(T) IN Heard(g[T \ {x}], s[x])]
<1>1. FoldLeft(Heard, i, s) = h[DOMAIN s]
  BY Zenon DEF FoldLeft, MapThenFoldSet
<1>2. h = [T \in SUBSET DOMAIN s |-> IF T = {} THEN i
                 ELSE LET x == Max(T) IN Heard(h[T \ {x}], s[x])]
  BY Zenon DEF HeardInTurn, Turn
<1>3. HeardInTurn(i, s, h, n)
  BY <1>2, Zenon DEF HeardInTurn, Turn
<1> QED
  BY <1>1, <1>3, Zenon

\* The last of finitely many events.
LEMMA LastOf ==
  ASSUME NEW T, NEW k \in Nat, T \subseteq 1 .. k, k \in T
  PROVE  Max(T) = k
<1>1. \A y \in T : k >= y /\ y \in Int
  OBVIOUS
<1>2. \E x \in T : \A y \in T : x >= y
  BY <1>1
<1>3. Max(T) \in T /\ \A y \in T : Max(T) >= y
  BY <1>2 DEF Max
<1>4. Max(T) >= k /\ k >= Max(T) /\ Max(T) \in Int
  BY <1>1, <1>3
<1> QED
  BY <1>4

\* Events of any number can be heard, last one outermost.
LEMMA TurnsExist ==
  ASSUME NEW i, NEW s, NEW n \in Nat
  PROVE  \E g : HeardInTurn(i, s, g, n)
<1> DEFINE Q == {k \in 0 .. n : \E g : HeardInTurn(i, s, g, k)}
<1>1. 0 \in Q
  <2> DEFINE g == [T \in SUBSET (1 .. 0) |-> i]
  <2>1. HeardInTurn(i, s, g, 0)
    BY DEF HeardInTurn, Turn
  <2>2. 0 \in 0 .. n
    OBVIOUS
  <2> HIDE DEF g
  <2> QED
    BY <2>1, <2>2
<1>2. ASSUME NEW k \in 0 .. n, k < n, k \in Q PROVE k + 1 \in Q
  <2>1. PICK g : HeardInTurn(i, s, g, k)
    BY <1>2
  <2> DEFINE old == SUBSET (1 .. k)
             all == SUBSET (1 .. k + 1)
             h == [T \in all |-> IF k + 1 \in T THEN Heard(g[T \ {k + 1}], s[k + 1]) ELSE g[T]]
  <2>2. k \in Nat /\ k + 1 \in Nat /\ k + 1 \in 0 .. n /\ k + 1 \notin 1 .. k
    BY <1>2
  <2>3. \A T \in all : T \ {k + 1} \in old /\ (k + 1 \notin T => T \in old)
    BY <2>2
  <2>4. old \subseteq all /\ \A T \in old : k + 1 \notin T
    BY <2>2
  <2>5. \A T \in old : g[T] = Turn(i, s, g, T)
    BY <2>1 DEF HeardInTurn
  <2>6. \A T \in old : h[T] = g[T]
    BY <2>4
  <2>7. ASSUME NEW T \in all PROVE h[T] = Turn(i, s, h, T)
    <3>1. CASE k + 1 \in T
      <4>1. Max(T) = k + 1
        BY <2>2, <3>1, LastOf
      <4>2. h[T] = Heard(g[T \ {k + 1}], s[k + 1])
        BY <3>1
      <4>3. h[T \ {k + 1}] = g[T \ {k + 1}] /\ T # {}
        BY <2>3, <2>6, <3>1
      <4> HIDE DEF h
      <4> QED
        BY <4>1, <4>2, <4>3, Zenon DEF Turn
    <3>2. CASE k + 1 \notin T
      <4>1. T \in old /\ h[T] = g[T]
        BY <2>3, <2>6, <3>2
      <4>2. g[T] = Turn(i, s, g, T)
        BY <2>5, <4>1
      <4>3. T \ {Max(T)} \in old
        BY <4>1
      <4>4. h[T \ {Max(T)}] = g[T \ {Max(T)}]
        BY <2>6, <4>3
      <4> HIDE DEF h, old
      <4> QED
        BY <4>1, <4>2, <4>4, Zenon DEF Turn
    <3> QED
      BY <3>1, <3>2
  <2>8. HeardInTurn(i, s, h, k + 1)
    <3>1. h = [T \in all |-> h[T]]
      OBVIOUS
    <3> HIDE DEF h
    <3>2. h = [T \in all |-> Turn(i, s, h, T)]
      BY <2>7, <3>1, Zenon
    <3> QED
      BY <3>2, Zenon DEF HeardInTurn
  <2> HIDE DEF h
  <2> QED
    BY <2>2, <2>8
<1>3. n \in Q
  <2> HIDE DEF Q
  <2>1. n \in 0 .. n
    OBVIOUS
  <2> QED
    BY <1>1, <1>2, <2>1, CountingUp, Zenon
<1> QED
  BY <1>3

\* What is believed after each of n events.
HeardOneByOne(g, i, s, n) == g[0] = i /\ \A k \in 1 .. n : g[k] = Heard(g[k - 1], s[k])

\* The events of a call are heard one after the other.
LEMMA HeardInOrder ==
  ASSUME NEW i, NEW s, NEW n \in Nat, DOMAIN s = 1 .. n
  PROVE  \E g : HeardOneByOne(g, i, s, n) /\ FoldLeft(Heard, i, s) = g[n]
<1>1. PICK h : HeardInTurn(i, s, h, n) /\ FoldLeft(Heard, i, s) = h[1 .. n]
  BY TurnsExist, FoldInTurn
<1> DEFINE g == [k \in 0 .. n |-> h[1 .. k]]
<1>2. \A T \in SUBSET (1 .. n) : h[T] = Turn(i, s, h, T)
  BY <1>1 DEF HeardInTurn
<1>3. g[0] = i
  <2>1. 1 .. 0 = {} /\ {} \in SUBSET (1 .. n) /\ 0 \in 0 .. n
    OBVIOUS
  <2>2. g[0] = h[{}]
    BY <2>1
  <2>3. h[{}] = Turn(i, s, h, {})
    BY <1>2, <2>1
  <2> HIDE DEF g
  <2> QED
    BY <2>2, <2>3, Zenon DEF Turn
<1>4. ASSUME NEW k \in 1 .. n PROVE g[k] = Heard(g[k - 1], s[k])
  <2>1. /\ k \in Nat /\ k \in 0 .. n /\ k - 1 \in 0 .. n /\ k \in 1 .. k
        /\ (1 .. k) \ {k} = 1 .. (k - 1) /\ 1 .. k \in SUBSET (1 .. n)
    OBVIOUS
  <2>2. Max(1 .. k) = k
    BY <2>1, LastOf
  <2>3. h[1 .. k] = Heard(h[1 .. (k - 1)], s[k])
    <3>1. h[1 .. k] = Turn(i, s, h, 1 .. k) /\ 1 .. k # {}
      BY <1>2, <2>1
    <3> QED
      BY <2>1, <2>2, <3>1, Zenon DEF Turn
  <2> QED
    BY <2>1, <2>3
<1>5. g[n] = h[1 .. n]
  OBVIOUS
<1> HIDE DEF g
<1>6. HeardOneByOne(g, i, s, n)
  BY <1>3, <1>4 DEF HeardOneByOne
<1> QED
  BY <1>1, <1>5, <1>6

-------------------------------------------------------------------------------
\* What the reader makes of each event.

\* The entry of a dispute, and the index.
Entry(cand, open) ==
  [market_id |-> cand.market_id, outcome |-> cand.outcome, proposer |-> cand.proposer,
   signature_expiry |-> cand.signature_expiry, challenge_deadline |-> cand.challenge_deadline,
   bond_amount |-> cand.bond_amount, appeal_round |-> cand.appeal_round,
   status |-> cand.status, finalized_at |-> cand.finalized_at, open |-> open]

IsIndex(i) == DOMAIN i = {"inForce", "announced", "paused", "mode", "disputes", "held"}

SameDisputes(i, j) == j.disputes = i.disputes /\ j.held = i.held
SameAddresses(i, j) == j.inForce = i.inForce /\ j.announced = i.announced
SameHalt(i, j) == j.paused = i.paused /\ j.mode = i.mode

\* One dispute has a new entry, and the contract holds a new amount.
TellsDispute(i, j, c, entry, held) ==
  /\ IsIndex(j) /\ SameAddresses(i, j) /\ SameHalt(i, j)
  /\ j.disputes = [i.disputes EXCEPT ![c] = entry]
  /\ j.held = held

\* The last of two entries of a dispute stands.
LEMMA ToldAgain ==
  ASSUME NEW i, NEW j, NEW k, NEW c, NEW a, NEW b, NEW x, NEW y,
         TellsDispute(i, j, c, a, x), TellsDispute(j, k, c, b, y)
  PROVE  TellsDispute(i, k, c, b, y)
<1>1. [[i.disputes EXCEPT ![c] = a] EXCEPT ![c] = b] = [i.disputes EXCEPT ![c] = b]
  OBVIOUS
<1> QED
  BY <1>1 DEF TellsDispute, SameAddresses, SameHalt

LEMMA EntryTold ==
  ASSUME NEW i, NEW j, NEW c, NEW a, NEW x, c \in DOMAIN i.disputes, TellsDispute(i, j, c, a, x)
  PROVE  c \in DOMAIN j.disputes /\ j.disputes[c] = a /\ j.held = x /\ IsIndex(j)
BY DEF TellsDispute

\* A bond struck off.
LEMMA BondStruck ==
  ASSUME NEW i, IsIndex(i), NEW c \in DOMAIN i.disputes, NEW cand, NEW open,
         i.disputes[c] = Entry(cand, open), NEW owner, NEW bond, NEW paid
  PROVE  TellsDispute(i, Struck(i, c, owner, bond, paid), c,
                      Entry(cand, open (-) Stake(owner, bond)), i.held - paid)
<1> DEFINE rest == open (-) Stake(owner, bond)
<1>1. Entry(cand, open).open = open
  BY DEF Entry
<1>2. [Entry(cand, open) EXCEPT !.open = rest] = Entry(cand, rest)
  <2> HIDE DEF rest
  <2> QED
    BY DEF Entry
<1>3. Struck(i, c, owner, bond, paid)
        = [i EXCEPT !.disputes = [i.disputes EXCEPT ![c] = [i.disputes[c] EXCEPT !.open = rest]],
                    !.held = i.held - paid]
  BY <1>1 DEF Struck, IsIndex
<1> HIDE DEF rest
<1>4. Struck(i, c, owner, bond, paid)
        = [i EXCEPT !.disputes = [i.disputes EXCEPT ![c] = Entry(cand, rest)],
                    !.held = i.held - paid]
  BY <1>2, <1>3
<1> QED
  BY <1>4 DEF TellsDispute, IsIndex, SameAddresses, SameHalt, rest

\* A bond posted.
LEMMA BondPosted ==
  ASSUME NEW i, IsIndex(i), NEW c \in DOMAIN i.disputes, NEW cand, NEW open,
         i.disputes[c] = Entry(cand, open), NEW owner, NEW bond
  PROVE  TellsDispute(i, Posted(i, c, owner, bond), c,
                      Entry(cand, open (+) Stake(owner, bond)), i.held + bond)
<1> DEFINE more == open (+) Stake(owner, bond)
<1>1. Entry(cand, open).open = open
  BY DEF Entry
<1>2. [Entry(cand, open) EXCEPT !.open = more] = Entry(cand, more)
  <2> HIDE DEF more
  <2> QED
    BY DEF Entry
<1>3. Posted(i, c, owner, bond)
        = [i EXCEPT !.disputes = [i.disputes EXCEPT ![c] = [i.disputes[c] EXCEPT !.open = more]],
                    !.held = i.held + bond]
  BY <1>1 DEF Posted, IsIndex
<1> HIDE DEF more
<1>4. Posted(i, c, owner, bond)
        = [i EXCEPT !.disputes = [i.disputes EXCEPT ![c] = Entry(cand, more)],
                    !.held = i.held + bond]
  BY <1>2, <1>3
<1> QED
  BY <1>4 DEF TellsDispute, IsIndex, SameAddresses, SameHalt, more

\* The status of a dispute, and the time at which it ended.
LEMMA DisputeConcluded ==
  ASSUME NEW i, IsIndex(i), NEW c \in DOMAIN i.disputes, NEW old, NEW new, NEW open,
         i.disputes[c] = Entry(old, open), NEW e, NEW status,
         e.candidate_id = c, new.status = status, new.finalized_at = e.at,
         new.market_id = old.market_id, new.outcome = old.outcome, new.proposer = old.proposer,
         new.signature_expiry = old.signature_expiry, new.bond_amount = old.bond_amount,
         new.challenge_deadline = old.challenge_deadline, new.appeal_round = old.appeal_round
  PROVE  TellsDispute(i, Concluded(i, e, status), c, Entry(new, open), i.held)
<1> DEFINE ended == [Entry(old, open) EXCEPT !.status = status]
<1>1. [ended EXCEPT !.finalized_at = e.at] = Entry(new, open)
  <2>1. ended = [market_id |-> new.market_id, outcome |-> new.outcome, proposer |-> new.proposer,
                 signature_expiry |-> new.signature_expiry,
                 challenge_deadline |-> new.challenge_deadline,
                 bond_amount |-> new.bond_amount, appeal_round |-> new.appeal_round,
                 status |-> new.status, finalized_at |-> old.finalized_at, open |-> open]
    BY DEF Entry
  <2> HIDE DEF ended
  <2> QED
    BY <2>1 DEF Entry
<1>2. Concluded(i, e, status)
        = [i EXCEPT !.disputes = [i.disputes EXCEPT ![c] =
             [[i.disputes[c] EXCEPT !.status = status] EXCEPT !.finalized_at = e.at]]]
  BY DEF Concluded, IsIndex
<1>3. Concluded(i, e, status) = [i EXCEPT !.disputes = [i.disputes EXCEPT ![c] = Entry(new, open)]]
  BY <1>1, <1>2
<1> QED
  BY <1>3 DEF TellsDispute, IsIndex, SameAddresses, SameHalt

\* A slash strikes a bond off, and what is left of it stays.
LEMMA SlashHeard ==
  ASSUME NEW i, IsIndex(i), NEW c \in DOMAIN i.disputes, NEW cand, NEW open,
         i.disputes[c] = Entry(cand, open), NEW loser, NEW winner, NEW total
  PROVE  TellsDispute(i, Heard(i, BondSlashed(c, loser, winner, total)), c,
                      Entry(cand, open (-) Stake(loser, total)),
                      i.held - PaidOf(i, SplitBond(total)))
<1> DEFINE paid == PaidOf(i, SplitBond(total))
<1>1. Heard(i, BondSlashed(c, loser, winner, total)) = Struck(i, c, loser, total, paid)
  BY DEF Heard, BondSlashed
<1>2. TellsDispute(i, Struck(i, c, loser, total, paid), c,
                   Entry(cand, open (-) Stake(loser, total)), i.held - paid)
  <2> HIDE DEF paid
  <2> QED
    BY BondStruck
<1> HIDE DEF paid
<1>3. TellsDispute(i, Heard(i, BondSlashed(c, loser, winner, total)), c,
                   Entry(cand, open (-) Stake(loser, total)), i.held - paid)
  BY <1>1, <1>2
<1> QED
  BY <1>3 DEF paid

\* A refund strikes it off whole.
LEMMA RefundHeard ==
  ASSUME NEW i, IsIndex(i), NEW c \in DOMAIN i.disputes, NEW cand, NEW open,
         i.disputes[c] = Entry(cand, open), NEW recipient, NEW amount
  PROVE  TellsDispute(i, Heard(i, BondRefunded(c, recipient, amount)), c,
                      Entry(cand, open (-) Stake(recipient, amount)), i.held - amount)
<1>1. Heard(i, BondRefunded(c, recipient, amount)) = Struck(i, c, recipient, amount, amount)
  BY DEF Heard, BondRefunded
<1> QED
  BY <1>1, BondStruck

\* A candidate whose terms are those of another.
SameTerms(new, old) ==
  /\ new.market_id = old.market_id /\ new.outcome = old.outcome
  /\ new.proposer = old.proposer /\ new.signature_expiry = old.signature_expiry
  /\ new.bond_amount = old.bond_amount /\ new.challenge_deadline = old.challenge_deadline
  /\ new.appeal_round = old.appeal_round

\* The end of a dispute in which the outcome stands gives the proposer its bond back.
LEMMA UpheldHeard ==
  ASSUME NEW i, IsIndex(i), NEW c \in DOMAIN i.disputes, NEW old, NEW new, NEW open,
         i.disputes[c] = Entry(old, open), SameTerms(new, old), new.status = "Finalized", NEW e,
         e \in {CandidateFinalized(c, new), CandidateArbitrated(c, new.outcome)},
         new.finalized_at = e.at
  PROVE  TellsDispute(i, Heard(i, e), c,
                      Entry(new, open (-) Stake(old.proposer, old.bond_amount)),
                      i.held - old.bond_amount)
<1> DEFINE k == Concluded(i, e, "Finalized")
           j == [k EXCEPT !.disputes[e.candidate_id].outcome = e.outcome]
<1>1. /\ e.topic \in {"candidate_finalized", "candidate_arbitrated"}
      /\ e.candidate_id = c /\ e.outcome = new.outcome
  BY DEF CandidateFinalized, CandidateArbitrated
<1>2. Heard(i, e) = Struck(j, c, i.disputes[c].proposer, i.disputes[c].bond_amount,
                           i.disputes[c].bond_amount)
  <2> HIDE DEF j
  <2>1. Heard(i, e) = LET d == i.disputes[e.candidate_id]
                      IN  Struck(j, e.candidate_id, d.proposer, d.bond_amount, d.bond_amount)
    BY <1>1 DEF Heard, j
  <2> QED
    BY <1>1, <2>1
<1>3. TellsDispute(i, k, c, Entry(new, open), i.held)
  BY <1>1, DisputeConcluded DEF SameTerms
<1> HIDE DEF k
<1>4. c \in DOMAIN k.disputes /\ k.disputes[c] = Entry(new, open) /\ IsIndex(k)
  BY <1>3, EntryTold
<1>5. j = k
  <2>1. Entry(new, open) = [Entry(new, open) EXCEPT !.outcome = new.outcome]
    BY DEF Entry
  <2>2. j = [k EXCEPT !.disputes = [k.disputes EXCEPT ![c] =
                        [k.disputes[c] EXCEPT !.outcome = new.outcome]]]
    BY <1>1, <1>4 DEF IsIndex
  <2>3. k.disputes = [k.disputes EXCEPT ![c] = Entry(new, open)]
    <3>1. k.disputes = [i.disputes EXCEPT ![c] = Entry(new, open)]
      BY <1>3 DEF TellsDispute
    <3> QED
      BY <3>1
  <2>4. j = [k EXCEPT !.disputes = k.disputes]
    BY <1>4, <2>1, <2>2, <2>3
  <2>5. k = Concluded(i, e, "Finalized")
    BY DEF k
  <2> HIDE DEF j
  <2>6. k = [k EXCEPT !.held = k.held]
    BY <2>5 DEF Concluded
  <2> QED
    BY <2>4, <2>6
<1>6. i.disputes[c].proposer = old.proposer /\ i.disputes[c].bond_amount = old.bond_amount
  BY DEF Entry
<1>7. TellsDispute(k, Struck(k, c, old.proposer, old.bond_amount, old.bond_amount), c,
                   Entry(new, open (-) Stake(old.proposer, old.bond_amount)),
                   k.held - old.bond_amount)
  BY <1>4, BondStruck
<1>8. k.held = i.held
  BY <1>3 DEF TellsDispute
<1> HIDE DEF j
<1>9. Heard(i, e) = Struck(k, c, old.proposer, old.bond_amount, old.bond_amount)
  BY <1>2, <1>5, <1>6
<1> QED
  BY <1>3, <1>7, <1>8, <1>9, ToldAgain

\* The end of a dispute in which it does not.
LEMMA VoidedHeard ==
  ASSUME NEW i, IsIndex(i), NEW c \in DOMAIN i.disputes, NEW old, NEW new, NEW open,
         i.disputes[c] = Entry(old, open), SameTerms(new, old), new.status = "Voided",
         new.finalized_at = now
  PROVE  TellsDispute(i, Heard(i, MarketVoided(c)), c, Entry(new, open), i.held)
<1> DEFINE e == MarketVoided(c)
<1>1. e.topic = "market_voided" /\ e.candidate_id = c /\ e.at = now
  BY DEF MarketVoided
<1> HIDE DEF e
<1>2. Heard(i, e) = Concluded(i, e, "Voided")
  BY <1>1 DEF Heard
<1>3. TellsDispute(i, Concluded(i, e, "Voided"), c, Entry(new, open), i.held)
  BY <1>1, DisputeConcluded DEF SameTerms
<1> QED
  BY <1>2, <1>3 DEF e

\* A challenge posts a bond and leaves the dispute challenged.
LEMMA ChallengeHeard ==
  ASSUME NEW i, IsIndex(i), NEW c \in DOMAIN i.disputes, NEW old, NEW new, NEW open,
         i.disputes[c] = Entry(old, open), SameTerms(new, old), new.status = "Challenged",
         new.finalized_at = old.finalized_at, NEW u, NEW b
  PROVE  TellsDispute(i, Heard(i, CandidateChallenged(c, u, b)), c,
                      Entry(new, open (+) Stake(u, b)), i.held + b)
<1> DEFINE e == CandidateChallenged(c, u, b)
           k == Posted(i, c, u, b)
           more == open (+) Stake(u, b)
<1>1. /\ e.topic = "candidate_challenged" /\ e.candidate_id = c
      /\ e.challenger = u /\ e.bond_amount = b
  BY DEF CandidateChallenged
<1> HIDE DEF e
<1>2. Heard(i, e) = [k EXCEPT !.disputes[c].status = "Challenged"]
  BY <1>1 DEF Heard
<1>3. TellsDispute(i, k, c, Entry(old, more), i.held + b)
  BY BondPosted
<1> HIDE DEF k, more
<1>4. c \in DOMAIN k.disputes /\ k.disputes[c] = Entry(old, more) /\ IsIndex(k)
  BY <1>3, EntryTold
<1>5. [Entry(old, more) EXCEPT !.status = "Challenged"] = Entry(new, more)
  BY DEF Entry, SameTerms
<1>6. Heard(i, e) = [k EXCEPT !.disputes = [k.disputes EXCEPT ![c] = Entry(new, more)]]
  BY <1>2, <1>4, <1>5 DEF IsIndex
<1>7. TellsDispute(k, Heard(i, e), c, Entry(new, more), k.held)
  BY <1>4, <1>6 DEF TellsDispute, IsIndex, SameAddresses, SameHalt
<1>8. TellsDispute(i, Heard(i, e), c, Entry(new, more), k.held)
  BY <1>3, <1>7, ToldAgain
<1>9. k.held = i.held + b
  BY <1>3 DEF TellsDispute
<1> QED
  BY <1>8, <1>9 DEF e, more

\* An appeal changes the terms of the dispute, and none of its bonds.
LEMMA AppealHeard ==
  ASSUME NEW i, IsIndex(i), NEW c \in DOMAIN i.disputes, NEW old, NEW new, NEW open,
         i.disputes[c] = Entry(old, open), new.status = "Proposed",
         new.market_id = old.market_id, new.proposer = old.proposer,
         new.signature_expiry = old.signature_expiry, new.bond_amount = old.bond_amount,
         new.finalized_at = old.finalized_at
  PROVE  TellsDispute(i, Heard(i, CandidateAppealed(c, new)), c, Entry(new, open), i.held)
<1> DEFINE e == CandidateAppealed(c, new)
<1>1. /\ e.topic = "candidate_appealed" /\ e.candidate_id = c /\ e.outcome = new.outcome
      /\ e.appeal_round = new.appeal_round /\ e.challenge_deadline = new.challenge_deadline
  BY DEF CandidateAppealed
<1> HIDE DEF e
<1> DEFINE turned == [Entry(old, open) EXCEPT !.outcome = new.outcome]
           moved == [turned EXCEPT !.appeal_round = new.appeal_round]
           dated == [moved EXCEPT !.challenge_deadline = new.challenge_deadline]
           put(d) == [d EXCEPT !.outcome = e.outcome, !.appeal_round = e.appeal_round,
                               !.challenge_deadline = e.challenge_deadline, !.status = "Proposed"]
<1>2. Heard(i, e) = [i EXCEPT !.disputes[c] = put(@)]
  BY <1>1 DEF Heard
<1>3. put(Entry(old, open)) = Entry(new, open)
  <2>1. turned = [market_id |-> new.market_id, outcome |-> new.outcome, proposer |-> new.proposer,
                  signature_expiry |-> new.signature_expiry,
                  challenge_deadline |-> old.challenge_deadline,
                  bond_amount |-> new.bond_amount, appeal_round |-> old.appeal_round,
                  status |-> old.status, finalized_at |-> new.finalized_at, open |-> open]
    BY DEF Entry
  <2> HIDE DEF turned
  <2>2. moved = [market_id |-> new.market_id, outcome |-> new.outcome, proposer |-> new.proposer,
                 signature_expiry |-> new.signature_expiry,
                 challenge_deadline |-> old.challenge_deadline,
                 bond_amount |-> new.bond_amount, appeal_round |-> new.appeal_round,
                 status |-> old.status, finalized_at |-> new.finalized_at, open |-> open]
    BY <2>1
  <2>3. put(Entry(old, open)) = [dated EXCEPT !.status = "Proposed"]
    BY <1>1 DEF turned
  <2> HIDE DEF moved, put
  <2>4. dated
          = [market_id |-> new.market_id, outcome |-> new.outcome, proposer |-> new.proposer,
             signature_expiry |-> new.signature_expiry,
             challenge_deadline |-> new.challenge_deadline,
             bond_amount |-> new.bond_amount, appeal_round |-> new.appeal_round,
             status |-> old.status, finalized_at |-> new.finalized_at, open |-> open]
    BY <2>2
  <2> HIDE DEF dated
  <2>5. [dated EXCEPT !.status = "Proposed"] = Entry(new, open)
    BY <2>4 DEF Entry
  <2> QED
    BY <2>3, <2>5
<1> HIDE DEF put
<1>4. Heard(i, e) = [i EXCEPT !.disputes = [i.disputes EXCEPT ![c] = Entry(new, open)]]
  BY <1>2, <1>3 DEF IsIndex
<1>5. TellsDispute(i, Heard(i, e), c, Entry(new, open), i.held)
  BY <1>4 DEF TellsDispute, IsIndex, SameAddresses, SameHalt
<1> QED
  BY <1>5 DEF e

\* A proposal adds a dispute with one bond.
WithEntry(disputes, c, entry) ==
  [d \in DOMAIN disputes \cup {c} |-> IF d # c THEN disputes[d] ELSE entry]

FirstStake(cand) == EmptyBag (+) Stake(cand.proposer, cand.bond_amount)

TellsProposal(i, j, c, cand) ==
  /\ IsIndex(j) /\ SameAddresses(i, j) /\ SameHalt(i, j)
  /\ j.disputes = WithEntry(i.disputes, c, Entry(cand, FirstStake(cand)))
  /\ j.held = i.held + cand.bond_amount

LEMMA ProposalHeard ==
  ASSUME NEW i, IsIndex(i), NEW c, c \notin DOMAIN i.disputes, NEW cand,
         cand.status = "Proposed", cand.appeal_round = 0, cand.finalized_at = 0
  PROVE  TellsProposal(i, Heard(i, CandidateProposed(c, cand)), c, cand)
<1> DEFINE e == CandidateProposed(c, cand)
           k == Opened(i, e)
           first == FirstStake(cand)
<1>1. /\ e.topic = "candidate_proposed" /\ e.candidate_id = c /\ e.market_id = cand.market_id
      /\ e.outcome = cand.outcome /\ e.proposer = cand.proposer
      /\ e.signature_expiry = cand.signature_expiry
      /\ e.challenge_deadline = cand.challenge_deadline /\ e.bond_amount = cand.bond_amount
  BY DEF CandidateProposed
<1> HIDE DEF e
<1>2. Heard(i, e) = Posted(k, c, cand.proposer, cand.bond_amount)
  BY <1>1 DEF Heard
<1>3. k = [i EXCEPT !.disputes = WithEntry(i.disputes, c, Entry(cand, EmptyBag))]
  BY <1>1 DEF Opened, Entry, WithEntry
<1>4. /\ IsIndex(k) /\ k.disputes = WithEntry(i.disputes, c, Entry(cand, EmptyBag))
      /\ k.held = i.held /\ SameAddresses(i, k) /\ SameHalt(i, k)
  <2> HIDE DEF k
  <2> QED
    BY <1>3 DEF IsIndex, SameAddresses, SameHalt
<1> HIDE DEF k
<1>5. c \in DOMAIN k.disputes /\ k.disputes[c] = Entry(cand, EmptyBag)
  BY <1>4 DEF WithEntry
<1> HIDE DEF first
<1>6. TellsDispute(k, Posted(k, c, cand.proposer, cand.bond_amount), c, Entry(cand, first),
                   k.held + cand.bond_amount)
  BY <1>4, <1>5, BondPosted DEF first, FirstStake
<1>7. [k.disputes EXCEPT ![c] = Entry(cand, first)] = WithEntry(i.disputes, c, Entry(cand, first))
  BY <1>4 DEF WithEntry
<1> QED
  BY <1>2, <1>4, <1>6, <1>7 DEF TellsProposal, TellsDispute, SameAddresses, SameHalt, e, first

\* What the administration tells.
TellsAddresses(i, j, inForce, announced) ==
  /\ IsIndex(j) /\ SameDisputes(i, j) /\ SameHalt(i, j)
  /\ j.inForce = inForce /\ j.announced = announced

TellsHalt(i, j, halted, new_mode) ==
  /\ IsIndex(j) /\ SameDisputes(i, j) /\ SameAddresses(i, j)
  /\ j.paused = halted /\ j.mode = new_mode

LEMMA AdminHeard ==
  ASSUME NEW i, IsIndex(i)
  PROVE  /\ \A f, k : TellsAddresses(i, Heard(i, ResolutionRegistered(f, k)),
              [[i.inForce EXCEPT !["factory"] = f] EXCEPT !["market_contract"] = k], i.announced)
         /\ \A r, change : TellsAddresses(i, Heard(i, AddressProposed(r, change)),
              i.inForce, [i.announced EXCEPT ![r] = change])
         /\ \A r, a : TellsAddresses(i, Heard(i, AddressSet(r, a)),
              [i.inForce EXCEPT ![r] = a], i.announced)
         /\ TellsHalt(i, Heard(i, ResolutionPaused), TRUE, i.mode)
         /\ TellsHalt(i, Heard(i, ResolutionUnpaused), FALSE, i.mode)
         /\ \A new_mode : TellsHalt(i, Heard(i, EmergencyModeChanged(new_mode)), i.paused, new_mode)
         /\ \A p, recipient, amount : Heard(i, CollateralSlashed(p, recipient, amount)) = i
<1> USE DEF Heard, IsIndex, SameDisputes, SameAddresses, SameHalt
<1>1. ASSUME NEW f, NEW k
      PROVE  TellsAddresses(i, Heard(i, ResolutionRegistered(f, k)),
              [[i.inForce EXCEPT !["factory"] = f] EXCEPT !["market_contract"] = k], i.announced)
  <2> DEFINE e == ResolutionRegistered(f, k)
  <2>1. e.topic = "resolution_registered" /\ e.factory = f /\ e.market_contract = k
    BY DEF ResolutionRegistered
  <2> HIDE DEF e
  <2>2. Heard(i, e) = [i EXCEPT !.inForce =
          [[i.inForce EXCEPT !["factory"] = f] EXCEPT !["market_contract"] = k]]
    BY <2>1
  <2> QED
    BY <2>2 DEF TellsAddresses, e
<1>2. ASSUME NEW r, NEW change
      PROVE  TellsAddresses(i, Heard(i, AddressProposed(r, change)),
              i.inForce, [i.announced EXCEPT ![r] = change])
  BY DEF TellsAddresses, AddressProposed
<1>3. ASSUME NEW r, NEW a
      PROVE  TellsAddresses(i, Heard(i, AddressSet(r, a)), [i.inForce EXCEPT ![r] = a], i.announced)
  BY DEF TellsAddresses, AddressSet
<1>4. TellsHalt(i, Heard(i, ResolutionPaused), TRUE, i.mode)
  BY DEF TellsHalt, ResolutionPaused
<1>5. TellsHalt(i, Heard(i, ResolutionUnpaused), FALSE, i.mode)
  BY DEF TellsHalt, ResolutionUnpaused
<1>6. ASSUME NEW new_mode
      PROVE  TellsHalt(i, Heard(i, EmergencyModeChanged(new_mode)), i.paused, new_mode)
  BY DEF TellsHalt, EmergencyModeChanged
<1>7. ASSUME NEW p, NEW recipient, NEW amount
      PROVE  Heard(i, CollateralSlashed(p, recipient, amount)) = i
  BY DEF CollateralSlashed
<1> QED
  BY <1>1, <1>2, <1>3, <1>4, <1>5, <1>6, <1>7

-------------------------------------------------------------------------------
\* Bonds struck off one after the other.

KnowsTreasury(i) == i.inForce["treasury"] = treasury

\* An event that strikes a stake off.
Strikes(e, c, stake, paid) ==
  \A i, cand, open :
    IsIndex(i) /\ KnowsTreasury(i) /\ c \in DOMAIN i.disputes /\ i.disputes[c] = Entry(cand, open) =>
      TellsDispute(i, Heard(i, e), c, Entry(cand, open (-) SetToBag({stake})), i.held - paid)

LEMMA Struckoff ==
  ASSUME NEW e, NEW c, NEW stake, NEW paid, Strikes(e, c, stake, paid),
         NEW i, IsIndex(i), KnowsTreasury(i), c \in DOMAIN i.disputes,
         NEW cand, NEW open, i.disputes[c] = Entry(cand, open)
  PROVE  TellsDispute(i, Heard(i, e), c, Entry(cand, open (-) SetToBag({stake})), i.held - paid)
BY DEF Strikes

\* What a split bond pays out.
PaidOut(total) == SplitBond(total).reward + SplitBond(total).burned + Cut(SplitBond(total).treasury)

LEMMA SlashStrikes ==
  ASSUME NEW c, NEW loser, NEW winner, NEW total
  PROVE  Strikes(BondSlashed(c, loser, winner, total), c, [owner |-> loser, bond |-> total],
                 PaidOut(total))
<1> SUFFICES ASSUME NEW i, NEW cand, NEW open, IsIndex(i), KnowsTreasury(i),
                    c \in DOMAIN i.disputes, i.disputes[c] = Entry(cand, open)
             PROVE  TellsDispute(i, Heard(i, BondSlashed(c, loser, winner, total)), c,
                      Entry(cand, open (-) SetToBag({[owner |-> loser, bond |-> total]})),
                      i.held - PaidOut(total))
  BY DEF Strikes
<1>1. PaidOf(i, SplitBond(total)) = PaidOut(total)
  BY DEF PaidOf, PaidOut, Cut, KnowsTreasury
<1>2. TellsDispute(i, Heard(i, BondSlashed(c, loser, winner, total)), c,
                   Entry(cand, open (-) Stake(loser, total)), i.held - PaidOf(i, SplitBond(total)))
  BY SlashHeard
<1> QED
  BY <1>1, <1>2 DEF Stake

LEMMA RefundStrikes ==
  ASSUME NEW c, NEW recipient, NEW amount
  PROVE  Strikes(BondRefunded(c, recipient, amount), c, [owner |-> recipient, bond |-> amount], amount)
BY RefundHeard DEF Strikes, Stake

\* After n of them, the stakes left are those of the other places.
LEMMA StrikesInTurn ==
  ASSUME NEW i, NEW s, NEW N, NEW g, HeardOneByOne(g, i, s, N),
         NEW from \in Nat, NEW n \in Nat, N \in Nat, from + n <= N,
         NEW c, NEW f, NEW paid,
         \A k \in 1 .. n : paid[k] \in Int /\ Strikes(s[from + k], c, f[k], paid[k]),
         NEW D, IsFiniteSet(D), \A k \in 1 .. n : k \notin D,
         NEW a, a = g[from], IsIndex(a), KnowsTreasury(a), c \in DOMAIN a.disputes, a.held \in Int,
         NEW cand, a.disputes[c] = Entry(cand, BagOver(f, D \cup (1 .. n))),
         a.disputes = [a.disputes EXCEPT ![c] = a.disputes[c]]
  PROVE  TellsDispute(a, g[from + n], c, Entry(cand, BagOver(f, D)),
                      a.held - SumFunctionOnSet(paid, 1 .. n))
<1> DEFINE rest(k) == D \cup ((k + 1) .. n)
           Q == {k \in 0 .. n : TellsDispute(a, g[from + k], c, Entry(cand, BagOver(f, rest(k))),
                                             a.held - SumFunctionOnSet(paid, 1 .. k))}
<1>1. 0 \in Q
  <2>1. rest(0) = D \cup (1 .. n) /\ 1 .. 0 = {} /\ 0 \in 0 .. n /\ from + 0 = from
    OBVIOUS
  <2>2. SumFunctionOnSet(paid, {}) = 0
    BY SumOfNothing
  <2>3. a.held - 0 = a.held
    OBVIOUS
  <2>4. TellsDispute(a, a, c, Entry(cand, BagOver(f, D \cup (1 .. n))), a.held)
    BY DEF TellsDispute, SameAddresses, SameHalt
  <2> HIDE DEF rest
  <2> QED
    BY <2>1, <2>2, <2>3, <2>4
<1>2. ASSUME NEW k \in 0 .. n, k < n, k \in Q PROVE k + 1 \in Q
  <2>1. PICK j : j = g[from + k]
    OBVIOUS
  <2>2. TellsDispute(a, j, c, Entry(cand, BagOver(f, rest(k))), a.held - SumFunctionOnSet(paid, 1 .. k))
    BY <1>2, <2>1
  <2>3. /\ rest(k) = rest(k + 1) \cup {k + 1} /\ k + 1 \notin rest(k + 1)
        /\ k + 1 \in 1 .. n /\ k + 1 \in 0 .. n /\ k \in Nat
        /\ from + (k + 1) \in 1 .. N /\ (from + (k + 1)) - 1 = from + k
    BY <1>2
  <2>4. IsFiniteSet(rest(k + 1))
    <3>1. IsFiniteSet((k + 2) .. n)
      BY <2>3, FS_Interval
    <3>2. (k + 1) + 1 = k + 2
      BY <2>3
    <3> QED
      BY <3>1, <3>2, FS_Union
  <2>5. g[from + (k + 1)] = Heard(j, s[from + (k + 1)])
    BY <2>1, <2>3 DEF HeardOneByOne
  <2>6. paid[k + 1] \in Int /\ Strikes(s[from + (k + 1)], c, f[k + 1], paid[k + 1])
    BY <2>3
  <2>7. /\ c \in DOMAIN j.disputes /\ j.disputes[c] = Entry(cand, BagOver(f, rest(k)))
        /\ IsIndex(j) /\ KnowsTreasury(j)
        /\ j.held = a.held - SumFunctionOnSet(paid, 1 .. k)
    BY <2>2, EntryTold DEF TellsDispute, KnowsTreasury, SameAddresses
  <2> HIDE DEF rest
  <2>8. TellsDispute(j, Heard(j, s[from + (k + 1)]), c,
                     Entry(cand, BagOver(f, rest(k)) (-) SetToBag({f[k + 1]})), j.held - paid[k + 1])
    BY <2>6, <2>7, Struckoff
  <2>9. BagOver(f, rest(k)) (-) SetToBag({f[k + 1]}) = BagOver(f, rest(k + 1))
    <3>1. Shrinks(f, rest(k + 1), k + 1)
      BY <2>3, <2>4, BagGrows
    <3> QED
      BY <2>3, <3>1 DEF Shrinks
  <2>10. j.held - paid[k + 1] = a.held - SumFunctionOnSet(paid, 1 .. (k + 1))
    <3> DEFINE T == 1 .. k
    <3>1. 1 .. (k + 1) = T \cup {k + 1} /\ k + 1 \notin T
      BY <2>3
    <3>0. IsFiniteSet(T)
      BY <2>3, FS_Interval
    <3>2. paid[k + 1] \in Int /\ \A x \in T : paid[x] \in Int
      BY <2>3
    <3> HIDE DEF T
    <3>3. SumFunctionOnSet(paid, T \cup {k + 1}) = SumFunctionOnSet(paid, T) + paid[k + 1]
      BY <3>0, <3>1, <3>2, SumInsert
    <3>4. SumFunctionOnSet(paid, T) \in Int
      BY <3>0, <3>2, SumIsInt
    <3>5. j.held = a.held - SumFunctionOnSet(paid, T)
      BY <2>7 DEF T
    <3>6. SumFunctionOnSet(paid, 1 .. (k + 1)) = SumFunctionOnSet(paid, T) + paid[k + 1]
      BY <3>1, <3>3
    <3> QED
      BY <2>6, <3>4, <3>5, <3>6
  <2>11. TellsDispute(a, g[from + (k + 1)], c, Entry(cand, BagOver(f, rest(k + 1))),
                      a.held - SumFunctionOnSet(paid, 1 .. (k + 1)))
    BY <2>2, <2>5, <2>8, <2>9, <2>10, ToldAgain
  <2> QED
    BY <2>3, <2>11
<1>3. n \in Q
  <2> HIDE DEF Q
  <2>1. n \in 0 .. n
    OBVIOUS
  <2> QED
    BY <1>1, <1>2, <2>1, CountingUp, Zenon
<1>4. rest(n) = D
  OBVIOUS
<1> HIDE DEF rest
<1> QED
  BY <1>3, <1>4

-------------------------------------------------------------------------------
\* The stakes of a dispute, by place: the proposer's at 0, then the challengers'.
Stood(cand, records) ==
  [i \in 0 .. Len(records) |->
     IF i = 0 THEN [owner |-> cand.proposer, bond |-> cand.bond_amount]
     ELSE [owner |-> records[i].challenger, bond |-> records[i].bond]]

\* The open stakes of a live dispute, as storage has them.
OpenStakes(cand, records) ==
  ToBag([i \in DOMAIN records |-> [owner |-> records[i].challenger, bond |-> records[i].bond]])
    (+) Stake(cand.proposer, cand.bond_amount)

\* A bag over places depends on what stands at them only.
LEMMA BagAgrees ==
  ASSUME NEW f, NEW g, NEW D, \A i \in D : f[i] = g[i]
  PROVE  BagOver(f, D) = BagOver(g, D)
<1>1. {f[i] : i \in D} = {g[i] : i \in D}
  OBVIOUS
<1>2. \A x : {i \in D : f[i] = x} = {i \in D : g[i] = x}
  OBVIOUS
<1> DEFINE X == {g[i] : i \in D}
<1>3. \A x : Cardinality({i \in D : f[i] = x}) = Cardinality({i \in D : g[i] = x})
  BY <1>2
<1>4. BagOver(f, D) = [x \in X |-> Cardinality({i \in D : f[i] = x})]
  BY <1>1 DEF BagOver
<1> QED
  BY <1>3, <1>4 DEF BagOver

LEMMA OpenAtPlaces ==
  ASSUME NEW cand, NEW records \in Seq(ChallengeRecord)
  PROVE  OpenStakes(cand, records)
           = BagOver(Stood(cand, records), (1 .. Len(records)) \cup {0})
<1> DEFINE D == 1 .. Len(records)
           f == Stood(cand, records)
           s == [i \in DOMAIN records |->
                   [owner |-> records[i].challenger, bond |-> records[i].bond]]
<1>1. DOMAIN records = D /\ Len(records) \in Nat
  BY RecordsTyped
<1>2. f[0] = [owner |-> cand.proposer, bond |-> cand.bond_amount]
  BY <1>1 DEF Stood
<1>3. \A i \in D : f[i] = s[i]
  BY <1>1 DEF Stood
<1>4. ToBag(s) = BagOver(s, D)
  <2>1. DOMAIN s = D
    BY <1>1
  <2> HIDE DEF s, D
  <2>2. ToBag(s) = [x \in Range(s) |-> Cardinality({i \in D : s[i] = x})]
    BY <2>1 DEF ToBag
  <2>3. Range(s) = {s[i] : i \in D}
    BY <2>1 DEF Range
  <2> QED
    BY <2>2, <2>3 DEF BagOver
<1>5. IsFiniteSet(D) /\ 0 \notin D
  BY <1>1, FS_Interval
<1> HIDE DEF s, f, D
<1>6. BagOver(s, D) = BagOver(f, D)
  BY <1>3, BagAgrees
<1>7. BagOver(f, D) (+) SetToBag({f[0]}) = BagOver(f, D \cup {0})
  <2>1. Grows(f, D, 0)
    BY <1>5, BagGrows
  <2> QED
    BY <2>1 DEF Grows
<1>8. OpenStakes(cand, records) = ToBag(s) (+) SetToBag({f[0]})
  BY <1>2 DEF OpenStakes, Stake, s
<1> QED
  BY <1>4, <1>6, <1>7, <1>8 DEF f, D

\* A challenge adds one.
LEMMA OpenAfterChallenge ==
  ASSUME NEW old, NEW new, new.proposer = old.proposer, new.bond_amount = old.bond_amount,
         NEW records \in Seq(ChallengeRecord), NEW u \in Users, NEW b \in Nat
  PROVE  OpenStakes(new, Append(records, [challenger |-> u, bond |-> b]))
           = OpenStakes(old, records) (+) Stake(u, b)
<1> DEFINE n == Len(records)
           D == 1 .. n
           more == Append(records, [challenger |-> u, bond |-> b])
           f == Stood(old, records)
           g == Stood(new, more)
<1>1. /\ n \in Nat /\ more \in Seq(ChallengeRecord) /\ Len(more) = n + 1
      /\ more[n + 1] = [challenger |-> u, bond |-> b] /\ \A i \in D : more[i] = records[i]
  BY DEF ChallengeRecord
<1>2. g[n + 1] = [owner |-> u, bond |-> b] /\ \A i \in D \cup {0} : g[i] = f[i]
  BY <1>1 DEF Stood
<1>3. 1 .. (n + 1) = D \cup {n + 1} /\ n + 1 \notin D \cup {0}
  BY <1>1
<1>4. IsFiniteSet(D)
  BY <1>1, FS_Interval
<1>5. OpenStakes(new, more) = BagOver(g, (1 .. (n + 1)) \cup {0})
  <2> HIDE DEF more
  <2> QED
    BY <1>1, OpenAtPlaces
<1>6. OpenStakes(old, records) = BagOver(f, D \cup {0})
  BY OpenAtPlaces
<1> HIDE DEF n, D, more, f, g
<1>7. BagOver(f, D \cup {0}) = BagOver(g, D \cup {0})
  BY <1>2, BagAgrees
<1>8. IsFiniteSet(D \cup {0})
  BY <1>4, FS_AddElement
<1>9. BagOver(g, D \cup {0}) (+) SetToBag({g[n + 1]}) = BagOver(g, (D \cup {0}) \cup {n + 1})
  <2>1. Grows(g, D \cup {0}, n + 1)
    BY <1>3, <1>8, BagGrows
  <2> QED
    BY <2>1 DEF Grows
<1>10. (1 .. (n + 1)) \cup {0} = (D \cup {0}) \cup {n + 1}
  BY <1>3
<1> QED
  BY <1>2, <1>5, <1>6, <1>7, <1>9, <1>10 DEF Stake, more

\* A dispute nobody has challenged has the proposer's alone.
LEMMA OpenAtFirst ==
  ASSUME NEW cand
  PROVE  OpenStakes(cand, <<>>) = FirstStake(cand)
<1> DEFINE s == [i \in DOMAIN <<>> |-> [owner |-> <<>>[i].challenger, bond |-> <<>>[i].bond]]
<1>1. ToBag(s) = EmptyBag
  <2>1. DOMAIN s = {}
    OBVIOUS
  <2> HIDE DEF s
  <2>2. ToBag(s) = [x \in {} |-> Cardinality({i \in {} : s[i] = x})]
    BY <2>1 DEF ToBag, Range
  <2> QED
    BY <2>2 DEF EmptyBag, SetToBag
<1> QED
  BY <1>1 DEF OpenStakes, FirstStake

-------------------------------------------------------------------------------
\* The events of a settlement.

\* One more event after n others.
LEMMA OneEventMore ==
  ASSUME NEW n \in Nat, NEW s, DOMAIN s = 1 .. n, s = [k \in 1 .. n |-> s[k]], NEW e
  PROVE  LET t == Append(s, e)
         IN  /\ t \in Seq({s[k] : k \in 1 .. n} \cup {e}) /\ Len(t) = n + 1
             /\ DOMAIN t = 1 .. (n + 1) /\ t[n + 1] = e /\ \A k \in 1 .. n : t[k] = s[k]
<1> DEFINE S == {s[k] : k \in 1 .. n} \cup {e}
<1>1. e \in S /\ \A k \in 1 .. n : s[k] \in S
  OBVIOUS
<1> HIDE DEF S
<1>2. s \in Seq(S) /\ Len(s) = n
  BY <1>1
<1> QED
  BY <1>1, <1>2 DEF S

\* One event before n others.
LEMMA OneEventFirst ==
  ASSUME NEW n \in Nat, NEW S, NEW t \in Seq(S), Len(t) = n, NEW e
  PROVE  LET s == <<e>> \o t
         IN  DOMAIN s = 1 .. (n + 1) /\ s[1] = e /\ \A k \in 1 .. n : s[1 + k] = t[k]
<1> DEFINE T == S \cup {e}
<1>1. e \in T /\ S \subseteq T /\ DOMAIN t = 1 .. n /\ \A k \in 1 .. n : t[k] \in S
  OBVIOUS
<1> HIDE DEF T
<1>2. t \in Seq(T) /\ <<e>> \in Seq(T) /\ Len(<<e>>) = 1
  BY <1>1
<1> QED
  BY <1>1, <1>2

LEMMA UpheldEvents ==
  ASSUME NEW c, challengers[c] \in Seq(ChallengeRecord), NEW e
  PROVE  LET s == Append(ChallengersSlashed(c), e)
             n == Len(challengers[c])
         IN  /\ DOMAIN s = 1 .. (n + 1) /\ s[n + 1] = e
             /\ \A k \in 1 .. n :
                  s[k] = BondSlashed(c, challengers[c][k].challenger, candidates[c].proposer,
                                     challengers[c][k].bond)
<1> DEFINE n == Len(challengers[c])
           z == ChallengersSlashed(c)
           slash(k) == BondSlashed(c, challengers[c][k].challenger, candidates[c].proposer,
                                   challengers[c][k].bond)
<1>1. DOMAIN challengers[c] = 1 .. n /\ n \in Nat
  BY RecordsTyped
<1>2. z = [k \in 1 .. n |-> slash(k)]
  BY <1>1 DEF ChallengersSlashed
<1> HIDE DEF n, z, slash
<1>3. DOMAIN z = 1 .. n /\ z = [k \in 1 .. n |-> z[k]] /\ \A k \in 1 .. n : z[k] = slash(k)
  BY <1>2
<1>4. LET t == Append(z, e)
      IN  DOMAIN t = 1 .. (n + 1) /\ t[n + 1] = e /\ \A k \in 1 .. n : t[k] = z[k]
  BY <1>1, <1>3, OneEventMore
<1> QED
  BY <1>3, <1>4 DEF n, z, slash

LEMMA VoidedEvents ==
  ASSUME NEW c, challengers[c] \in Seq(ChallengeRecord)
  PROVE  LET s == <<ProposerSlashed(c)>> \o Append(ChallengersRefunded(c), MarketVoided(c))
             n == Len(challengers[c])
         IN  /\ DOMAIN s = 1 .. (n + 2)
             /\ s[1] = ProposerSlashed(c) /\ s[n + 2] = MarketVoided(c)
             /\ \A k \in 1 .. n :
                  s[1 + k] = BondRefunded(c, challengers[c][k].challenger, challengers[c][k].bond)
<1> DEFINE n == Len(challengers[c])
           z == ChallengersRefunded(c)
           e == MarketVoided(c)
           p == ProposerSlashed(c)
           t == Append(z, e)
           s == <<p>> \o t
           refund(k) == BondRefunded(c, challengers[c][k].challenger, challengers[c][k].bond)
<1>1. DOMAIN challengers[c] = 1 .. n /\ n \in Nat
  BY RecordsTyped
<1>2. z = [k \in 1 .. n |-> refund(k)]
  BY <1>1 DEF ChallengersRefunded
<1> HIDE DEF n, z, e, p, refund
<1>3. DOMAIN z = 1 .. n /\ z = [k \in 1 .. n |-> z[k]] /\ \A k \in 1 .. n : z[k] = refund(k)
  BY <1>2
<1>4. /\ t \in Seq({z[k] : k \in 1 .. n} \cup {e}) /\ Len(t) = n + 1
      /\ t[n + 1] = e /\ \A k \in 1 .. n : t[k] = z[k]
  BY <1>1, <1>3, OneEventMore
<1>5. PICK S : t \in Seq(S)
  BY <1>4
<1> HIDE DEF t
<1>6. DOMAIN s = 1 .. (n + 2) /\ s[1] = p /\ \A k \in 1 .. (n + 1) : s[1 + k] = t[k]
  <2>1. n + 1 \in Nat /\ (n + 1) + 1 = n + 2
    BY <1>1
  <2>2. DOMAIN s = 1 .. ((n + 1) + 1) /\ s[1] = p /\ \A k \in 1 .. (n + 1) : s[1 + k] = t[k]
    BY <1>4, <1>5, <2>1, OneEventFirst
  <2> QED
    BY <2>1, <2>2
<1>7. 1 + (n + 1) = n + 2 /\ n + 1 \in 1 .. (n + 1) /\ \A k \in 1 .. n : k \in 1 .. (n + 1)
  BY <1>1
<1> HIDE DEF s
<1>8. s[n + 2] = e /\ \A k \in 1 .. n : s[1 + k] = refund(k)
  <2>1. s[1 + (n + 1)] = t[n + 1]
    BY <1>6, <1>7
  <2>2. ASSUME NEW k \in 1 .. n PROVE s[1 + k] = refund(k)
    BY <1>3, <1>4, <1>6, <1>7
  <2> QED
    BY <1>4, <1>7, <2>1, <2>2
<1> QED
  BY <1>6, <1>8 DEF n, z, e, p, t, s, refund

\* What the slashed bonds of a challenger list pay out.
SlashesPaid(records) ==
  Forfeited(records, "reward") + Forfeited(records, "burned")
    + Cut(Forfeited(records, "treasury"))

LEMMA PaidOutTyped ==
  ASSUME NEW bond \in Nat
  PROVE  /\ PaidOut(bond) \in Nat
         /\ PaidOut(bond) = SplitBond(bond).reward + SplitBond(bond).burned
                              + Cut(SplitBond(bond).treasury)
<1>1. /\ SplitBond(bond).reward \in Nat /\ SplitBond(bond).burned \in Nat
      /\ SplitBond(bond).treasury \in Nat
  BY SplitAddsUp
<1>2. Cut(SplitBond(bond).treasury) \in Nat
  BY <1>1 DEF Cut
<1> QED
  BY <1>1, <1>2 DEF PaidOut

LEMMA SlashesAddUp ==
  ASSUME NEW records \in Seq(ChallengeRecord)
  PROVE  /\ SlashesPaid(records) \in Nat
         /\ SumFunctionOnSet([k \in DOMAIN records |-> PaidOut(records[k].bond)], DOMAIN records)
              = SlashesPaid(records)
<1> DEFINE D == DOMAIN records
           reward == [i \in D |-> SplitBond(records[i].bond)["reward"]]
           burned == [i \in D |-> SplitBond(records[i].bond)["burned"]]
           treas == [i \in D |-> SplitBond(records[i].bond)["treasury"]]
           cut == [i \in D |-> Cut(treas[i])]
           gone == [i \in D |-> reward[i] + burned[i]]
           paid == [k \in D |-> PaidOut(records[k].bond)]
<1>1. IsFiniteSet(D) /\ \A i \in D : records[i].bond \in Nat
  BY RecordsTyped
<1>2. \A i \in D : /\ reward[i] \in Nat /\ burned[i] \in Nat /\ treas[i] \in Nat
                   /\ paid[i] = reward[i] + burned[i] + cut[i]
  BY <1>1, SplitAddsUp, PaidOutTyped
<1>3. \A i \in D : gone[i] = reward[i] + burned[i] /\ cut[i] = Cut(treas[i])
  OBVIOUS
<1>4. /\ Forfeited(records, "reward") = SumFunctionOnSet(reward, D)
      /\ Forfeited(records, "burned") = SumFunctionOnSet(burned, D)
      /\ Forfeited(records, "treasury") = SumFunctionOnSet(treas, D)
  BY DEF Forfeited, SumFunction
<1> HIDE DEF D, reward, burned, treas, cut, gone, paid
<1>5. \A i \in D : cut[i] \in Nat /\ gone[i] \in Nat /\ paid[i] = gone[i] + cut[i]
  BY <1>2, <1>3 DEF Cut
<1>6. /\ SumFunctionOnSet(reward, D) \in Nat /\ SumFunctionOnSet(burned, D) \in Nat
      /\ SumFunctionOnSet(treas, D) \in Nat
  BY <1>1, <1>2, SumOfNats
<1>7. SumFunctionOnSet(gone, D) = SumFunctionOnSet(reward, D) + SumFunctionOnSet(burned, D)
  <2>1. \A i \in D : reward[i] \in Int /\ burned[i] \in Int
    BY <1>2
  <2> QED
    BY <1>1, <1>3, <2>1, SumOfBoth
<1>8. SumFunctionOnSet(paid, D) = SumFunctionOnSet(gone, D) + SumFunctionOnSet(cut, D)
  <2>1. \A i \in D : gone[i] \in Int /\ cut[i] \in Int
    BY <1>5
  <2> QED
    BY <1>1, <1>5, <2>1, SumOfBoth
<1>9. SumFunctionOnSet(cut, D) = Cut(SumFunctionOnSet(treas, D))
  <2>1. CASE treasury = Unset
    <3>1. \A i \in D : cut[i] = 0
      BY <1>3, <2>1 DEF Cut
    <3>2. SumFunctionOnSet(cut, D) = 0
      BY <1>1, <3>1, SumOfZeros
    <3> QED
      BY <2>1, <3>2 DEF Cut
  <2>2. CASE treasury # Unset
    <3>1. \A i \in D : cut[i] = treas[i]
      BY <1>3, <2>2 DEF Cut
    <3>2. SumFunctionOnSet(cut, D) = SumFunctionOnSet(treas, D)
      BY <1>1, <3>1, SumAgrees
    <3> QED
      BY <2>2, <3>2 DEF Cut
  <2> QED
    BY <2>1, <2>2
<1>10. Cut(SumFunctionOnSet(treas, D)) \in Nat
  BY <1>6 DEF Cut
<1>11. /\ SlashesPaid(records) \in Nat /\ SumFunctionOnSet(paid, D) = SlashesPaid(records)
  BY <1>4, <1>6, <1>7, <1>8, <1>9, <1>10 DEF SlashesPaid
<1> QED
  BY <1>11 DEF paid, D

-------------------------------------------------------------------------------
\* The settlements.

\* A reader that knows a dispute and its open stakes.
Knows(i, c, cand, records) ==
  /\ IsIndex(i) /\ KnowsTreasury(i) /\ i.held \in Int
  /\ c \in DOMAIN i.disputes /\ i.disputes[c] = Entry(cand, OpenStakes(cand, records))
  /\ i.disputes = [i.disputes EXCEPT ![c] = i.disputes[c]]

\* A reader that is told of one dispute knows the treasury as before.
LEMMA StillKnows ==
  ASSUME NEW i, KnowsTreasury(i), NEW j, NEW c, c \in DOMAIN i.disputes, NEW a, NEW x,
         TellsDispute(i, j, c, a, x)
  PROVE  /\ IsIndex(j) /\ KnowsTreasury(j) /\ c \in DOMAIN j.disputes
         /\ j.disputes[c] = a /\ j.held = x
         /\ j.disputes = [j.disputes EXCEPT ![c] = j.disputes[c]]
BY DEF TellsDispute, KnowsTreasury, SameAddresses

LEMMA UpheldSettles ==
  ASSUME NEW i, NEW c, NEW cand, NEW records \in Seq(ChallengeRecord),
         cand = candidates[c], records = challengers[c], cand.bond_amount \in Nat,
         Knows(i, c, cand, records),
         NEW new, SameTerms(new, cand), new.status = "Finalized",
         NEW e, e \in {CandidateFinalized(c, new), CandidateArbitrated(c, new.outcome)},
         new.finalized_at = e.at
  PROVE  TellsDispute(i, FoldLeft(Heard, i, Append(ChallengersSlashed(c), e)), c,
                      Entry(new, EmptyBag), i.held - (cand.bond_amount + SlashesPaid(records)))
<1> DEFINE n == Len(records)
           s == Append(ChallengersSlashed(c), e)
           f == Stood(cand, records)
           paid == [k \in DOMAIN records |-> PaidOut(records[k].bond)]
           left == i.held - SlashesPaid(records)
<1>1. /\ DOMAIN records = 1 .. n /\ n \in Nat
      /\ \A k \in 1 .. n : records[k].bond \in Nat
  BY RecordsTyped
<1>2. /\ DOMAIN s = 1 .. (n + 1) /\ s[n + 1] = e
      /\ \A k \in 1 .. n :
           s[k] = BondSlashed(c, records[k].challenger, cand.proposer, records[k].bond)
  BY UpheldEvents
<1>3. /\ f[0] = [owner |-> cand.proposer, bond |-> cand.bond_amount]
      /\ \A k \in 1 .. n : f[k] = [owner |-> records[k].challenger, bond |-> records[k].bond]
  BY <1>1 DEF Stood
<1>4. \A k \in 1 .. n : paid[k] = PaidOut(records[k].bond) /\ paid[k] \in Int
  <2>1. ASSUME NEW k \in 1 .. n PROVE paid[k] = PaidOut(records[k].bond) /\ paid[k] \in Int
    <3>1. records[k].bond \in Nat
      BY <1>1
    <3>2. PaidOut(records[k].bond) \in Nat
      BY <3>1, PaidOutTyped
    <3>3. paid[k] = PaidOut(records[k].bond)
      BY <1>1
    <3> HIDE DEF paid
    <3> QED
      BY <3>2, <3>3
  <2> QED
    BY <2>1
<1>5. SlashesPaid(records) \in Nat /\ SumFunctionOnSet(paid, 1 .. n) = SlashesPaid(records)
  BY <1>1, SlashesAddUp
<1>6. OpenStakes(cand, records) = BagOver(f, (1 .. n) \cup {0})
  BY OpenAtPlaces
<1> HIDE DEF n, s, f, paid
<1>7. PICK g : HeardOneByOne(g, i, s, n + 1) /\ FoldLeft(Heard, i, s) = g[n + 1]
  BY <1>1, <1>2, HeardInOrder
<1>8. g[0] = i /\ g[n + 1] = Heard(g[n], e)
  <2>1. n + 1 \in 1 .. (n + 1) /\ (n + 1) - 1 = n
    BY <1>1
  <2> QED
    BY <1>2, <1>7, <2>1 DEF HeardOneByOne
<1>9. TellsDispute(i, g[n], c, Entry(cand, BagOver(f, {0})), left)
  <2>1. ASSUME NEW k \in 1 .. n
        PROVE  paid[k] \in Int /\ Strikes(s[0 + k], c, f[k], paid[k])
    <3>1. 0 + k = k
      OBVIOUS
    <3>2. Strikes(BondSlashed(c, records[k].challenger, cand.proposer, records[k].bond), c,
                  [owner |-> records[k].challenger, bond |-> records[k].bond],
                  PaidOut(records[k].bond))
      BY SlashStrikes
    <3> QED
      BY <1>2, <1>3, <1>4, <3>1, <3>2
  <2>2. \A k \in 1 .. n : paid[k] \in Int /\ Strikes(s[0 + k], c, f[k], paid[k])
    BY <2>1
  <2>3. IsFiniteSet({0}) /\ \A k \in 1 .. n : k \notin {0}
    <3>1. IsFiniteSet({0})
      BY FS_Singleton
    <3>2. \A k \in 1 .. n : k \notin {0}
      BY <1>1
    <3> QED
      BY <3>1, <3>2
  <2>4. /\ IsIndex(i) /\ KnowsTreasury(i) /\ c \in DOMAIN i.disputes /\ i.held \in Int
        /\ i.disputes[c] = Entry(cand, BagOver(f, {0} \cup (1 .. n)))
        /\ i.disputes = [i.disputes EXCEPT ![c] = i.disputes[c]]
    <3>1. {0} \cup (1 .. n) = (1 .. n) \cup {0}
      OBVIOUS
    <3> QED
      BY <1>6, <3>1 DEF Knows
  <2>5. 0 \in Nat /\ n + 1 \in Nat /\ 0 + n <= n + 1 /\ 0 + n = n
    BY <1>1
  <2>6. TellsDispute(i, g[0 + n], c, Entry(cand, BagOver(f, {0})),
                     i.held - SumFunctionOnSet(paid, 1 .. n))
    BY <1>1, <1>7, <1>8, <2>2, <2>3, <2>4, <2>5, StrikesInTurn
  <2> QED
    BY <1>5, <2>5, <2>6
<1>10. PICK j : j = g[n]
  OBVIOUS
<1>11. /\ IsIndex(j) /\ c \in DOMAIN j.disputes
       /\ j.disputes[c] = Entry(cand, BagOver(f, {0})) /\ j.held = left
  <2>1. KnowsTreasury(i) /\ c \in DOMAIN i.disputes
    BY DEF Knows
  <2> HIDE DEF left
  <2> QED
    BY <1>9, <1>10, <2>1, EntryTold
<1> HIDE DEF left
<1>12. TellsDispute(j, Heard(j, e), c,
                    Entry(new, BagOver(f, {0}) (-) Stake(cand.proposer, cand.bond_amount)),
                    j.held - cand.bond_amount)
  BY <1>11, UpheldHeard
<1>13. BagOver(f, {0}) (-) Stake(cand.proposer, cand.bond_amount) = EmptyBag
  <2>1. IsFiniteSet({}) /\ 0 \notin {} /\ {} \cup {0} = {0}
    BY FS_EmptySet
  <2>2. Shrinks(f, {}, 0)
    BY <2>1, BagGrows
  <2>3. BagOver(f, {0}) (-) SetToBag({f[0]}) = BagOver(f, {})
    BY <2>1, <2>2 DEF Shrinks
  <2>4. Stake(cand.proposer, cand.bond_amount) = SetToBag({f[0]})
    BY <1>3 DEF Stake
  <2>5. BagOver(f, {}) = EmptyBag
    BY BagOfNone
  <2> QED
    BY <2>3, <2>4, <2>5
<1>14. left - cand.bond_amount = i.held - (cand.bond_amount + SlashesPaid(records))
  BY <1>5 DEF left, Knows
<1>15. TellsDispute(i, Heard(j, e), c, Entry(new, EmptyBag),
                    i.held - (cand.bond_amount + SlashesPaid(records)))
  BY <1>9, <1>10, <1>11, <1>12, <1>13, <1>14, ToldAgain
<1> QED
  BY <1>7, <1>8, <1>10, <1>15 DEF s

LEMMA VoidedSettles ==
  ASSUME NEW i, NEW c, NEW cand, NEW records \in Seq(ChallengeRecord),
         cand = candidates[c], records = challengers[c], cand.bond_amount \in Nat,
         Knows(i, c, cand, records),
         NEW new, SameTerms(new, cand), new.status = "Voided", new.finalized_at = now
  PROVE  TellsDispute(i, FoldLeft(Heard, i, <<ProposerSlashed(c)>>
                           \o Append(ChallengersRefunded(c), MarketVoided(c))), c,
                      Entry(new, EmptyBag),
                      i.held - (PaidOut(cand.bond_amount) + SumFunction(BondsPosted(records))))
<1> DEFINE n == Len(records)
           s == <<ProposerSlashed(c)>> \o Append(ChallengersRefunded(c), MarketVoided(c))
           f == Stood(cand, records)
           paid == BondsPosted(records)
           cut == PaidOut(cand.bond_amount)
           kept == i.held - cut
           left == kept - SumFunction(paid)
<1>1. /\ DOMAIN records = 1 .. n /\ n \in Nat
      /\ \A k \in 1 .. n : paid[k] = records[k].bond /\ paid[k] \in Int
      /\ SumFunction(paid) \in Nat /\ SumFunctionOnSet(paid, 1 .. n) = SumFunction(paid)
  BY RecordsTyped DEF SumFunction
<1>2. /\ DOMAIN s = 1 .. (n + 2)
      /\ s[1] = ProposerSlashed(c) /\ s[n + 2] = MarketVoided(c)
      /\ \A k \in 1 .. n :
           s[1 + k] = BondRefunded(c, records[k].challenger, records[k].bond)
  BY VoidedEvents
<1>3. /\ f[0] = [owner |-> cand.proposer, bond |-> cand.bond_amount]
      /\ \A k \in 1 .. n : f[k] = [owner |-> records[k].challenger, bond |-> records[k].bond]
  BY <1>1 DEF Stood
<1>4. cut \in Nat
  BY PaidOutTyped
<1>5. OpenStakes(cand, records) = BagOver(f, (1 .. n) \cup {0})
  BY OpenAtPlaces
<1> HIDE DEF n, s, f, paid, cut
<1>6. PICK g : HeardOneByOne(g, i, s, n + 2) /\ FoldLeft(Heard, i, s) = g[n + 2]
  <2>1. n + 2 \in Nat
    BY <1>1
  <2> QED
    BY <1>2, <2>1, HeardInOrder
<1>7. /\ g[0] = i /\ g[1] = Heard(i, ProposerSlashed(c))
      /\ g[n + 2] = Heard(g[1 + n], MarketVoided(c))
  <2>1. n + 2 \in 1 .. (n + 2) /\ (n + 2) - 1 = 1 + n /\ 1 \in 1 .. (n + 2) /\ 1 - 1 = 0
    BY <1>1
  <2> QED
    BY <1>2, <1>6, <2>1 DEF HeardOneByOne
<1> DEFINE stake == [owner |-> cand.proposer, bond |-> cand.bond_amount]
<1>8. PICK a : a = g[1]
  OBVIOUS
<1>9. TellsDispute(i, a, c, Entry(cand, BagOver(f, 1 .. n)), kept)
  <2>1. Strikes(ProposerSlashed(c), c, stake, cut)
    BY SlashStrikes DEF ProposerSlashed, cut
  <2>2. TellsDispute(i, a, c, Entry(cand, OpenStakes(cand, records) (-) SetToBag({stake})), kept)
    <3> HIDE DEF stake
    <3> QED
      BY <1>7, <1>8, <2>1, Struckoff DEF Knows
  <2>3. OpenStakes(cand, records) (-) SetToBag({stake}) = BagOver(f, 1 .. n)
    <3>1. IsFiniteSet(1 .. n) /\ 0 \notin 1 .. n
      BY <1>1, FS_Interval
    <3>2. Shrinks(f, 1 .. n, 0)
      BY <3>1, BagGrows
    <3> QED
      BY <1>3, <1>5, <3>2 DEF Shrinks
  <2> QED
    BY <2>2, <2>3
<1> HIDE DEF stake
<1>10. /\ IsIndex(a) /\ KnowsTreasury(a) /\ c \in DOMAIN a.disputes
       /\ a.disputes[c] = Entry(cand, BagOver(f, 1 .. n)) /\ a.held = kept
       /\ a.disputes = [a.disputes EXCEPT ![c] = a.disputes[c]]
  <2>1. KnowsTreasury(i) /\ c \in DOMAIN i.disputes
    BY DEF Knows
  <2> HIDE DEF kept
  <2> QED
    BY <1>9, <2>1, StillKnows
<1>11. kept \in Int
  BY <1>4 DEF Knows
<1>12. TellsDispute(a, g[1 + n], c, Entry(cand, EmptyBag), left)
  <2>1. ASSUME NEW k \in 1 .. n
        PROVE  paid[k] \in Int /\ Strikes(s[1 + k], c, f[k], paid[k])
    <3>1. Strikes(BondRefunded(c, records[k].challenger, records[k].bond), c,
                  [owner |-> records[k].challenger, bond |-> records[k].bond], records[k].bond)
      BY RefundStrikes
    <3> QED
      BY <1>1, <1>2, <1>3, <3>1
  <2>2. \A k \in 1 .. n : paid[k] \in Int /\ Strikes(s[1 + k], c, f[k], paid[k])
    BY <2>1
  <2>3. IsFiniteSet({}) /\ \A k \in 1 .. n : k \notin {}
    BY FS_EmptySet
  <2>4. {} \cup (1 .. n) = 1 .. n
    OBVIOUS
  <2>5. 1 \in Nat /\ n + 2 \in Nat /\ 1 + n <= n + 2
    BY <1>1
  <2>6. a.disputes[c] = Entry(cand, BagOver(f, {} \cup (1 .. n))) /\ a.held \in Int
    BY <1>10, <1>11, <2>4
  <2>7. TellsDispute(a, g[1 + n], c, Entry(cand, BagOver(f, {})),
                     a.held - SumFunctionOnSet(paid, 1 .. n))
    BY <1>1, <1>6, <1>8, <1>10, <2>2, <2>3, <2>5, <2>6, StrikesInTurn
  <2>8. BagOver(f, {}) = EmptyBag
    BY BagOfNone
  <2>9. a.held - SumFunctionOnSet(paid, 1 .. n) = left
    BY <1>1, <1>10
  <2> QED
    BY <2>7, <2>8, <2>9
<1>13. PICK j : j = g[1 + n]
  OBVIOUS
<1> HIDE DEF left, kept
<1>14. TellsDispute(i, j, c, Entry(cand, EmptyBag), left)
  BY <1>9, <1>12, <1>13, ToldAgain
<1>15. /\ IsIndex(j) /\ c \in DOMAIN j.disputes
       /\ j.disputes[c] = Entry(cand, EmptyBag) /\ j.held = left
  <2>1. KnowsTreasury(i) /\ c \in DOMAIN i.disputes
    BY DEF Knows
  <2> QED
    BY <1>14, <2>1, EntryTold
<1>16. TellsDispute(j, Heard(j, MarketVoided(c)), c, Entry(new, EmptyBag), j.held)
  BY <1>15, VoidedHeard
<1>17. TellsDispute(i, Heard(j, MarketVoided(c)), c, Entry(new, EmptyBag), left)
  BY <1>14, <1>15, <1>16, ToldAgain
<1>18. left = i.held - (cut + SumFunction(paid))
  BY <1>1, <1>4 DEF left, kept, Knows
<1> QED
  BY <1>6, <1>7, <1>13, <1>17, <1>18 DEF s, cut, paid

-------------------------------------------------------------------------------
\* What the reader knows, part by part.

\* The entry of a dispute as storage has it.
EntryOf(c) == Entry(candidates[c], StakesOf(c))

DisputesKnown == index.disputes = [c \in 1 .. Len(candidates) |-> EntryOf(c)]

MoneyKnown == index.held \in Int /\ index.held + SumFunction(collateral) = Holdings

InForce(r) ==
  CASE r = "factory"         -> config.factory
    [] r = "market_contract" -> config.market_contract
    [] r = "treasury"        -> treasury

AddressesKnown ==
  /\ index.inForce = [r \in Registers |-> InForce(r)]
  /\ index.announced = [r \in Registers |-> index.announced[r]]
  /\ \A r \in Registers : pending[r] # Unset => index.announced[r] = pending[r]

HaltKnown == index.paused = paused /\ index.mode = mode

Following ==
  IsIndex(index) /\ DisputesKnown /\ MoneyKnown /\ AddressesKnown /\ HaltKnown

\* The stakes of a dispute that is over, and of one that is not.
LEMMA StakesByStatus ==
  ASSUME NEW c
  PROVE  /\ Live(candidates[c]) => StakesOf(c) = OpenStakes(candidates[c], challengers[c])
         /\ ~Live(candidates[c]) => StakesOf(c) = EmptyBag
BY DEF StakesOf, OpenStakes

LEMMA StakesByStatusNext ==
  ASSUME NEW c
  PROVE  /\ Live(candidates'[c]) => StakesOf(c)' = OpenStakes(candidates'[c], challengers'[c])
         /\ ~Live(candidates'[c]) => StakesOf(c)' = EmptyBag
BY DEF StakesOf, OpenStakes

LEMMA EntryKept ==
  ASSUME NEW c, candidates'[c] = candidates[c], challengers'[c] = challengers[c]
  PROVE  EntryOf(c)' = EntryOf(c)
BY DEF EntryOf, StakesOf

\* A reader who follows knows every live dispute.
LEMMA KnowsLive ==
  ASSUME TypeOK, Following, NEW c \in 1 .. Len(candidates), Live(candidates[c])
  PROVE  /\ Knows(index, c, candidates[c], challengers[c])
         /\ IsIndex(index) /\ c \in DOMAIN index.disputes
         /\ index.disputes[c] = Entry(candidates[c], OpenStakes(candidates[c], challengers[c]))
<1>1. index.disputes = [d \in 1 .. Len(candidates) |-> EntryOf(d)]
  BY DEF Following, DisputesKnown
<1>2. EntryOf(c) = Entry(candidates[c], OpenStakes(candidates[c], challengers[c]))
  BY StakesByStatus DEF EntryOf
<1>3. /\ c \in DOMAIN index.disputes
      /\ index.disputes[c] = Entry(candidates[c], OpenStakes(candidates[c], challengers[c]))
      /\ index.disputes = [index.disputes EXCEPT ![c] = index.disputes[c]]
  BY <1>1, <1>2
<1>4. KnowsTreasury(index)
  BY DEF KnowsTreasury, Following, AddressesKnown, InForce, Registers
<1> QED
  BY <1>3, <1>4 DEF Knows, Following, MoneyKnown

\* The money follows.
LEMMA MoneyFollows ==
  ASSUME TypeOK, TypeOK', Following, NEW token \in Tokens, NEW change \in Int,
         HeldOf' = [HeldOf EXCEPT ![token] = @ + change],
         UNCHANGED collateral, index'.held = index.held + change
  PROVE  MoneyKnown'
<1>1. Holdings' = Holdings + change
  BY HoldingsFollow DEF TypeOK
<1>2. SumFunction(collateral') = SumFunction(collateral)
  OBVIOUS
<1>3. SumFunction(collateral) \in Int
  <2>1. collateral \in [Users -> Nat] /\ IsFiniteSet(Users)
    BY AccountsAreFinite DEF TypeOK, MoneyTypeOK
  <2>2. \A u \in Users : collateral[u] \in Int
    BY <2>1
  <2>3. SumFunction(collateral) = SumFunctionOnSet(collateral, Users)
    BY <2>1 DEF SumFunction
  <2> QED
    BY <2>1, <2>2, <2>3, SumIsInt
<1>4. Holdings \in Int
  BY HoldingsTyped DEF TypeOK
<1> HIDE DEF Holdings
<1>5. index.held \in Int /\ index.held + SumFunction(collateral) = Holdings
  BY DEF Following, MoneyKnown
<1>6. index'.held \in Int /\ index'.held + SumFunction(collateral) = Holdings + change
  BY <1>3, <1>4, <1>5
<1> QED
  BY <1>1, <1>2, <1>6 DEF MoneyKnown

\* News of one dispute.
LEMMA DisputeFollows ==
  ASSUME TypeOK, TypeOK', Following, NEW c \in 1 .. Len(candidates), Rewritten(c),
         UNCHANGED <<adminVars, collateral>>,
         NEW token \in Tokens, NEW change \in Int,
         HeldOf' = [HeldOf EXCEPT ![token] = @ + change],
         NEW held, held = index.held + change,
         TellsDispute(index, index', c, EntryOf(c)', held)
  PROVE  Following'
<1>1. /\ IsIndex(index') /\ SameAddresses(index, index') /\ SameHalt(index, index')
      /\ index'.disputes = [index.disputes EXCEPT ![c] = EntryOf(c)']
      /\ index'.held = held
  BY DEF TellsDispute
<1>2. DisputesKnown'
  <2>1. index.disputes = [d \in 1 .. Len(candidates) |-> EntryOf(d)]
    BY DEF Following, DisputesKnown
  <2>2. Len(candidates') = Len(candidates)
    BY DEF Rewritten
  <2>3. ASSUME NEW d \in 1 .. Len(candidates), d # c PROVE EntryOf(d)' = EntryOf(d)
    <3>1. candidates'[d] = candidates[d] /\ challengers'[d] = challengers[d]
      BY <2>3 DEF Rewritten
    <3> QED
      BY <3>1, EntryKept
  <2>4. index'.disputes = [d \in 1 .. Len(candidates) |-> EntryOf(d)']
    BY <1>1, <2>1, <2>3
  <2> QED
    BY <2>2, <2>4 DEF DisputesKnown
<1>3. MoneyKnown'
  BY <1>1, MoneyFollows
<1>4. AddressesKnown'
  <2>1. \A r : InForce(r)' = InForce(r)
    BY DEF InForce, adminVars
  <2> QED
    BY <1>1, <2>1 DEF Following, AddressesKnown, SameAddresses, adminVars
<1>5. HaltKnown'
  BY <1>1 DEF Following, HaltKnown, SameHalt, adminVars
<1> QED
  BY <1>1, <1>2, <1>3, <1>4, <1>5 DEF Following

\* No news, of nothing that it would tell.
LEMMA NothingToFollow ==
  ASSUME Following, UNCHANGED <<index, candidates, challengers, collateral, balance>>,
         UNCHANGED <<treasury, paused, mode>>,
         config'.factory = config.factory, config'.market_contract = config.market_contract,
         \A r \in Registers : pending'[r] \in {pending[r], Unset}
  PROVE  Following'
<1>1. DisputesKnown'
  <2>1. \A c : EntryOf(c)' = EntryOf(c)
    BY DEF EntryOf, StakesOf
  <2> QED
    BY <2>1 DEF Following, DisputesKnown
<1>2. MoneyKnown'
  <2>1. Holdings' = Holdings
    BY DEF Holdings
  <2> QED
    BY <2>1 DEF Following, MoneyKnown
<1>3. AddressesKnown'
  <2>1. \A r : InForce(r)' = InForce(r)
    BY DEF InForce
  <2>2. \A r \in Registers : pending'[r] # Unset => pending'[r] = pending[r]
    OBVIOUS
  <2> QED
    BY <2>1, <2>2 DEF Following, AddressesKnown
<1>4. HaltKnown'
  BY DEF Following, HaltKnown
<1> QED
  BY <1>1, <1>2, <1>3, <1>4 DEF Following

-------------------------------------------------------------------------------
\* Every call is followed.

LEMMA OneHeard ==
  ASSUME NEW i, NEW e
  PROVE  FoldLeft(Heard, i, <<e>>) = Heard(i, e)
<1> DEFINE s == <<e>>
<1>1. DOMAIN s = 1 .. 1 /\ s[1] = e
  OBVIOUS
<1> HIDE DEF s
<1>2. PICK g : HeardOneByOne(g, i, s, 1) /\ FoldLeft(Heard, i, s) = g[1]
  BY <1>1, HeardInOrder
<1>3. g[0] = i /\ g[1] = Heard(g[1 - 1], s[1])
  BY <1>2 DEF HeardOneByOne
<1>4. 1 - 1 = 0
  OBVIOUS
<1> QED
  BY <1>1, <1>2, <1>3, <1>4 DEF s

LEMMA ChallengeFollows ==
  ASSUME TypeOK, TypeOK', Following, NEW c \in 1 .. Len(candidates), NEW u \in Users,
         NEW b \in Nat, Challenge(u, c, b), Publish(<<CandidateChallenged(c, u, b)>>)
  PROVE  Following'
<1> DEFINE old == candidates[c]
           new == [candidates[c] EXCEPT !.status = "Challenged", !.challenged_by = u]
           records == challengers[c]
           more == Append(challengers[c], [challenger |-> u, bond |-> b])
           t == GetCollateralToken(old.market_id)
<1>1. /\ old \in Candidate /\ records \in Seq(ChallengeRecord) /\ old.market_id \in Markets
      /\ old.bond_amount \in Nat
  BY Ids DEF TypeOK, Candidate
<1>2. /\ new \in Candidate /\ SetCandidate(c, new) /\ more \in Seq(ChallengeRecord)
      /\ challengers' = [challengers EXCEPT ![c] = more]
  BY ChallengeEffect
<1>3. /\ SameTerms(new, old) /\ new.status = "Challenged"
      /\ new.finalized_at = old.finalized_at
  BY <1>1 DEF SameTerms, Candidate
<1>4. /\ AssertVersion /\ TransferIn(t, u, b) /\ UNCHANGED <<adminVars, collateral>>
      /\ old.status = "Proposed"
  BY DEF Challenge, Challengeable
<1>5. t \in Tokens
  BY <1>1, <1>4, CollateralTokenType DEF TypeOK
<1>6. HeldOf' = [HeldOf EXCEPT ![t] = @ + b]
  BY <1>4, <1>5, TransferInHolds DEF TypeOK
<1>7. Live(old)
  BY <1>4 DEF Live
<1> HIDE DEF new, more, t
<1>8. Rewritten(c) /\ candidates'[c] = new /\ challengers'[c] = more
  BY <1>1, <1>2, <1>3, RewriteOne DEF TypeOK, SameTerms
<1>9. EntryOf(c)' = Entry(new, OpenStakes(old, records) (+) Stake(u, b))
  <2>1. Live(new)
    BY <1>3 DEF Live
  <2>2. StakesOf(c)' = OpenStakes(new, more)
    BY <1>8, <2>1, StakesByStatusNext
  <2>3. OpenStakes(new, more) = OpenStakes(old, records) (+) Stake(u, b)
    BY <1>1, <1>3, OpenAfterChallenge DEF SameTerms, more
  <2> QED
    BY <1>8, <2>2, <2>3 DEF EntryOf
<1>10. /\ IsIndex(index) /\ c \in DOMAIN index.disputes
       /\ index.disputes[c] = Entry(old, OpenStakes(old, records))
  BY <1>7, KnowsLive
<1>11. index' = Heard(index, CandidateChallenged(c, u, b))
  BY OneHeard DEF Publish
<1>12. TellsDispute(index, Heard(index, CandidateChallenged(c, u, b)), c,
                    Entry(new, OpenStakes(old, records) (+) Stake(u, b)), index.held + b)
  BY <1>3, <1>10, ChallengeHeard
<1>13. TellsDispute(index, index', c, EntryOf(c)', index.held + b)
  BY <1>9, <1>11, <1>12
<1>14. b \in Int /\ index.held + b = index.held + b
  OBVIOUS
<1> QED
  BY <1>4, <1>5, <1>6, <1>8, <1>13, <1>14, DisputeFollows

LEMMA AppealFollows ==
  ASSUME TypeOK, TypeOK', Following, NEW c \in 1 .. Len(candidates), NEW o \in BOOLEAN,
         NEW w \in WindowInputs, Appeal(c, o, w), Publish(<<CandidateAppealed(c, candidates'[c])>>)
  PROVE  Following'
<1> DEFINE old == candidates[c]
           new == [candidates[c] EXCEPT
                     !.outcome = o, !.proposed_at = now, !.challenge_deadline = now + w,
                     !.status = "Proposed", !.challenged_by = Unset, !.appeal_round = @ + 1]
           records == challengers[c]
           t == GetCollateralToken(old.market_id)
<1>1. /\ old \in Candidate /\ records \in Seq(ChallengeRecord) /\ old.market_id \in Markets
  BY Ids DEF TypeOK, Candidate
<1>2. new \in Candidate /\ SetCandidate(c, new) /\ UNCHANGED challengers
  BY AppealEffect
<1>3. /\ new.market_id = old.market_id /\ new.proposer = old.proposer
      /\ new.signature_expiry = old.signature_expiry /\ new.bond_amount = old.bond_amount
      /\ new.finalized_at = old.finalized_at /\ new.status = "Proposed"
  BY <1>1 DEF Candidate
<1>4. /\ AssertVersion /\ UNCHANGED <<adminVars, collateral, balance>> /\ old.status = "Challenged"
  BY DEF Appeal, Appealable, moneyVars
<1>5. t \in Tokens
  BY <1>1, <1>4, CollateralTokenType DEF TypeOK
<1>6. HeldOf' = [HeldOf EXCEPT ![t] = @ + 0]
  <2>1. HeldOf' = HeldOf /\ HeldOf \in [Tokens -> Nat]
    BY <1>4, HeldTyped DEF HeldOf, TypeOK
  <2> HIDE DEF t
  <2> QED
    BY <1>5, <2>1
<1>7. Live(old) /\ Live(new)
  BY <1>3, <1>4 DEF Live
<1> HIDE DEF new, t
<1>8. Rewritten(c) /\ candidates'[c] = new /\ challengers'[c] = records
  <2>1. challengers' = [challengers EXCEPT ![c] = records]
    BY <1>2 DEF TypeOK, DisputeTypeOK
  <2> QED
    BY <1>1, <1>2, <1>3, <2>1, RewriteOne DEF TypeOK
<1>9. EntryOf(c)' = Entry(new, OpenStakes(old, records))
  <2>1. StakesOf(c)' = OpenStakes(new, records)
    BY <1>7, <1>8, StakesByStatusNext
  <2>2. OpenStakes(new, records) = OpenStakes(old, records)
    BY <1>3 DEF OpenStakes
  <2> QED
    BY <1>8, <2>1, <2>2 DEF EntryOf
<1>10. /\ IsIndex(index) /\ c \in DOMAIN index.disputes
       /\ index.disputes[c] = Entry(old, OpenStakes(old, records))
  BY <1>7, KnowsLive
<1>11. index' = Heard(index, CandidateAppealed(c, new))
  BY <1>8, OneHeard DEF Publish
<1>12. TellsDispute(index, Heard(index, CandidateAppealed(c, new)), c,
                    Entry(new, OpenStakes(old, records)), index.held)
  BY <1>3, <1>10, AppealHeard
<1>13. TellsDispute(index, index', c, EntryOf(c)', index.held)
  BY <1>9, <1>11, <1>12
<1>14. index.held = index.held + 0 /\ 0 \in Int
  BY DEF Following, MoneyKnown
<1> QED
  BY <1>4, <1>5, <1>6, <1>8, <1>13, <1>14, DisputeFollows

LEMMA ProposalFollows ==
  ASSUME TypeOK, TypeOK', Following, OpenEvent
  PROVE  Following'
<1>1. PICK p \in Users, m \in Markets, o \in BOOLEAN, e \in ExpiryInputs,
           w \in WindowInputs, b \in BondInputs :
        /\ Propose(p, m, o, e, w, b) \/ ProposeV2(p, m, o, e, w, b)
        /\ Publish(<<CandidateProposed(Len(candidates'), Last(candidates'))>>)
  BY DEF OpenEvent
<1>2. PICK v \in {"V1", "V2"} : AddCandidate(FreshCandidate(p, m, o, v, e, w, b))
  BY <1>1 DEF Propose, ProposeV2
<1> PICK t, n : t = GetCollateralToken(m) /\ n = Len(candidates) + 1
  OBVIOUS
<1>3. AssertVersion /\ UNCHANGED <<adminVars, collateral>> /\ TransferIn(t, p, b)
  BY <1>1 DEF Propose, ProposeV2, Postable
<1>4. b \in Nat /\ e \in Nat /\ w \in Nat
  BY ConstantsAssumption
<1>5. t \in Tokens
  BY <1>3, CollateralTokenType DEF TypeOK
<1>6. HeldOf' = [HeldOf EXCEPT ![t] = @ + b]
  BY <1>3, <1>4, <1>5, TransferInHolds DEF TypeOK
<1>7. PICK cand \in Candidate : cand = FreshCandidate(p, m, o, v, e, w, b)
  BY <1>4, FreshCandidateType DEF TypeOK
<1>8. /\ cand.status = "Proposed" /\ cand.bond_amount = b /\ cand.appeal_round = 0
      /\ cand.finalized_at = 0 /\ AddCandidate(cand)
  BY <1>2, <1>7 DEF FreshCandidate
<1>9. /\ Len(candidates') = n /\ candidates'[n] = cand /\ challengers'[n] = <<>>
      /\ \A d \in 1 .. Len(candidates) : /\ candidates'[d] = candidates[d]
                                         /\ challengers'[d] = challengers[d]
  BY <1>8, AddCandidateEffect DEF TypeOK
<1>10. Len(candidates) \in Nat
  BY Ids DEF TypeOK
<1>11. index.disputes = [d \in 1 .. Len(candidates) |-> EntryOf(d)] /\ IsIndex(index)
  BY DEF Following, DisputesKnown
<1>12. Last(candidates') = cand
  BY <1>9 DEF Last
<1>13. index' = Heard(index, CandidateProposed(n, cand))
  <2>1. Publish(<<CandidateProposed(n, cand)>>)
    BY <1>1, <1>9, <1>12
  <2> QED
    BY <2>1, OneHeard DEF Publish
<1>14. n \notin DOMAIN index.disputes
  BY <1>10, <1>11
<1> DEFINE first == FirstStake(cand)
<1>15. /\ IsIndex(index') /\ SameAddresses(index, index') /\ SameHalt(index, index')
       /\ index'.disputes = WithEntry(index.disputes, n, Entry(cand, first))
       /\ index'.held = index.held + b
  <2>1. TellsProposal(index, index', n, cand)
    BY <1>8, <1>11, <1>13, <1>14, ProposalHeard
  <2> QED
    BY <1>8, <2>1 DEF TellsProposal
<1>16. DisputesKnown'
  <2>1. EntryOf(n)' = Entry(cand, first)
    <3>1. Live(candidates'[n])
      BY <1>8, <1>9 DEF Live
    <3>2. StakesOf(n)' = OpenStakes(cand, <<>>)
      BY <1>9, <3>1, StakesByStatusNext
    <3>3. OpenStakes(cand, <<>>) = first
      BY OpenAtFirst
    <3> HIDE DEF first
    <3> QED
      BY <1>9, <3>2, <3>3 DEF EntryOf
  <2>2. \A d \in 1 .. Len(candidates) : EntryOf(d)' = EntryOf(d)
    <3>1. ASSUME NEW d \in 1 .. Len(candidates) PROVE EntryOf(d)' = EntryOf(d)
      BY <1>9, EntryKept
    <3> QED
      BY <3>1
  <2>3. /\ 1 .. n = (1 .. Len(candidates)) \cup {n}
        /\ \A d \in 1 .. n : d # n => d \in 1 .. Len(candidates)
        /\ n \in 1 .. n /\ n \notin 1 .. Len(candidates)
    BY <1>10
  <2> HIDE DEF first
  <2>4. index'.disputes = [d \in 1 .. n |-> IF d # n THEN index.disputes[d] ELSE Entry(cand, first)]
    BY <1>11, <1>15, <2>3 DEF WithEntry
  <2>5. ASSUME NEW d \in 1 .. n
        PROVE  (IF d # n THEN index.disputes[d] ELSE Entry(cand, first)) = EntryOf(d)'
    BY <1>11, <2>1, <2>2, <2>3
  <2>6. index'.disputes = [d \in 1 .. n |-> EntryOf(d)']
    BY <2>4, <2>5
  <2> QED
    BY <1>9, <2>6 DEF DisputesKnown
<1>17. MoneyKnown'
  <2>1. b \in Int
    BY <1>4
  <2> QED
    BY <1>3, <1>5, <1>6, <1>15, <2>1, MoneyFollows
<1>18. AddressesKnown'
  <2>1. \A r : InForce(r)' = InForce(r)
    BY <1>3 DEF InForce, adminVars
  <2> QED
    BY <1>3, <1>15, <2>1 DEF Following, AddressesKnown, SameAddresses, adminVars
<1>19. HaltKnown'
  BY <1>3, <1>15 DEF Following, HaltKnown, SameHalt, adminVars
<1> QED
  BY <1>15, <1>16, <1>17, <1>18, <1>19 DEF Following

\* A conclusion gives every stake back or splits it, and the reader hears where to.
LEMMA ConclusionFollows ==
  ASSUME TypeOK, TypeOK', DisputesConsistent, Following,
         NEW c \in 1 .. Len(candidates), ConcludeEvent(c)
  PROVE  Following'
<1> PICK cand, records, bond : /\ cand = candidates[c] /\ records = challengers[c]
                               /\ bond = candidates[c].bond_amount
  OBVIOUS
<1>1. /\ cand \in Candidate /\ records \in Seq(ChallengeRecord) /\ bond \in Nat
      /\ cand.market_id \in Markets /\ treasury \in Treasuries \cup {Unset}
  BY Ids DEF TypeOK, AdminTypeOK, Candidate
<1> PICK t : t = GetCollateralToken(cand.market_id)
  OBVIOUS
<1>2. /\ AssertVersion /\ UNCHANGED <<adminVars, collateral>>
      /\ cand.status \in {"Proposed", "Challenged"}
  BY DEF ConcludeEvent, Finalize, ArbitrateUpholdProposer, VoidMarket, Finalizable,
     RequireArbitrable
<1>3. t \in Tokens
  BY <1>1, <1>2, CollateralTokenType DEF TypeOK
<1>4. Live(cand)
  BY <1>2 DEF Live
<1>5. Knows(index, c, cand, records) /\ index.held \in Int
  BY <1>4, KnowsLive DEF Following, MoneyKnown
<1>6. ASSUME NEW status \in {"Finalized", "Voided"}, Conclude(c, status)
      PROVE  /\ Rewritten(c) /\ SameTerms(candidates'[c], cand)
             /\ candidates'[c].status = status /\ candidates'[c].finalized_at = now
             /\ EntryOf(c)' = Entry(candidates'[c], EmptyBag)
  <2> DEFINE new == [candidates[c] EXCEPT !.status = status, !.finalized_at = now]
  <2>1. /\ new \in Candidate /\ SetCandidate(c, new) /\ <<>> \in Seq(ChallengeRecord)
        /\ challengers' = [challengers EXCEPT ![c] = <<>>] /\ DisputeTypeOK'
    BY <1>6, ConcludeEffect
  <2>2. SameTerms(new, cand) /\ new.status = status /\ new.finalized_at = now
    BY <1>1 DEF SameTerms, Candidate
  <2> HIDE DEF new
  <2>3. Rewritten(c) /\ candidates'[c] = new
    BY <2>1, <2>2, RewriteOne DEF TypeOK, SameTerms
  <2>4. ~Live(candidates'[c])
    BY <2>2, <2>3 DEF Live
  <2>5. EntryOf(c)' = Entry(candidates'[c], EmptyBag)
    BY <2>4, StakesByStatusNext DEF EntryOf
  <2> QED
    BY <2>2, <2>3, <2>5
<1>7. ASSUME NEW credit, NEW burned, TransferOut(t, credit, burned), credit[This] = 0,
             NEW paid \in Nat, SumFunction(credit) + burned = paid
      PROVE  HeldOf' = [HeldOf EXCEPT ![t] = @ + (0 - paid)]
  <2>1. HeldOf' = [HeldOf EXCEPT ![t] = @ - (SumFunction(credit) + burned)]
    BY <1>3, <1>7, TransferOutHolds DEF TypeOK
  <2>2. HeldOf \in [Tokens -> Nat]
    BY HeldTyped DEF TypeOK
  <2>3. HeldOf[t] - paid = HeldOf[t] + (0 - paid)
    BY <1>3, <2>2
  <2> QED
    BY <1>7, <2>1, <2>3
<1>8. ASSUME NEW paid \in Nat, HeldOf' = [HeldOf EXCEPT ![t] = @ + (0 - paid)], Rewritten(c),
             TellsDispute(index, index', c, EntryOf(c)', index.held - paid)
      PROVE  Following'
  <2>1. 0 - paid \in Int /\ index.held - paid = index.held + (0 - paid)
    BY <1>5
  <2> QED
    BY <1>2, <1>3, <1>8, <2>1, DisputeFollows
<1>9. ASSUME NEW e, Conclude(c, "Finalized"), SettleChallengersAsLosers(cand, records),
             e \in {CandidateFinalized(c, candidates'[c]),
                    CandidateArbitrated(c, candidates'[c].outcome)},
             Publish(Append(ChallengersSlashed(c), e))
      PROVE  Following'
  <2> DEFINE credit == UpheldCredit(cand, records)
             burned == Forfeited(records, "burned")
             paid == bond + SlashesPaid(records)
  <2> PICK new : new = candidates'[c]
    OBVIOUS
  <2>1. /\ Rewritten(c) /\ SameTerms(new, cand) /\ new.status = "Finalized"
        /\ new.finalized_at = now /\ EntryOf(c)' = Entry(new, EmptyBag)
    BY <1>6, <1>9
  <2>2. TransferOut(t, credit, burned)
    BY <1>9 DEF SettleChallengersAsLosers
  <2>3. /\ credit[This] = 0
        /\ SumFunction(credit)
             = bond + Forfeited(records, "reward") + Cut(Forfeited(records, "treasury"))
    BY <1>1, UpheldAddsUp
  <2>4. /\ Forfeited(records, "reward") \in Nat /\ burned \in Nat
        /\ Forfeited(records, "treasury") \in Nat
    BY <1>1, ForfeitedAddsUp
  <2>5. Cut(Forfeited(records, "treasury")) \in Nat
    BY <2>4 DEF Cut
  <2> HIDE DEF credit
  <2>6. paid \in Nat /\ SumFunction(credit) + burned = paid
    BY <1>1, <2>3, <2>4, <2>5 DEF SlashesPaid
  <2> HIDE DEF paid, burned
  <2>7. HeldOf' = [HeldOf EXCEPT ![t] = @ + (0 - paid)]
    BY <1>7, <2>2, <2>3, <2>6
  <2>8. e.at = now /\ e \in {CandidateFinalized(c, new), CandidateArbitrated(c, new.outcome)}
    BY <1>9, <2>1 DEF CandidateFinalized, CandidateArbitrated
  <2>9. TellsDispute(index, FoldLeft(Heard, index, Append(ChallengersSlashed(c), e)), c,
                     Entry(new, EmptyBag), index.held - paid)
    BY <1>1, <1>5, <2>1, <2>8, UpheldSettles DEF paid
  <2>10. TellsDispute(index, index', c, EntryOf(c)', index.held - paid)
    BY <1>9, <2>1, <2>9 DEF Publish
  <2> QED
    BY <1>8, <2>1, <2>6, <2>7, <2>10
<1>10. CASE /\ Finalize(c)
            /\ Publish(Append(ChallengersSlashed(c), CandidateFinalized(c, candidates'[c])))
  BY <1>9, <1>10 DEF Finalize
<1>11. CASE /\ ArbitrateUpholdProposer(c)
            /\ Publish(Append(ChallengersSlashed(c), CandidateArbitrated(c, candidates[c].outcome)))
  <2>1. Conclude(c, "Finalized") /\ SettleChallengersAsLosers(cand, records)
    BY <1>11 DEF ArbitrateUpholdProposer
  <2>2. candidates'[c].outcome = candidates[c].outcome
    BY <1>6, <2>1 DEF SameTerms
  <2> QED
    BY <1>9, <1>11, <2>1, <2>2
<1>12. CASE /\ VoidMarket(c)
            /\ Publish(<<ProposerSlashed(c)>> \o Append(ChallengersRefunded(c), MarketVoided(c)))
  <2> DEFINE credit == VoidedCredit(cand, records)
             burned == SplitBond(bond).burned
             paid == PaidOut(bond) + SumFunction(BondsPosted(records))
  <2> PICK new : new = candidates'[c]
    OBVIOUS
  <2>1. /\ Rewritten(c) /\ SameTerms(new, cand) /\ new.status = "Voided"
        /\ new.finalized_at = now /\ EntryOf(c)' = Entry(new, EmptyBag)
    <3>1. Conclude(c, "Voided")
      BY <1>12 DEF VoidMarket
    <3> QED
      BY <1>6, <3>1
  <2>2. TransferOut(t, credit, burned)
    BY <1>12 DEF VoidMarket
  <2>3. records # <<>>
    <3>1. CandidateOK(cand, records)
      BY DEF DisputesConsistent, CandidatesOK
    <3>2. cand.status = "Challenged" /\ cand.appeal_round \in Nat
      BY <1>1, <1>12, ConstantsAssumption DEF VoidMarket, RequireArbitrable, Candidate
    <3>3. Len(records) = cand.appeal_round + 1
      BY <3>1, <3>2 DEF CandidateOK, InStep, Live
    <3> QED
      BY <3>2, <3>3
  <2>4. /\ credit[This] = 0
        /\ SumFunction(credit)
             = SplitBond(bond).reward + SumFunction(BondsPosted(records))
                 + Cut(SplitBond(bond).treasury)
    BY <1>1, <2>3, VoidedAddsUp
  <2>5. /\ SplitBond(bond).reward \in Nat /\ burned \in Nat
        /\ Cut(SplitBond(bond).treasury) \in Nat
        /\ SumFunction(BondsPosted(records)) \in Nat /\ PaidOut(bond) \in Nat
        /\ PaidOut(bond) = SplitBond(bond).reward + burned + Cut(SplitBond(bond).treasury)
    <3>1. /\ SplitBond(bond).reward \in Nat /\ burned \in Nat
          /\ SplitBond(bond).treasury \in Nat
      BY <1>1, SplitAddsUp
    <3>2. Cut(SplitBond(bond).treasury) \in Nat
      BY <3>1 DEF Cut
    <3>3. SumFunction(BondsPosted(records)) \in Nat
      BY <1>1, RecordsTyped
    <3> QED
      BY <1>1, <3>1, <3>2, <3>3, PaidOutTyped
  <2> HIDE DEF credit, burned
  <2>6. paid \in Nat /\ SumFunction(credit) + burned = paid
    BY <2>4, <2>5
  <2> HIDE DEF paid
  <2>7. HeldOf' = [HeldOf EXCEPT ![t] = @ + (0 - paid)]
    BY <1>7, <2>2, <2>4, <2>6
  <2>8. TellsDispute(index, FoldLeft(Heard, index, <<ProposerSlashed(c)>>
                              \o Append(ChallengersRefunded(c), MarketVoided(c))), c,
                     Entry(new, EmptyBag), index.held - paid)
    BY <1>1, <1>5, <2>1, VoidedSettles DEF paid
  <2>9. TellsDispute(index, index', c, EntryOf(c)', index.held - paid)
    BY <1>12, <2>1, <2>8 DEF Publish
  <2> QED
    BY <1>8, <2>1, <2>6, <2>7, <2>9
<1> QED
  BY <1>10, <1>11, <1>12 DEF ConcludeEvent

\* Collateral is nobody's news.
LEMMA CollateralFollows ==
  ASSUME TypeOK, TypeOK', Following, CollateralEvent
  PROVE  Following'
<1> PICK p \in Users, token \in DepositTokens :
      \/ \E amount \in CollateralInputs : DepositCollateral(p, token, amount) /\ UNCHANGED index
      \/ \E recipient \in Users :
           /\ SlashCollateral(p, token, recipient)
           /\ Publish(<<CollateralSlashed(p, recipient, collateral[p])>>)
  BY DEF CollateralEvent
<1>1. CollateralStep
  BY DEF CollateralStep, CollateralEvent
<1>2. PICK q \in Users, d \in DepositTokens :
        Forfeiting(q, d) \/ \E amount \in Nat : Depositing(q, d, amount)
  BY <1>1, CollateralMoves
<1>3. UNCHANGED <<candidates, challengers, adminVars>>
  BY DEF DepositCollateral, SlashCollateral, disputeVars
<1>4. index' = index
  <2>1. IsIndex(index)
    BY DEF Following
  <2>2. ASSUME NEW x, NEW y, NEW z, Publish(<<CollateralSlashed(x, y, z)>>)
        PROVE  index' = index
    <3>1. index' = Heard(index, CollateralSlashed(x, y, z))
      BY <2>2, OneHeard DEF Publish
    <3> QED
      BY <2>1, <3>1, AdminHeard
  <2> QED
    BY <2>2
<1>5. d \in Tokens /\ collateral \in [Users -> Nat] /\ HeldOf \in [Tokens -> Nat]
      /\ Holdings \in Int
  BY ConstantsAssumption, HeldTyped, HoldingsTyped DEF TypeOK, MoneyTypeOK
<1>6. PICK change \in Int, amount \in Nat :
        /\ collateral' = [collateral EXCEPT ![q] = amount]
        /\ amount = collateral[q] + change
        /\ HeldOf' = [HeldOf EXCEPT ![d] = @ + change]
  <2>1. CASE Forfeiting(q, d)
    <3> PICK change : change = 0 - collateral[q]
      OBVIOUS
    <3>1. /\ change \in Int /\ 0 = collateral[q] + change
          /\ HeldOf[d] - collateral[q] = HeldOf[d] + change
      BY <1>5
    <3>2. /\ collateral' = [collateral EXCEPT ![q] = 0]
          /\ HeldOf' = [HeldOf EXCEPT ![d] = HeldOf[d] - collateral[q]]
      BY <2>1 DEF Forfeiting
    <3>3. HeldOf' = [HeldOf EXCEPT ![d] = HeldOf[d] + change]
      BY <3>1, <3>2
    <3> QED
      BY <3>1, <3>2, <3>3, 0 \in Nat
  <2>2. CASE \E amount \in Nat : Depositing(q, d, amount)
    <3>1. PICK more \in Nat : Depositing(q, d, more)
      BY <2>2
    <3>2. collateral[q] + more \in Nat /\ more \in Int
      BY <1>5
    <3> QED
      BY <3>1, <3>2 DEF Depositing
  <2> QED
    BY <1>2, <2>1, <2>2
<1>7. Holdings' = Holdings + change
  BY <1>5, <1>6, HoldingsFollow DEF TypeOK
<1>8. /\ SumFunction(collateral) \in Nat
      /\ SumFunction(collateral') = SumFunction(collateral) + amount - collateral[q]
  BY <1>5, <1>6, CollateralChanges
<1>9. collateral[q] \in Int
  BY <1>5
<1>10. MoneyKnown'
  <2> HIDE DEF Holdings
  <2>1. SumFunction(collateral') = SumFunction(collateral) + change
    BY <1>6, <1>8, <1>9
  <2>2. index.held \in Int /\ index.held + SumFunction(collateral) = Holdings
    BY DEF Following, MoneyKnown
  <2>3. index.held + SumFunction(collateral') = Holdings + change
    BY <1>5, <1>8, <2>1, <2>2
  <2> QED
    BY <1>4, <1>7, <2>2, <2>3 DEF MoneyKnown
<1>11. DisputesKnown'
  <2>1. \A c : EntryOf(c)' = EntryOf(c)
    BY <1>3 DEF EntryOf, StakesOf
  <2> QED
    BY <1>3, <1>4, <2>1 DEF Following, DisputesKnown
<1>12. AddressesKnown'
  <2>1. \A r : InForce(r)' = InForce(r)
    BY <1>3 DEF InForce, adminVars
  <2> QED
    BY <1>3, <1>4, <2>1 DEF Following, AddressesKnown, adminVars
<1>13. HaltKnown'
  BY <1>3, <1>4 DEF Following, HaltKnown, adminVars
<1> QED
  BY <1>4, <1>10, <1>11, <1>12, <1>13 DEF Following

\* News of addresses.
LEMMA AddressesFollow ==
  ASSUME Following, UNCHANGED <<candidates, challengers, collateral, balance, paused, mode>>,
         NEW inForce, NEW announced, TellsAddresses(index, index', inForce, announced),
         inForce = [r \in Registers |-> InForce(r)'],
         announced = [r \in Registers |-> announced[r]],
         \A r \in Registers : pending'[r] # Unset => announced[r] = pending'[r]
  PROVE  Following'
<1>1. /\ IsIndex(index') /\ SameDisputes(index, index') /\ SameHalt(index, index')
      /\ index'.inForce = inForce /\ index'.announced = announced
  BY DEF TellsAddresses
<1>2. DisputesKnown'
  <2>1. \A c : EntryOf(c)' = EntryOf(c)
    BY DEF EntryOf, StakesOf
  <2> QED
    BY <1>1, <2>1 DEF Following, DisputesKnown, SameDisputes
<1>3. MoneyKnown'
  <2>1. Holdings' = Holdings
    BY DEF Holdings
  <2> QED
    BY <1>1, <2>1 DEF Following, MoneyKnown, SameDisputes
<1>4. AddressesKnown'
  BY <1>1 DEF AddressesKnown
<1>5. HaltKnown'
  BY <1>1 DEF Following, HaltKnown, SameHalt
<1> QED
  BY <1>1, <1>2, <1>3, <1>4, <1>5 DEF Following

\* News of a halt.
LEMMA HaltFollows ==
  ASSUME Following, UNCHANGED <<candidates, challengers, collateral, balance, config, treasury>>,
         UNCHANGED pending, TellsHalt(index, index', paused', mode')
  PROVE  Following'
<1>1. /\ IsIndex(index') /\ SameDisputes(index, index') /\ SameAddresses(index, index')
      /\ index'.paused = paused' /\ index'.mode = mode'
  BY DEF TellsHalt
<1>2. DisputesKnown'
  <2>1. \A c : EntryOf(c)' = EntryOf(c)
    BY DEF EntryOf, StakesOf
  <2> QED
    BY <1>1, <2>1 DEF Following, DisputesKnown, SameDisputes
<1>3. MoneyKnown'
  <2>1. Holdings' = Holdings
    BY DEF Holdings
  <2> QED
    BY <1>1, <2>1 DEF Following, MoneyKnown, SameDisputes
<1>4. AddressesKnown'
  <2>1. \A r : InForce(r)' = InForce(r)
    BY DEF InForce
  <2> QED
    BY <1>1, <2>1 DEF Following, AddressesKnown, SameAddresses
<1>5. HaltKnown'
  BY <1>1 DEF HaltKnown
<1> QED
  BY <1>1, <1>2, <1>3, <1>4, <1>5 DEF Following

\* A register's address is announced, set, or withdrawn.
Announcing(r, address) ==
  ProposeAddress(r, address) /\ Publish(<<AddressProposed(r, pending'[r])>>)

Setting(r, address) ==
  /\ UNCHANGED <<candidates, challengers, collateral, balance, paused, mode>>
  /\ \A q \in Registers : pending'[q] \in {pending[q], Unset}
  /\ \A q \in Registers : InForce(q)' = IF q = r THEN address ELSE InForce(q)
  /\ Publish(<<AddressSet(r, address)>>)

LEMMA AnnouncingFollows ==
  ASSUME TypeOK, Following, NEW r \in Registers, NEW address, Announcing(r, address)
  PROVE  Following'
<1>1. index' = Heard(index, AddressProposed(r, pending'[r]))
  BY OneHeard DEF Announcing, Publish
<1>2. IsIndex(index) /\ AddressesKnown
  BY DEF Following
<1> DEFINE announced == [index.announced EXCEPT ![r] = pending'[r]]
<1>3. TellsAddresses(index, index', index.inForce, announced)
  BY <1>1, <1>2, AdminHeard
<1>4. UNCHANGED <<candidates, challengers, collateral, balance, paused, mode, config, treasury>>
  BY DEF Announcing, ProposeAddress, disputeVars, moneyVars
<1>5. index.inForce = [q \in Registers |-> InForce(q)']
  <2>1. \A q : InForce(q)' = InForce(q)
    BY <1>4 DEF InForce
  <2> QED
    BY <1>2, <2>1 DEF AddressesKnown
<1>6. announced = [q \in Registers |-> announced[q]]
  BY <1>2 DEF AddressesKnown
<1>7. \A q \in Registers : pending'[q] # Unset => announced[q] = pending'[q]
  <2>1. \A q \in Registers : q # r => pending'[q] = pending[q]
    BY DEF Announcing, ProposeAddress, TypeOK, AdminTypeOK
  <2> QED
    BY <1>2, <2>1 DEF AddressesKnown
<1> HIDE DEF announced
<1> QED
  BY <1>3, <1>4, <1>5, <1>6, <1>7, AddressesFollow

LEMMA SettingFollows ==
  ASSUME Following, NEW r \in Registers, NEW address, Setting(r, address)
  PROVE  Following'
<1>1. index' = Heard(index, AddressSet(r, address))
  BY OneHeard DEF Setting, Publish
<1>2. IsIndex(index) /\ AddressesKnown
  BY DEF Following
<1> DEFINE inForce == [index.inForce EXCEPT ![r] = address]
<1>3. TellsAddresses(index, index', inForce, index.announced)
  BY <1>1, <1>2, AdminHeard
<1>4. inForce = [q \in Registers |-> InForce(q)']
  <2>1. \A q \in Registers : InForce(q)' = IF q = r THEN address ELSE InForce(q)
    BY DEF Setting
  <2>2. index.inForce = [q \in Registers |-> InForce(q)]
    BY <1>2 DEF AddressesKnown
  <2>3. inForce = [q \in Registers |-> IF q = r THEN address ELSE InForce(q)]
    BY <2>2
  <2> HIDE DEF inForce
  <2> QED
    BY <2>1, <2>3
<1>5. /\ index.announced = [q \in Registers |-> index.announced[q]]
      /\ \A q \in Registers : pending'[q] # Unset => index.announced[q] = pending'[q]
  <2>1. \A q \in Registers : pending'[q] # Unset => pending'[q] = pending[q]
    BY DEF Setting
  <2> QED
    BY <1>2, <2>1 DEF AddressesKnown
<1>6. UNCHANGED <<candidates, challengers, collateral, balance, paused, mode>>
  BY DEF Setting
<1> HIDE DEF inForce
<1> QED
  BY <1>3, <1>4, <1>5, <1>6, AddressesFollow

LEMMA AddressEventFollows ==
  ASSUME TypeOK, Following, AddressEvent
  PROVE  Following'
<1>1. config \in ResolutionConfig /\ pending \in [Registers -> PendingAddressChange \cup {Unset}]
  BY DEF TypeOK, AdminTypeOK
<1>2. {"factory", "treasury", "market_contract"} = Registers
  BY DEF Registers
<1>3. ASSUME NEW r \in Registers, NEW a, Due(r, a)
      PROVE  /\ UNCHANGED <<candidates, challengers, collateral, balance, paused, mode>>
             /\ \A q \in Registers : pending'[q] \in {pending[q], Unset}
  BY <1>1, <1>3 DEF Due, disputeVars, moneyVars
<1>4. ASSUME NEW r \in Registers, CancelAddress(r), UNCHANGED index PROVE Following'
  <2>1. /\ UNCHANGED <<index, candidates, challengers, collateral, balance>>
        /\ UNCHANGED <<treasury, paused, mode, config>>
        /\ \A q \in Registers : pending'[q] \in {pending[q], Unset}
    BY <1>1, <1>4 DEF CancelAddress, disputeVars, moneyVars
  <2> QED
    BY <2>1, NothingToFollow
<1>5. CASE \E f \in FactoryInputs :
             \/ ProposeFactory(f) /\ Publish(<<AddressProposed("factory", pending'["factory"])>>)
             \/ ExecuteFactory(f) /\ Publish(<<AddressSet("factory", f)>>)
  <2> PICK f \in FactoryInputs :
             \/ ProposeFactory(f) /\ Publish(<<AddressProposed("factory", pending'["factory"])>>)
             \/ ExecuteFactory(f) /\ Publish(<<AddressSet("factory", f)>>)
    BY <1>5
  <2>1. CASE ProposeFactory(f) /\ Publish(<<AddressProposed("factory", pending'["factory"])>>)
    <3>1. Announcing("factory", f)
      BY <2>1 DEF ProposeFactory, Announcing
    <3> QED
      BY <1>2, <3>1, AnnouncingFollows
  <2>2. CASE ExecuteFactory(f) /\ Publish(<<AddressSet("factory", f)>>)
    <3>1. \A q \in Registers : InForce(q)' = IF q = "factory" THEN f ELSE InForce(q)
      BY <1>1, <2>2 DEF ExecuteFactory, InForce, Registers, ResolutionConfig
    <3>2. Due("factory", f)
      BY <2>2 DEF ExecuteFactory
    <3>3. Setting("factory", f)
      BY <1>2, <1>3, <2>2, <3>1, <3>2 DEF Setting
    <3> QED
      BY <1>2, <3>3, SettingFollows
  <2> QED
    BY <2>1, <2>2
<1>6. CASE \E t \in TreasuryInputs :
             \/ ProposeTreasury(t) /\ Publish(<<AddressProposed("treasury", pending'["treasury"])>>)
             \/ ExecuteTreasury(t) /\ Publish(<<AddressSet("treasury", t)>>)
  <2> PICK t \in TreasuryInputs :
             \/ ProposeTreasury(t) /\ Publish(<<AddressProposed("treasury", pending'["treasury"])>>)
             \/ ExecuteTreasury(t) /\ Publish(<<AddressSet("treasury", t)>>)
    BY <1>6
  <2>1. CASE ProposeTreasury(t) /\ Publish(<<AddressProposed("treasury", pending'["treasury"])>>)
    <3>1. Announcing("treasury", t)
      BY <2>1 DEF ProposeTreasury, Announcing
    <3> QED
      BY <1>2, <3>1, AnnouncingFollows
  <2>2. CASE ExecuteTreasury(t) /\ Publish(<<AddressSet("treasury", t)>>)
    <3>1. \A q \in Registers : InForce(q)' = IF q = "treasury" THEN t ELSE InForce(q)
      BY <1>1, <2>2 DEF ExecuteTreasury, InForce, Registers, ResolutionConfig
    <3>2. Due("treasury", t)
      BY <2>2 DEF ExecuteTreasury
    <3>3. Setting("treasury", t)
      BY <1>2, <1>3, <2>2, <3>1, <3>2 DEF Setting
    <3> QED
      BY <1>2, <3>3, SettingFollows
  <2> QED
    BY <2>1, <2>2
<1>7. CASE \E k \in MarketContractInputs :
             \/ /\ ProposeMarketContract(k)
                /\ Publish(<<AddressProposed("market_contract", pending'["market_contract"])>>)
             \/ /\ ExecuteMarketContract(k) \/ SetMarketContract(k)
                /\ Publish(<<AddressSet("market_contract", k)>>)
  <2> PICK k \in MarketContractInputs :
             \/ /\ ProposeMarketContract(k)
                /\ Publish(<<AddressProposed("market_contract", pending'["market_contract"])>>)
             \/ /\ ExecuteMarketContract(k) \/ SetMarketContract(k)
                /\ Publish(<<AddressSet("market_contract", k)>>)
    BY <1>7
  <2>1. CASE /\ ProposeMarketContract(k)
             /\ Publish(<<AddressProposed("market_contract", pending'["market_contract"])>>)
    <3>1. Announcing("market_contract", k)
      BY <2>1 DEF ProposeMarketContract, Announcing
    <3> QED
      BY <1>2, <3>1, AnnouncingFollows
  <2>2. CASE /\ ExecuteMarketContract(k) \/ SetMarketContract(k)
             /\ Publish(<<AddressSet("market_contract", k)>>)
    <3>1. \A q \in Registers : InForce(q)' = IF q = "market_contract" THEN k ELSE InForce(q)
      BY <1>1, <2>2 DEF ExecuteMarketContract, SetMarketContract, InForce, Registers,
         ResolutionConfig
    <3>2. /\ UNCHANGED <<candidates, challengers, collateral, balance, paused, mode>>
          /\ \A q \in Registers : pending'[q] \in {pending[q], Unset}
      <4>1. CASE ExecuteMarketContract(k)
        BY <1>2, <1>3, <4>1 DEF ExecuteMarketContract
      <4>2. CASE SetMarketContract(k)
        BY <4>2 DEF SetMarketContract, disputeVars, moneyVars
      <4> QED
        BY <2>2, <4>1, <4>2
    <3>3. Setting("market_contract", k)
      BY <2>2, <3>1, <3>2 DEF Setting
    <3> QED
      BY <1>2, <3>3, SettingFollows
  <2> QED
    BY <2>1, <2>2
<1>8. CASE (CancelFactory \/ CancelTreasury \/ CancelMarketContract) /\ UNCHANGED index
  BY <1>2, <1>4, <1>8 DEF CancelFactory, CancelTreasury, CancelMarketContract
<1> QED
  BY <1>5, <1>6, <1>7, <1>8 DEF AddressEvent

LEMMA HaltEventFollows ==
  ASSUME TypeOK, Following, HaltEvent
  PROVE  Following'
<1>1. config \in ResolutionConfig /\ pending \in [Registers -> PendingAddressChange \cup {Unset}]
  BY DEF TypeOK, AdminTypeOK
<1>2. IsIndex(index) /\ AddressesKnown /\ HaltKnown
  BY DEF Following
<1>3. ASSUME NEW f \in Factories, NEW k \in MarketContracts, NEW w \in WindowInputs,
             Initialize(f, k, w), Publish(<<ResolutionRegistered(f, k)>>)
      PROVE  Following'
  <2> DEFINE inForce == [[index.inForce EXCEPT !["factory"] = f] EXCEPT !["market_contract"] = k]
  <2>1. index' = Heard(index, ResolutionRegistered(f, k))
    BY <1>3, OneHeard DEF Publish
  <2>2. TellsAddresses(index, index', inForce, index.announced)
    BY <1>2, <2>1, AdminHeard
  <2>3. /\ UNCHANGED <<candidates, challengers, collateral, balance, paused, mode, pending, treasury>>
        /\ config'.factory = f /\ config'.market_contract = k
    BY <1>3 DEF Initialize, disputeVars, moneyVars
  <2>4. inForce = [r \in Registers |-> InForce(r)']
    <3>1. \A r \in Registers : InForce(r)' = IF r = "market_contract" THEN k
                                             ELSE IF r = "factory" THEN f ELSE InForce(r)
      BY <2>3 DEF InForce, Registers
    <3>2. index.inForce = [r \in Registers |-> InForce(r)]
      BY <1>2 DEF AddressesKnown
    <3>3. inForce = [r \in Registers |-> IF r = "market_contract" THEN k
                                         ELSE IF r = "factory" THEN f ELSE InForce(r)]
      BY <3>2 DEF Registers
    <3> HIDE DEF inForce
    <3> QED
      BY <3>1, <3>3
  <2>5. /\ index.announced = [r \in Registers |-> index.announced[r]]
        /\ \A r \in Registers : pending'[r] # Unset => index.announced[r] = pending'[r]
    BY <1>2, <2>3 DEF AddressesKnown
  <2> HIDE DEF inForce
  <2> QED
    BY <2>2, <2>3, <2>4, <2>5, AddressesFollow
<1>4. ASSUME NEW w \in WindowInputs, SetDefaultChallengeWindow(w), UNCHANGED index
      PROVE  Following'
  <2>1. /\ UNCHANGED <<index, candidates, challengers, collateral, balance>>
        /\ UNCHANGED <<treasury, paused, mode>>
        /\ config'.factory = config.factory /\ config'.market_contract = config.market_contract
        /\ \A r \in Registers : pending'[r] \in {pending[r], Unset}
    BY <1>1, <1>4 DEF SetDefaultChallengeWindow, disputeVars, moneyVars, ResolutionConfig
  <2> QED
    BY <2>1, NothingToFollow
<1>5. ASSUME NEW new_mode \in ModeInputs, SetEmergencyMode(new_mode),
             Publish(<<EmergencyModeChanged(new_mode)>>)
      PROVE  Following'
  <2>1. /\ UNCHANGED <<candidates, challengers, collateral, balance, config, treasury>>
        /\ UNCHANGED <<pending, paused>> /\ mode' = new_mode
    BY <1>5 DEF SetEmergencyMode, disputeVars, moneyVars
  <2>2. index' = Heard(index, EmergencyModeChanged(new_mode))
    BY <1>5, OneHeard DEF Publish
  <2>3. TellsHalt(index, index', index.paused, new_mode)
    BY <1>2, <2>2, AdminHeard
  <2>4. TellsHalt(index, index', paused', mode')
    BY <1>2, <2>1, <2>3 DEF HaltKnown
  <2> QED
    BY <2>1, <2>4, HaltFollows
<1>6. ASSUME NEW flag, SetPaused(flag), TellsHalt(index, index', flag, index.mode)
      PROVE  Following'
  <2>1. /\ UNCHANGED <<candidates, challengers, collateral, balance, config, treasury>>
        /\ UNCHANGED <<pending, mode>> /\ paused' = flag
    BY <1>6 DEF SetPaused, disputeVars, moneyVars
  <2>2. TellsHalt(index, index', paused', mode')
    BY <1>2, <1>6, <2>1 DEF HaltKnown
  <2> QED
    BY <2>1, <2>2, HaltFollows
<1>7. CASE Pause /\ Publish(<<ResolutionPaused>>)
  <2>1. index' = Heard(index, ResolutionPaused)
    BY <1>7, OneHeard DEF Publish
  <2>2. TellsHalt(index, index', TRUE, index.mode)
    BY <1>2, <2>1, AdminHeard
  <2> QED
    BY <1>6, <1>7, <2>2 DEF Pause
<1>8. CASE Unpause /\ Publish(<<ResolutionUnpaused>>)
  <2>1. index' = Heard(index, ResolutionUnpaused)
    BY <1>8, OneHeard DEF Publish
  <2>2. TellsHalt(index, index', FALSE, index.mode)
    BY <1>2, <2>1, AdminHeard
  <2> QED
    BY <1>6, <1>8, <2>2 DEF Unpause
<1> QED
  BY <1>3, <1>4, <1>5, <1>7, <1>8 DEF HaltEvent

LEMMA EventFollows ==
  ASSUME TypeOK, TypeOK', DisputesConsistent, Following, [EventsNext]_eventVars
  PROVE  Following'
<1>1. pending \in [Registers -> PendingAddressChange \cup {Unset}]
  BY DEF TypeOK, AdminTypeOK
<1>2. CASE ((Tick \/ EnvironmentStep) /\ UNCHANGED index) \/ UNCHANGED eventVars
  <2>1. /\ UNCHANGED <<index, candidates, challengers, collateral, balance>>
        /\ UNCHANGED <<treasury, paused, mode, config, pending>>
    BY <1>2 DEF Tick, EnvironmentStep, MoveGate, SettledElsewhere, adminVars, disputeVars,
       moneyVars, eventVars, vars
  <2> QED
    BY <2>1, NothingToFollow
<1>3. CASE \E c \in DOMAIN candidates : ContestEvent(c) \/ ConcludeEvent(c)
  <2> PICK c \in 1 .. Len(candidates) : ContestEvent(c) \/ ConcludeEvent(c)
    BY <1>3, Ids DEF TypeOK
  <2>1. CASE ConcludeEvent(c)
    BY <2>1, ConclusionFollows
  <2>2. CASE \E u \in Users, b \in BondInputs :
               Challenge(u, c, b) /\ Publish(<<CandidateChallenged(c, u, b)>>)
    BY <2>2, ChallengeFollows, ConstantsAssumption
  <2>3. CASE \E o \in BOOLEAN, w \in WindowInputs :
               Appeal(c, o, w) /\ Publish(<<CandidateAppealed(c, candidates'[c])>>)
    BY <2>3, AppealFollows
  <2> QED
    BY <2>1, <2>2, <2>3 DEF ContestEvent
<1> QED
  BY <1>2, <1>3, ProposalFollows, CollateralFollows, AddressEventFollows, HaltEventFollows
     DEF EventsNext

\* What a reader knows, it knows field by field.
LEMMA KnownFollows ==
  ASSUME TypeOK, Following
  PROVE  IndexFollows
<1>1. DOMAIN candidates = 1 .. Len(candidates)
  BY Ids DEF TypeOK
<1>2. index.disputes = [c \in 1 .. Len(candidates) |-> EntryOf(c)]
  BY DEF Following, DisputesKnown
<1>3. ASSUME NEW c \in DOMAIN candidates PROVE DisputeFollowed(c)
  <2>1. index.disputes[c] = Entry(candidates[c], StakesOf(c))
    BY <1>1, <1>2 DEF EntryOf
  <2> DEFINE d == Entry(candidates[c], StakesOf(c))
  <2>2. /\ \A field \in DOMAIN d \ {"open"} : d[field] = candidates[c][field]
        /\ d.open = StakesOf(c)
    BY DEF Entry
  <2> QED
    BY <2>1, <2>2 DEF DisputeFollowed
<1>4. index.inForce = [r \in Registers |->
        CASE r = "factory"         -> config.factory
          [] r = "market_contract" -> config.market_contract
          [] r = "treasury"        -> treasury]
  BY DEF Following, AddressesKnown, InForce
<1>5. DOMAIN index.disputes = DOMAIN candidates
  BY <1>1, <1>2
<1>6. /\ index.held + SumFunction(collateral) = Holdings
      /\ <<index.paused, index.mode>> = <<paused, mode>>
      /\ \A r \in Registers : pending[r] # Unset => index.announced[r] = pending[r]
  BY DEF Following, MoneyKnown, AddressesKnown, HaltKnown
<1> QED
  BY <1>3, <1>4, <1>5, <1>6 DEF IndexFollows

\* Init.
LEMMA SilenceFollows ==
  ASSUME EventsInit
  PROVE  Following
<1>1. /\ candidates = <<>> /\ collateral = [u \in Users |-> 0] /\ index = Silence
      /\ paused = FALSE /\ mode = "Normal" /\ pending = [r \in Registers |-> Unset]
      /\ config.factory = Unset /\ config.market_contract = Unset /\ treasury = Unset
      /\ \A t \in Tokens : balance[t][This] = 0
  BY AccountsAreFinite DEF EventsInit, Init
<1>2. IsIndex(index)
  BY <1>1 DEF Silence, IsIndex
<1>3. DisputesKnown
  <2>1. index.disputes = <<>> /\ 1 .. Len(candidates) = {}
    BY <1>1 DEF Silence
  <2> QED
    BY <2>1 DEF DisputesKnown
<1>4. MoneyKnown
  <2>1. index.held = 0
    BY <1>1 DEF Silence
  <2>2. Holdings = 0
    <3>1. IsFiniteSet(Tokens) /\ \A t \in Tokens : HeldOf[t] = 0
      BY <1>1, AccountsAreFinite DEF HeldOf
    <3>2. SumFunctionOnSet(HeldOf, Tokens) = 0
      BY <3>1, SumOfZeros
    <3> QED
      BY <3>2 DEF Holdings, HeldOf, SumFunction
  <2>3. SumFunction(collateral) = 0
    <3>1. IsFiniteSet(Users) /\ \A u \in Users : collateral[u] = 0 /\ DOMAIN collateral = Users
      BY <1>1, AccountsAreFinite
    <3>2. SumFunctionOnSet(collateral, Users) = 0
      BY <3>1, SumOfZeros
    <3> QED
      BY <1>1, <3>2 DEF SumFunction
  <2> QED
    BY <2>1, <2>2, <2>3 DEF MoneyKnown
<1>5. AddressesKnown
  <2>1. \A r \in Registers : InForce(r) = Unset
    BY <1>1 DEF InForce, Registers
  <2> QED
    BY <1>1, <2>1 DEF Silence, AddressesKnown
<1>6. HaltKnown
  BY <1>1 DEF Silence, HaltKnown
<1> QED
  BY <1>2, <1>3, <1>4, <1>5, <1>6 DEF Following

\* Every call with its events is a call.
LEMMA EventsNextIsNext ==
  ASSUME [EventsNext]_eventVars
  PROVE  [Next]_vars
<1>1. CASE UNCHANGED eventVars
  BY <1>1 DEF eventVars
<1>2. CASE OpenEvent
  BY <1>2 DEF OpenEvent, Next, ProposeStep
<1>3. CASE \E c \in DOMAIN candidates : ContestEvent(c) \/ ConcludeEvent(c)
  BY <1>3 DEF ContestEvent, ConcludeEvent, Next, DisputeStep
<1>4. CASE CollateralEvent
  BY <1>4 DEF CollateralEvent, Next, CollateralStep
<1>5. CASE AddressEvent
  BY <1>5 DEF AddressEvent, Next, AdminStep
<1>6. CASE HaltEvent
  BY <1>6 DEF HaltEvent, Next, AdminStep
<1>7. CASE Tick \/ EnvironmentStep
  BY <1>7 DEF Next
<1> QED
  BY <1>1, <1>2, <1>3, <1>4, <1>5, <1>6, <1>7 DEF EventsNext

\* Who hears nothing but the events knows every dispute and every bond in it, which
\* address is in force where, and what the contract holds besides the collateral,
\* through any number of appeals and however long the challenger list of a settlement
\* is.
THEOREM DisputeReadersAlwaysFollow == EventsSpec => []IndexFollows
<1>1. EventsInit => Following
  BY SilenceFollows
<1>2. TypeOK /\ TypeOK' /\ DisputesConsistent /\ Following /\ [EventsNext]_eventVars => Following'
  BY EventFollows
<1>3. TypeOK /\ Following => IndexFollows
  BY KnownFollows
<1>4. EventsInit => Init
  BY DEF EventsInit
<1>5. [EventsNext]_eventVars => [Next]_vars
  BY EventsNextIsNext
<1>6. EventsSpec => Spec
  BY <1>4, <1>5, PTL DEF EventsSpec, Spec
<1> QED
  BY <1>1, <1>2, <1>3, <1>6, Consistent, PTL DEF EventsSpec

-------------------------------------------------------------------------------
\* Who pays for a dispute.

\* What u has at stake in a dispute.
StakedBy(cand, records, u) ==
  (IF u = cand.proposer THEN cand.bond_amount ELSE 0) + PostedBy(records, u)

\* While a dispute lives, what the users have of its token (have) lacks their stakes;
\* when it is over, whoever was wrong has less than at first.
StakesAreOut(cand, records, have) ==
  /\ cand.bond_amount > 0
  /\ \A i \in DOMAIN records : records[i].bond > 0
  /\ \A u \in Users : have[u] + StakedBy(cand, records, u) = Funds
  /\ cand.status = "Proposed" => cand.challenged_by = Unset

ProposerUpheld(cand, have) ==
  /\ \A u \in Users \ {cand.proposer} : have[u] <= Funds
  /\ cand.challenged_by \notin {Unset, cand.proposer} => have[cand.challenged_by] < Funds
  /\ cand.appeal_round = 0 /\ cand.challenged_by = Unset => have[cand.proposer] = Funds

ProposerLost(cand, have) ==
  /\ \A u \in Users \ {cand.proposer} : have[u] >= Funds
  /\ have[cand.proposer] < Funds

Paid(cand, records, have) ==
  /\ Live(cand) => StakesAreOut(cand, records, have)
  /\ cand.status = "Finalized" => ProposerUpheld(cand, have)
  /\ cand.status = "Voided" => ProposerLost(cand, have)

\* What an account posted is a sum over a part of the list, and one more record adds its
\* bond to what its challenger posted.
LEMMA PostedByAppend ==
  ASSUME NEW records \in Seq(ChallengeRecord), NEW u \in Users, NEW b \in Nat, NEW a \in Users
  PROVE  PostedBy(Append(records, [challenger |-> u, bond |-> b]), a)
           = PostedBy(records, a) + (IF a = u THEN b ELSE 0)
<1> DEFINE r == [challenger |-> u, bond |-> b]
           more == Append(records, r)
           n == Len(records)
           f == [i \in DOMAIN records |-> records[i].bond]
           g == [i \in DOMAIN more |-> more[i].bond]
           F == {i \in DOMAIN records : records[i].challenger = a}
           G == {i \in DOMAIN more : more[i].challenger = a}
<1>1. /\ n \in Nat /\ DOMAIN records = 1 .. n
      /\ IsFiniteSet(DOMAIN records)
      /\ \A i \in DOMAIN records : records[i].bond \in Nat
  BY RecordsTyped
<1>2. /\ DOMAIN more = DOMAIN records \cup {n + 1}
      /\ more[n + 1] = r /\ n + 1 \notin DOMAIN records
      /\ \A i \in DOMAIN records : more[i] = records[i]
  <2>1. r \in ChallengeRecord
    BY DEF ChallengeRecord
  <2> HIDE DEF r
  <2>2. /\ DOMAIN more = 1 .. n + 1 /\ more[n + 1] = r
        /\ \A i \in 1 .. n : more[i] = records[i]
    BY <1>1, <2>1
  <2> QED
    BY <1>1, <2>2
<1>3. /\ \A i \in F : g[i] = f[i] /\ f[i] \in Nat
      /\ IsFiniteSet(F) /\ F \subseteq DOMAIN records
  <2>1. IsFiniteSet(F)
    BY <1>1, FS_Subset
  <2> QED
    BY <1>1, <1>2, <2>1
<1>4. /\ PostedBy(records, a) = SumFunctionOnSet(f, F)
      /\ PostedBy(more, a) = SumFunctionOnSet(g, G)
  BY DEF PostedBy
<1>5. SumFunctionOnSet(f, F) \in Nat /\ SumFunctionOnSet(g, F) = SumFunctionOnSet(f, F)
  <2> HIDE DEF f, g, F
  <2> QED
    BY <1>3, SumOfNats, SumAgrees
<1>6. CASE a = u
  <2>1. G = F \cup {n + 1} /\ n + 1 \notin F /\ g[n + 1] = b
    BY <1>2, <1>6
  <2>2. \A i \in F : g[i] \in Int
    <3> HIDE DEF f, g, F
    <3> QED
      BY <1>3
  <2>3. SumFunctionOnSet(g, F \cup {n + 1}) = SumFunctionOnSet(g, F) + g[n + 1]
    <3> HIDE DEF f, g, F, G, n
    <3> QED
      BY <1>3, <2>1, <2>2, SumInsert
  <2> HIDE DEF f, g, F, G, n, more
  <2> QED
    BY <1>4, <1>5, <1>6, <2>1, <2>3 DEF more
<1>7. CASE a # u
  <2>1. G = F
    BY <1>2, <1>7
  <2> HIDE DEF f, g, F, G, n, more
  <2> QED
    BY <1>4, <1>5, <1>7, <2>1 DEF more
<1> QED
  BY <1>6, <1>7

\* Nobody is in an empty list, and whoever is in one posted at least that bond.
LEMMA PostedByOne ==
  ASSUME NEW records \in Seq(ChallengeRecord), NEW u \in Users
  PROVE  /\ PostedBy(records, u) \in Nat
         /\ records = <<>> => PostedBy(records, u) = 0
         /\ \A i \in DOMAIN records :
              records[i].challenger = u => PostedBy(records, u) >= records[i].bond
<1> DEFINE f == [i \in DOMAIN records |-> records[i].bond]
           F == {i \in DOMAIN records : records[i].challenger = u}
<1>1. IsFiniteSet(DOMAIN records) /\ \A i \in DOMAIN records : records[i].bond \in Nat
  BY RecordsTyped
<1>2. IsFiniteSet(F) /\ \A i \in F : f[i] \in Nat
  <2>1. IsFiniteSet(F)
    BY <1>1, FS_Subset
  <2> QED
    BY <1>1, <2>1
<1>3. PostedBy(records, u) = SumFunctionOnSet(f, F)
  BY DEF PostedBy
<1>4. SumFunctionOnSet(f, F) \in Nat /\ \A i \in F : f[i] <= SumFunctionOnSet(f, F)
  <2> HIDE DEF f, F
  <2> QED
    BY <1>2, SumOfNats
<1>5. records = <<>> => F = {}
  OBVIOUS
<1>6. records = <<>> => SumFunctionOnSet(f, F) = 0
  <2> HIDE DEF f, F
  <2> QED
    BY <1>5, SumOfNothing
<1>7. \A i \in DOMAIN records : records[i].challenger = u => i \in F /\ f[i] = records[i].bond
  OBVIOUS
<1> HIDE DEF f, F
<1> QED
  BY <1>1, <1>3, <1>4, <1>6, <1>7

\* Stakes are posted: the proposer's with the candidate ...
LEMMA ProposingPays ==
  ASSUME NEW cand \in Candidate, cand.status = "Proposed", cand.challenged_by = Unset,
         cand.bond_amount > 0, NEW have \in [Users -> Nat], \A u \in Users : have[u] = Funds
  PROVE  Paid(cand, <<>>, [have EXCEPT ![cand.proposer] = @ - cand.bond_amount])
<1>1. /\ cand.proposer \in Users /\ cand.bond_amount \in Nat /\ Funds \in Nat
      /\ <<>> \in Seq(ChallengeRecord)
  BY ConstantsAssumption, EmptySeq DEF Candidate
<1>2. \A u \in Users : PostedBy(<<>>, u) = 0
  BY <1>1, PostedByOne
<1>3. \A u \in Users :
        [have EXCEPT ![cand.proposer] = @ - cand.bond_amount][u]
          + StakedBy(cand, <<>>, u) = Funds
  BY <1>1, <1>2 DEF StakedBy
<1> QED
  BY <1>3 DEF Paid, StakesAreOut

\* ... a challenger's with the challenge ...
LEMMA ChallengingPays ==
  ASSUME NEW old \in Candidate, NEW new \in Candidate, old.status = "Proposed",
         new.status = "Challenged", new.proposer = old.proposer,
         new.bond_amount = old.bond_amount, NEW records \in Seq(ChallengeRecord),
         NEW have \in [Users -> Nat], Paid(old, records, have),
         NEW u \in Users, NEW b \in Nat, b > 0
  PROVE  Paid(new, Append(records, [challenger |-> u, bond |-> b]),
              [have EXCEPT ![u] = @ - b])
<1> DEFINE r == [challenger |-> u, bond |-> b]
           more == Append(records, r)
           left == [have EXCEPT ![u] = @ - b]
<1>1. /\ StakesAreOut(old, records, have)
      /\ old.proposer \in Users /\ old.bond_amount \in Nat /\ Funds \in Nat
  BY ConstantsAssumption DEF Paid, Live, Candidate
<1>2. \A i \in DOMAIN more : more[i].bond > 0
  <2>1. r \in ChallengeRecord /\ r.bond = b
    BY DEF ChallengeRecord
  <2> HIDE DEF r
  <2>2. \A i \in DOMAIN more : (i \in DOMAIN records /\ more[i] = records[i]) \/ more[i] = r
    BY <2>1
  <2> QED
    BY <1>1, <2>1, <2>2 DEF StakesAreOut
<1>3. ASSUME NEW a \in Users
      PROVE  left[a] + StakedBy(new, more, a) = Funds
  <2>1. PostedBy(more, a) = PostedBy(records, a) + (IF a = u THEN b ELSE 0)
    BY PostedByAppend
  <2>2. PostedBy(records, a) \in Nat /\ have[a] \in Nat
    BY PostedByOne
  <2>3. have[a] + StakedBy(old, records, a) = Funds
    BY <1>1 DEF StakesAreOut
  <2>4. left[a] = have[a] - (IF a = u THEN b ELSE 0)
    BY <2>2
  <2> HIDE DEF more, left
  <2> QED
    BY <1>1, <2>1, <2>2, <2>3, <2>4 DEF StakedBy
<1> HIDE DEF more, left
<1>4. Paid(new, more, left)
  BY <1>1, <1>2, <1>3 DEF Paid, StakesAreOut
<1> QED
  BY <1>4 DEF more, left

\* ... and none with an appeal.
LEMMA AppealingPays ==
  ASSUME NEW old, NEW new, Live(old), new.status = "Proposed", new.challenged_by = Unset,
         new.proposer = old.proposer, new.bond_amount = old.bond_amount,
         NEW records, NEW have, Paid(old, records, have)
  PROVE  Paid(new, records, have)
BY DEF Paid, Live, StakesAreOut, StakedBy

\* If the outcome stands, the proposer has its bond back, and whoever challenged it is
\* short of its own.
LEMMA UpholdingPays ==
  ASSUME NEW old \in Candidate, NEW new, Live(old), new.status = "Finalized",
         new.proposer = old.proposer, new.challenged_by = old.challenged_by,
         new.appeal_round = old.appeal_round,
         NEW records \in Seq(ChallengeRecord), InStep(old, records),
         NEW have \in [Users -> Nat], Paid(old, records, have),
         NEW left, \A u \in Users :
           left[u] = have[u] + (IF u = old.proposer
                                THEN old.bond_amount + Forfeited(records, "reward") ELSE 0)
  PROVE  Paid(new, <<>>, left)
<1> DEFINE p == old.proposer
           v == old.challenged_by
<1>1. /\ StakesAreOut(old, records, have)
      /\ p \in Users /\ old.bond_amount \in Nat /\ Funds \in Nat
      /\ old.appeal_round \in Nat /\ v \in Users \cup {Unset} /\ Unset \notin Users
  BY ConstantsAssumption DEF Paid, Candidate
<1>2. Forfeited(records, "reward") \in Nat
  BY ForfeitedAddsUp
<1>3. /\ DOMAIN records = 1 .. Len(records) /\ Len(records) \in Nat
      /\ \A i \in DOMAIN records : records[i].bond \in Nat
  BY RecordsTyped
<1>4. ASSUME NEW u \in Users
      PROVE  /\ have[u] + StakedBy(old, records, u) = Funds
             /\ have[u] \in Nat /\ PostedBy(records, u) \in Nat
  BY <1>1, PostedByOne DEF StakesAreOut
<1>5. ASSUME NEW u \in Users, u # p
      PROVE  left[u] = have[u] /\ have[u] + PostedBy(records, u) = Funds
  BY <1>1, <1>4, <1>5 DEF StakedBy
<1>6. \A u \in Users \ {p} : left[u] <= Funds
  BY <1>1, <1>4, <1>5
<1>7. ASSUME v \notin {Unset, p}
      PROVE  left[v] < Funds
  <2>1. v \in Users /\ v # p /\ old.status = "Challenged"
    BY <1>1, <1>7 DEF StakesAreOut, Live
  <2>2. v = records[Len(records)].challenger /\ Len(records) \in DOMAIN records
    BY <1>1, <1>3, <2>1 DEF InStep, Live
  <2>3. records[Len(records)].bond > 0
    BY <1>1, <2>2 DEF StakesAreOut
  <2>4. PostedBy(records, v) >= records[Len(records)].bond
    BY <2>1, <2>2, PostedByOne
  <2>5. left[v] = have[v] /\ have[v] + PostedBy(records, v) = Funds
    BY <1>5, <2>1
  <2>6. have[v] \in Nat /\ PostedBy(records, v) \in Nat
    BY <1>4, <2>1
  <2> QED
    BY <1>1, <1>3, <2>2, <2>3, <2>4, <2>5, <2>6
<1>8. ASSUME old.appeal_round = 0, v = Unset
      PROVE  left[p] = Funds
  <2>1. old.status = "Proposed"
    <3>1. SUFFICES ASSUME old.status = "Challenged" PROVE FALSE
      BY DEF Live
    <3>2. v = records[Len(records)].challenger /\ Len(records) \in DOMAIN records
      BY <1>1, <1>3, <3>1 DEF InStep, Live
    <3>3. records[Len(records)].challenger \in Users
      BY <3>2, RecordsTyped
    <3> QED
      BY <1>1, <1>8, <3>2, <3>3
  <2>2. records = <<>>
    <3>1. Len(records) = 0
      BY <1>8, <2>1 DEF InStep, Live
    <3> QED
      BY <3>1, EmptySeq
  <2>3. Forfeited(records, "reward") = 0
    <3> DEFINE f == [i \in DOMAIN records |-> SplitBond(records[i].bond)["reward"]]
    <3>1. DOMAIN f = {}
      BY <2>2
    <3> HIDE DEF f
    <3>2. SumFunction(f) = 0
      BY <3>1, SumOfNothing DEF SumFunction
    <3> QED
      BY <3>2 DEF f, Forfeited
  <2>4. PostedBy(records, p) = 0
    BY <1>1, <2>2, PostedByOne
  <2>5. have[p] + old.bond_amount = Funds
    BY <1>1, <1>4, <2>4 DEF StakedBy
  <2>6. left[p] = have[p] + old.bond_amount
    BY <1>1, <2>3
  <2> QED
    BY <2>5, <2>6
<1>9. ProposerUpheld(new, left)
  BY <1>6, <1>7, <1>8 DEF ProposerUpheld
<1> QED
  BY <1>9 DEF Paid, Live

GainVoided(cand, records, winner, have, left) ==
  \A u \in Users :
    left[u] = have[u] + ((IF u = winner THEN SplitBond(cand.bond_amount).reward ELSE 0)
                          + PostedBy(records, u))

\* If the market is voided, every challenger has its bond back, and the proposer is short
\* of its own: the reward it may get, having challenged itself, is half of that.
LEMMA VoidingPays ==
  ASSUME NEW old \in Candidate, NEW new, old.status = "Challenged", new.status = "Voided",
         new.proposer = old.proposer,
         NEW records \in Seq(ChallengeRecord),
         NEW have \in [Users -> Nat], Paid(old, records, have), NEW winner,
         NEW left, GainVoided(old, records, winner, have, left)
  PROVE  Paid(new, <<>>, left)
<1> DEFINE p == old.proposer
           reward == SplitBond(old.bond_amount).reward
<1>1. /\ StakesAreOut(old, records, have)
      /\ p \in Users /\ old.bond_amount \in Nat /\ old.bond_amount > 0 /\ Funds \in Nat
  BY ConstantsAssumption DEF Paid, Live, Candidate, StakesAreOut
<1>2. reward \in Nat /\ reward < old.bond_amount
  <2>1. (old.bond_amount * 5000) \div 10000 = old.bond_amount \div 2
    BY <1>1
  <2>2. reward = old.bond_amount \div 2
    BY <2>1 DEF SplitBond, REWARD_BPS, BPS_DENOMINATOR
  <2> HIDE DEF reward
  <2> QED
    BY <1>1, <2>2
<1> HIDE DEF reward
<1>3. ASSUME NEW u \in Users
      PROVE  /\ have[u] + StakedBy(old, records, u) = Funds
             /\ have[u] \in Nat /\ PostedBy(records, u) \in Nat
             /\ left[u] = have[u] + ((IF u = winner THEN reward ELSE 0) + PostedBy(records, u))
  BY <1>1, PostedByOne DEF StakesAreOut, reward, GainVoided
<1>4. \A u \in Users \ {p} : left[u] >= Funds
  <2> TAKE u \in Users \ {p}
  <2>1. have[u] + PostedBy(records, u) = Funds
    BY <1>3 DEF StakedBy
  <2> QED
    BY <1>1, <1>2, <1>3, <2>1
<1>5. left[p] < Funds
  <2>1. have[p] + (old.bond_amount + PostedBy(records, p)) = Funds
    BY <1>1, <1>3 DEF StakedBy
  <2> QED
    BY <1>1, <1>2, <1>3, <2>1
<1>6. ProposerLost(new, left)
  BY <1>4, <1>5 DEF ProposerLost
<1> QED
  BY <1>6 DEF Paid, Live

-------------------------------------------------------------------------------
\* What of a token the users have.

HaveOf(t) == [u \in Users |-> balance[t][u]]

LEMMA HaveTyped ==
  ASSUME MoneyTypeOK, NEW t \in Tokens
  PROVE  HaveOf(t) \in [Users -> Nat]
BY AccountsAreFinite DEF HaveOf, MoneyTypeOK

\* A transfer into this contract takes from one of them.
LEMMA TransferInTakes ==
  ASSUME MoneyTypeOK, NEW token \in Tokens, NEW from \in Users, NEW amount \in Nat,
         TransferIn(token, from, amount)
  PROVE  /\ HaveOf(token)' = [HaveOf(token) EXCEPT ![from] = @ - amount]
         /\ \A t \in Tokens : t # token => HaveOf(t)' = HaveOf(t)
<1>1. /\ balance \in [Tokens -> [Accounts -> Nat]]
      /\ Users \subseteq Accounts /\ This \in Accounts /\ This \notin Users
  BY AccountsAreFinite DEF MoneyTypeOK
<1>2. balance' = [balance EXCEPT ![token][from] = @ - amount, ![token][This] = @ + amount]
  BY DEF TransferIn
<1>3. \A u \in Users :
        balance'[token][u] = IF u = from THEN balance[token][u] - amount ELSE balance[token][u]
  BY <1>1, <1>2
<1>4. \A t \in Tokens : t # token => balance'[t] = balance[t]
  BY <1>1, <1>2
<1> QED
  BY <1>3, <1>4 DEF HaveOf

\* One out of it gives to those it credits.
LEMMA TransferOutGives ==
  ASSUME MoneyTypeOK, NEW token \in Tokens, NEW credit, NEW burned,
         TransferOut(token, credit, burned)
  PROVE  /\ \A u \in Users : (HaveOf(token)')[u] = HaveOf(token)[u] + credit[u]
         /\ \A t \in Tokens : t # token => HaveOf(t)' = HaveOf(t)
<1>1. /\ balance \in [Tokens -> [Accounts -> Nat]]
      /\ Users \subseteq Accounts /\ This \in Accounts /\ This \notin Users
  BY AccountsAreFinite DEF MoneyTypeOK
<1> DEFINE out == SumFunction(credit) + burned
           paid == [a \in Accounts |->
                      balance[token][a] + credit[a] - (IF a = This THEN out ELSE 0)]
<1>2. balance' = [balance EXCEPT ![token] = paid] /\ credit \in [Accounts -> Nat]
  BY DEF TransferOut
<1> HIDE DEF out
<1>3. \A u \in Users : paid[u] = balance[token][u] + credit[u]
  BY <1>1, <1>2
<1> HIDE DEF paid
<1>4. \A u \in Users : balance'[token][u] = balance[token][u] + credit[u]
  BY <1>1, <1>2, <1>3
<1>5. \A t \in Tokens : t # token => balance'[t] = balance[t]
  BY <1>1, <1>2
<1> QED
  BY <1>4, <1>5 DEF HaveOf

-------------------------------------------------------------------------------
\* Losing costs, where a balance can be compared with what it was at first: no two
\* markets share a token, no collateral is deposited in a market's token, and no
\* treasury is a user.
TokensBackOneMarket ==
  \A j, k \in MarketContracts, m, n \in Markets :
    CollateralToken[j][m] = CollateralToken[k][n] => m = n

CollateralElsewhere ==
  \A k \in MarketContracts, m \in Markets : CollateralToken[k][m] \notin DepositTokens

TreasuriesApart == Treasuries \cap Users = {}

\* What a step leaves alone: what the users have of other tokens, and other candidates.
OnlyMoves(token) == \A t \in Tokens : t # token => HaveOf(t)' = HaveOf(t)

OnlyTouches(c) ==
  \A d \in 1 .. Len(candidates') : d # c =>
    /\ d \in 1 .. Len(candidates)
    /\ candidates'[d] = candidates[d] /\ challengers'[d] = challengers[d]

MarketPaid(m, have) ==
  /\ byMarket[m] = 0 => \A u \in Users : have[u] = Funds
  /\ \A c \in 1 .. Len(candidates) :
       candidates[c].market_id = m => Paid(candidates[c], challengers[c], have)

EveryoneIsPaid ==
  /\ Len(candidates) > 0 => AssertVersion
  /\ \A k \in MarketContracts, m \in Markets : MarketPaid(m, HaveOf(CollateralToken[k][m]))

LEMMA TokensAreTyped ==
  ASSUME NEW k \in MarketContracts, NEW m \in Markets
  PROVE  CollateralToken[k][m] \in Tokens
BY ConstantsAssumption

\* A contract that has been initialized stays so.
LEMMA VersionStays ==
  ASSUME TypeOK, AssertVersion, [Next]_vars
  PROVE  AssertVersion' /\ config.market_contract \in MarketContracts
<1>1. config.market_contract \in MarketContracts
  BY DEF TypeOK, AdminTypeOK, ResolutionConfig, AssertVersion
<1>2. CASE AdminStep
  <2>1. \/ config' = config
        \/ \E w \in WindowInputs : config' = [config EXCEPT !.challenge_window_secs = w]
        \/ \E f \in FactoryInputs : config' = [config EXCEPT !.factory = f]
        \/ \E k \in MarketContractInputs : config' = [config EXCEPT !.market_contract = k]
    BY <1>2 DEF AdminStep, Initialize, SetDefaultChallengeWindow, SetMarketContract,
       ProposeMarketContract, ProposeFactory, ProposeTreasury, ProposeAddress,
       CancelFactory, CancelMarketContract, CancelTreasury, CancelAddress,
       ExecuteFactory, ExecuteMarketContract, ExecuteTreasury, Due,
       SetEmergencyMode, Pause, Unpause, SetPaused, AssertVersion
  <2>2. MarketContractInputs \subseteq MarketContracts /\ Unset \notin MarketContracts
    BY ConstantsAssumption
  <2>3. config \in ResolutionConfig
    BY DEF TypeOK, AdminTypeOK
  <2> QED
    BY <1>1, <2>1, <2>2, <2>3 DEF AssertVersion, ResolutionConfig
<1>3. CASE ~AdminStep
  <2>1. UNCHANGED adminVars
    <3>1. CASE ProposeStep
      BY <3>1 DEF ProposeStep, Propose, ProposeV2
    <3>2. CASE DisputeStep
      BY <3>2 DEF DisputeStep, Challenge, Appeal, Finalize, ArbitrateUpholdProposer, VoidMarket
    <3>3. CASE CollateralStep
      BY <3>3 DEF CollateralStep, DepositCollateral, SlashCollateral
    <3>4. CASE EnvironmentStep
      BY <3>4 DEF EnvironmentStep, SettledElsewhere, MoveGate
    <3>5. CASE Tick \/ UNCHANGED vars
      BY <3>5 DEF Tick, vars
    <3> QED
      BY <1>3, <3>1, <3>2, <3>3, <3>4, <3>5 DEF Next
  <2>2. config' = config
    BY <2>1 DEF adminVars
  <2> QED
    BY <1>1, <2>2 DEF AssertVersion
<1> QED
  BY <1>1, <1>2, <1>3

\* A step that touches no dispute and no market's token.
LEMMA NobodyIsTouched ==
  ASSUME EveryoneIsPaid, AssertVersion => AssertVersion',
         UNCHANGED <<candidates, byMarket, challengers>>,
         \A k \in MarketContracts, m \in Markets :
           HaveOf(CollateralToken[k][m])' = HaveOf(CollateralToken[k][m])
  PROVE  EveryoneIsPaid'
<1>1. Len(candidates') > 0 => AssertVersion'
  BY DEF EveryoneIsPaid
<1>2. ASSUME NEW k \in MarketContracts, NEW m \in Markets
      PROVE  MarketPaid(m, HaveOf(CollateralToken[k][m]))'
  <2>1. MarketPaid(m, HaveOf(CollateralToken[k][m]))
    BY DEF EveryoneIsPaid
  <2>2. HaveOf(CollateralToken[k][m])' = HaveOf(CollateralToken[k][m])
    OBVIOUS
  <2> QED
    BY <2>1, <2>2 DEF MarketPaid
<1> QED
  BY <1>1, <1>2 DEF EveryoneIsPaid

\* A step that touches the dispute of one market, and of balances only those in its token.
LEMMA OneMarketIsTouched ==
  ASSUME MarketsKeepTheirToken, TokensBackOneMarket,
         DisputeTypeOK, OneCandidatePerMarket, EveryoneIsPaid, AssertVersion',
         NEW k \in MarketContracts, NEW m \in Markets, NEW token, token = CollateralToken[k][m],
         NEW c \in Nat, c # 0, byMarket[m] \in {0, c},
         byMarket' = [byMarket EXCEPT ![m] = c],
         OnlyTouches(c), candidates'[c].market_id = m, OnlyMoves(token),
         Paid(candidates'[c], challengers'[c], HaveOf(token)')
  PROVE  EveryoneIsPaid'
<1>1. ASSUME NEW j \in MarketContracts, NEW n \in Markets
      PROVE  MarketPaid(n, HaveOf(CollateralToken[j][n]))'
  <2> PICK t \in Tokens : t = CollateralToken[j][n]
    BY TokensAreTyped
  <2>1. MarketPaid(n, HaveOf(t))
    BY DEF EveryoneIsPaid
  <2>2. byMarket \in [Markets -> Nat]
    BY DEF DisputeTypeOK
  <2>3. ASSUME NEW d \in 1 .. Len(candidates'), d # c
        PROVE  candidates'[d] = candidates[d] /\ challengers'[d] = challengers[d]
               /\ candidates[d].market_id # m /\ d \in 1 .. Len(candidates)
    <3>1. d \in DOMAIN candidates /\ d # 0
      BY <2>3, Ids DEF OnlyTouches
    <3>2. byMarket[candidates[d].market_id] = d
      BY <3>1 DEF OneCandidatePerMarket
    <3> QED
      BY <2>3, <3>1, <3>2 DEF OnlyTouches
  <2>4. CASE n = m
    <3>1. t = token
      BY <2>4 DEF MarketsKeepTheirToken
    <3>2. byMarket'[n] # 0
      BY <2>2, <2>4
    <3>3. \A d \in 1 .. Len(candidates') : candidates'[d].market_id = m => d = c
      BY <2>3
    <3>4. \A d \in 1 .. Len(candidates') :
            candidates'[d].market_id = n => Paid(candidates'[d], challengers'[d], HaveOf(t)')
      BY <2>4, <3>1, <3>3
    <3>5. MarketPaid(n, HaveOf(t))'
      BY <3>2, <3>4 DEF MarketPaid
    <3> QED
      BY <3>5
  <2>5. CASE n # m
    <3>1. t # token
      BY <2>5 DEF TokensBackOneMarket
    <3>2. HaveOf(t)' = HaveOf(t)
      BY <3>1 DEF OnlyMoves
    <3>3. byMarket'[n] = byMarket[n]
      BY <2>2, <2>5
    <3>4. \A d \in 1 .. Len(candidates') :
            candidates'[d].market_id = n => Paid(candidates'[d], challengers'[d], HaveOf(t)')
      <4> SUFFICES ASSUME NEW d \in 1 .. Len(candidates'), candidates'[d].market_id = n
                   PROVE  Paid(candidates'[d], challengers'[d], HaveOf(t)')
        OBVIOUS
      <4>1. d # c
        BY <2>5
      <4>2. /\ d \in 1 .. Len(candidates)
            /\ candidates'[d] = candidates[d] /\ challengers'[d] = challengers[d]
        BY <2>3, <4>1
      <4>3. Paid(candidates[d], challengers[d], HaveOf(t))
        BY <2>1, <4>2 DEF MarketPaid
      <4> QED
        BY <3>2, <4>2, <4>3
    <3>5. MarketPaid(n, HaveOf(t))'
      BY <2>1, <3>2, <3>3, <3>4 DEF MarketPaid
    <3> QED
      BY <3>5
  <2> QED
    BY <2>4, <2>5
<1> QED
  BY <1>1 DEF EveryoneIsPaid

\* No step changes who proposed.
LEMMA ProposerStays ==
  ASSUME DisputeTypeOK, NEW c \in 1 .. Len(candidates), NEW status, NEW u, NEW b,
         NEW w, NEW o,
         Challenge(u, c, b) \/ Appeal(c, o, w) \/ Conclude(c, status)
  PROVE  candidates'[c].proposer = candidates[c].proposer
<1>1. candidates[c] \in Candidate /\ c \in DOMAIN candidates
  BY Ids
<1>2. CASE Challenge(u, c, b)
  <2>1. candidates'[c] = [candidates[c] EXCEPT !.status = "Challenged", !.challenged_by = u]
    BY <1>1, <1>2 DEF Challenge, SetCandidate
  <2> QED
    BY <1>1, <2>1 DEF Candidate
<1>3. CASE Appeal(c, o, w)
  <2>1. candidates'[c] = [candidates[c] EXCEPT
           !.outcome = o, !.proposed_at = now, !.challenge_deadline = now + w,
           !.status = "Proposed", !.challenged_by = Unset, !.appeal_round = @ + 1]
    BY <1>1, <1>3 DEF Appeal, SetCandidate
  <2> QED
    BY <1>1, <2>1 DEF Candidate
<1>4. CASE Conclude(c, status)
  <2>1. candidates'[c] = [candidates[c] EXCEPT !.status = status, !.finalized_at = now]
    BY <1>1, <1>4 DEF Conclude, SetCandidate
  <2> QED
    BY <1>1, <2>1 DEF Candidate
<1> QED
  BY <1>2, <1>3, <1>4

LEMMA MarketIsTyped ==
  ASSUME TypeOK, NEW c \in 1 .. Len(candidates)
  PROVE  candidates[c].market_id \in Markets
BY Ids DEF TypeOK, Candidate

\* What a dispute of a candidate and its market's token owes to whom, before a step.
LEMMA PaidBefore ==
  ASSUME TypeOK, EveryoneIsPaid, NEW k \in MarketContracts, NEW c \in 1 .. Len(candidates),
         NEW token, token = CollateralToken[k][candidates[c].market_id]
  PROVE  /\ Paid(candidates[c], challengers[c], HaveOf(token))
         /\ HaveOf(token) \in [Users -> Nat] /\ token \in Tokens
         /\ candidates[c] \in Candidate /\ candidates[c].market_id \in Markets
         /\ challengers[c] \in Seq(ChallengeRecord)
<1>1. /\ candidates[c] \in Candidate /\ candidates[c].market_id \in Markets
      /\ challengers[c] \in Seq(ChallengeRecord)
  BY Ids DEF TypeOK, Candidate
<1>2. token \in Tokens
  BY <1>1, TokensAreTyped
<1>3. HaveOf(token) \in [Users -> Nat]
  BY <1>2, HaveTyped DEF TypeOK
<1>4. Paid(candidates[c], challengers[c], HaveOf(token))
  BY <1>1 DEF EveryoneIsPaid, MarketPaid
<1> QED
  BY <1>1, <1>2, <1>3, <1>4

\* A candidate that is rewritten, in a step that moves no other token.
LEMMA RewrittenIsTouched ==
  ASSUME MarketsKeepTheirToken, TokensBackOneMarket,
         TypeOK, OneCandidatePerMarket, EveryoneIsPaid, AssertVersion',
         NEW k \in MarketContracts, NEW c \in 1 .. Len(candidates), Rewritten(c),
         NEW token, token = CollateralToken[k][candidates[c].market_id],
         OnlyMoves(token),
         Paid(candidates'[c], challengers'[c], HaveOf(token)')
  PROVE  EveryoneIsPaid'
<1>1. DisputeTypeOK /\ candidates[c].market_id \in Markets /\ c \in DOMAIN candidates
  BY Ids DEF TypeOK, Candidate
<1> PICK m \in Markets : m = candidates[c].market_id
  BY <1>1
<1>2. byMarket[m] = c /\ c \in Nat /\ c # 0
  BY <1>1 DEF OneCandidatePerMarket
<1>3. /\ byMarket' = [byMarket EXCEPT ![m] = c] /\ candidates'[c].market_id = m
      /\ OnlyTouches(c)
  BY DEF Rewritten, OnlyTouches
<1>4. token = CollateralToken[k][m]
  OBVIOUS
<1> QED
  BY <1>1, <1>2, <1>3, <1>4, OneMarketIsTouched

LEMMA ProposalPays ==
  ASSUME MarketsKeepTheirToken, TokensBackOneMarket,
         TypeOK, TypeOK', OneCandidatePerMarket, EveryoneIsPaid, [Next]_vars, ProposeStep
  PROVE  EveryoneIsPaid'
<1>1. PICK p \in Users, m \in Markets, o \in BOOLEAN, e \in ExpiryInputs,
           w \in WindowInputs, b \in BondInputs :
        Propose(p, m, o, e, w, b) \/ ProposeV2(p, m, o, e, w, b)
  BY DEF ProposeStep
<1>2. PICK v \in {"V1", "V2"} : AddCandidate(FreshCandidate(p, m, o, v, e, w, b))
  BY <1>1 DEF Propose, ProposeV2
<1>3. /\ AssertVersion /\ byMarket[m] = 0 /\ b >= MIN_BOND_AMOUNT
      /\ TransferIn(GetCollateralToken(m), p, b)
  BY <1>1 DEF Propose, ProposeV2, Postable
<1>4. /\ b \in Nat /\ b > 0 /\ e \in Nat /\ w \in Nat /\ now \in Nat /\ DisputeTypeOK
      /\ MoneyTypeOK
  <2>1. MIN_BOND_AMOUNT \in Nat \ {0} /\ b \in Nat /\ e \in Nat /\ w \in Nat
    BY ConstantsAssumption
  <2> QED
    BY <1>3, <2>1 DEF TypeOK
<1>5. config.market_contract \in MarketContracts /\ AssertVersion'
  BY <1>3, VersionStays
<1> PICK k \in MarketContracts, token \in Tokens :
      token = CollateralToken[k][m] /\ token = GetCollateralToken(m)
  BY <1>5, TokensAreTyped DEF GetCollateralToken
<1> PICK c \in Nat : c = Len(candidates) + 1
  BY <1>4, Ids
<1> PICK cand \in Candidate : cand = FreshCandidate(p, m, o, v, e, w, b)
  BY <1>4, FreshCandidateType
<1>6. /\ cand.market_id = m /\ cand.proposer = p /\ cand.bond_amount = b
      /\ cand.status = "Proposed" /\ cand.challenged_by = Unset
  BY DEF FreshCandidate
<1>7. /\ Len(candidates') = c /\ candidates'[c] = cand /\ challengers'[c] = <<>>
      /\ byMarket' = [byMarket EXCEPT ![m] = c]
      /\ \A d \in 1 .. Len(candidates) :
           candidates'[d] = candidates[d] /\ challengers'[d] = challengers[d]
  BY <1>2, <1>4, <1>6, AddCandidateEffect
<1>8. Len(candidates) \in Nat
  BY <1>4, Ids
<1>9. OnlyTouches(c)
  BY <1>7, <1>8 DEF OnlyTouches
<1>10. /\ HaveOf(token)' = [HaveOf(token) EXCEPT ![p] = @ - b]
       /\ OnlyMoves(token)
  BY <1>3, <1>4, TransferInTakes DEF OnlyMoves
<1>11. HaveOf(token) \in [Users -> Nat] /\ \A u \in Users : HaveOf(token)[u] = Funds
  <2>1. HaveOf(token) \in [Users -> Nat]
    BY <1>4, HaveTyped
  <2>2. MarketPaid(m, HaveOf(token))
    BY DEF EveryoneIsPaid
  <2> QED
    BY <1>3, <2>1, <2>2 DEF MarketPaid
<1>12. Paid(cand, <<>>, [HaveOf(token) EXCEPT ![cand.proposer] = @ - cand.bond_amount])
  BY <1>4, <1>6, <1>11, ProposingPays
<1>13. Paid(candidates'[c], challengers'[c], HaveOf(token)')
  BY <1>6, <1>7, <1>10, <1>12
<1>14. c # 0 /\ byMarket[m] \in {0, c} /\ candidates'[c].market_id = m
  BY <1>3, <1>6, <1>7, <1>8
<1> QED
  BY <1>4, <1>5, <1>7, <1>9, <1>10, <1>13, <1>14, OneMarketIsTouched

LEMMA ChallengePays ==
  ASSUME MarketsKeepTheirToken, TokensBackOneMarket,
         TypeOK, TypeOK', OneCandidatePerMarket, EveryoneIsPaid, [Next]_vars,
         NEW c \in 1 .. Len(candidates), NEW u \in Users, NEW b \in Nat, Challenge(u, c, b)
  PROVE  EveryoneIsPaid'
<1>1. /\ AssertVersion /\ b >= MIN_CHALLENGE_BOND_AMOUNT
      /\ TransferIn(GetCollateralToken(candidates[c].market_id), u, b)
  BY DEF Challenge
<1>2. b > 0
  <2>1. MIN_CHALLENGE_BOND_AMOUNT \in Nat \ {0}
    BY ConstantsAssumption
  <2> QED
    BY <1>1, <2>1
<1>3. config.market_contract \in MarketContracts /\ AssertVersion'
  BY <1>1, VersionStays
<1> PICK k \in MarketContracts, token \in Tokens :
      /\ token = CollateralToken[k][candidates[c].market_id]
      /\ token = GetCollateralToken(candidates[c].market_id)
  BY <1>3, TokensAreTyped, MarketIsTyped DEF GetCollateralToken
<1> PICK old, records : old = candidates[c] /\ records = challengers[c]
  OBVIOUS
<1>4. /\ Paid(old, records, HaveOf(token))
      /\ HaveOf(token) \in [Users -> Nat] /\ token \in Tokens
      /\ old \in Candidate /\ records \in Seq(ChallengeRecord)
  BY PaidBefore
<1>5. /\ Rewritten(c) /\ old.status = "Proposed" /\ candidates'[c].status = "Challenged"
      /\ challengers'[c] = Append(records, [challenger |-> u, bond |-> b])
  BY AfterChallenge
<1>6. candidates'[c].proposer = old.proposer /\ candidates'[c].bond_amount = old.bond_amount
  BY <1>5, ProposerStays DEF Rewritten, TypeOK
<1>7. candidates'[c] \in Candidate
  <2>1. Len(candidates') = Len(candidates) /\ DisputeTypeOK'
    BY <1>5 DEF Rewritten
  <2>2. candidates' \in Seq(Candidate) /\ c \in 1 .. Len(candidates')
    BY <2>1 DEF DisputeTypeOK
  <2> QED
    BY <2>2, ElementOfSeq
<1>8. /\ HaveOf(token)' = [HaveOf(token) EXCEPT ![u] = @ - b]
      /\ OnlyMoves(token)
  BY <1>1, <1>4, TransferInTakes DEF TypeOK, OnlyMoves
<1>9. Paid(candidates'[c], Append(records, [challenger |-> u, bond |-> b]),
           [HaveOf(token) EXCEPT ![u] = @ - b])
  BY <1>2, <1>4, <1>5, <1>6, <1>7, ChallengingPays
<1>10. Paid(candidates'[c], challengers'[c], HaveOf(token)')
  BY <1>5, <1>8, <1>9
<1> QED
  BY <1>3, <1>5, <1>8, <1>10, RewrittenIsTouched

LEMMA AppealPays ==
  ASSUME MarketsKeepTheirToken, TokensBackOneMarket,
         TypeOK, TypeOK', OneCandidatePerMarket, EveryoneIsPaid, [Next]_vars,
         NEW c \in 1 .. Len(candidates), NEW o \in BOOLEAN, NEW w \in WindowInputs,
         Appeal(c, o, w)
  PROVE  EveryoneIsPaid'
<1>1. AssertVersion /\ UNCHANGED balance
  BY DEF Appeal, moneyVars
<1>2. config.market_contract \in MarketContracts /\ AssertVersion'
  BY <1>1, VersionStays
<1> PICK k \in MarketContracts, token \in Tokens :
      token = CollateralToken[k][candidates[c].market_id]
  BY <1>2, TokensAreTyped, MarketIsTyped
<1>3. Paid(candidates[c], challengers[c], HaveOf(token))
  BY PaidBefore
<1>4. /\ Rewritten(c) /\ Live(candidates[c])
      /\ candidates'[c].status = "Proposed" /\ candidates'[c].challenged_by = Unset
      /\ challengers'[c] = challengers[c]
  BY AfterAppeal DEF Live
<1>5. /\ candidates'[c].proposer = candidates[c].proposer
      /\ candidates'[c].bond_amount = candidates[c].bond_amount
  BY <1>4, ProposerStays DEF Rewritten, TypeOK
<1>6. HaveOf(token)' = HaveOf(token) /\ OnlyMoves(token)
  BY <1>1 DEF HaveOf, OnlyMoves
<1>7. Paid(candidates'[c], challengers[c], HaveOf(token))
  BY <1>3, <1>4, <1>5, AppealingPays
<1>8. Paid(candidates'[c], challengers'[c], HaveOf(token)')
  BY <1>4, <1>6, <1>7
<1> QED
  BY <1>2, <1>4, <1>6, <1>8, RewrittenIsTouched

LEMMA ConclusionPays ==
  ASSUME MarketsKeepTheirToken, TokensBackOneMarket, TreasuriesApart,
         TypeOK, TypeOK', DisputesConsistent, EveryoneIsPaid, [Next]_vars,
         NEW c \in 1 .. Len(candidates),
         Finalize(c) \/ ArbitrateUpholdProposer(c) \/ VoidMarket(c)
  PROVE  EveryoneIsPaid'
<1>1. AssertVersion
  BY DEF Finalize, ArbitrateUpholdProposer, VoidMarket
<1>2. config.market_contract \in MarketContracts /\ AssertVersion' /\ OneCandidatePerMarket
  BY <1>1, VersionStays DEF DisputesConsistent
<1> PICK k \in MarketContracts, token \in Tokens :
      /\ token = CollateralToken[k][candidates[c].market_id]
      /\ token = GetCollateralToken(candidates[c].market_id)
  BY <1>2, TokensAreTyped, MarketIsTyped DEF GetCollateralToken
<1> PICK old, records, have : old = candidates[c] /\ records = challengers[c] /\ have = HaveOf(token)
  OBVIOUS
<1>3. /\ Paid(old, records, have) /\ have \in [Users -> Nat] /\ token \in Tokens
      /\ old \in Candidate /\ records \in Seq(ChallengeRecord) /\ InStep(old, records)
  BY PaidBefore DEF DisputesConsistent, CandidatesOK, CandidateOK
<1>4. /\ treasury \notin Users /\ MoneyTypeOK /\ DisputeTypeOK
      /\ Users \subseteq Accounts
  <2>1. treasury \in Treasuries \cup {Unset} /\ Unset \notin Users
    BY ConstantsAssumption DEF TypeOK, AdminTypeOK
  <2> QED
    BY <2>1, AccountsAreFinite DEF TypeOK, TreasuriesApart
<1>5. ASSUME Finalize(c) \/ ArbitrateUpholdProposer(c)
      PROVE  /\ Live(old) /\ Rewritten(c) /\ challengers'[c] = <<>>
             /\ candidates'[c].status = "Finalized"
             /\ candidates'[c].challenged_by = old.challenged_by
             /\ candidates'[c].appeal_round = old.appeal_round
             /\ candidates'[c].proposer = old.proposer
             /\ TransferOut(token, UpheldCredit(old, records), Forfeited(records, "burned"))
  <2>1. Concluding(c, "Finalized", "Resolved", old.outcome)
    BY <1>2, <1>5 DEF Finalize, ArbitrateUpholdProposer, Concluding, ResolveMarket,
       ResolveMarketV2
  <2>2. Live(old) /\ Conclude(c, "Finalized")
    BY <1>5 DEF Finalize, ArbitrateUpholdProposer, Finalizable, RequireArbitrable, Live
  <2>3. TransferOut(token, UpheldCredit(old, records), Forfeited(records, "burned"))
    BY <1>5 DEF Finalize, ArbitrateUpholdProposer, SettleChallengersAsLosers
  <2>4. candidates'[c].proposer = old.proposer
    BY <1>4, <2>2, ProposerStays
  <2> QED
    BY <2>1, <2>2, <2>3, <2>4, AfterConclusion
<1>6. CASE Finalize(c) \/ ArbitrateUpholdProposer(c)
  <2>1. /\ \A u \in Users : (HaveOf(token)')[u] = have[u] + UpheldCredit(old, records)[u]
        /\ OnlyMoves(token)
    BY <1>3, <1>4, <1>5, <1>6, TransferOutGives DEF OnlyMoves
  <2>2. \A u \in Users : (HaveOf(token)')[u]
          = have[u] + (IF u = old.proposer
                       THEN old.bond_amount + Forfeited(records, "reward") ELSE 0)
    <3>1. Forfeited(records, "reward") \in Nat /\ old.bond_amount \in Nat
      BY <1>3, ForfeitedAddsUp DEF Candidate
    <3>2. \A u \in Users : UpheldCredit(old, records)[u]
            = (IF u = old.proposer THEN old.bond_amount + Forfeited(records, "reward") ELSE 0) + 0
      BY <1>4 DEF UpheldCredit, TreasuryCredit
    <3> QED
      BY <2>1, <3>1, <3>2
  <2>3. Paid(candidates'[c], <<>>, HaveOf(token)')
    BY <1>3, <1>5, <1>6, <2>2, UpholdingPays
  <2>4. Rewritten(c) /\ Paid(candidates'[c], challengers'[c], HaveOf(token)')
    BY <1>5, <1>6, <2>3
  <2> QED
    BY <1>2, <2>1, <2>4, RewrittenIsTouched
<1>7. ASSUME VoidMarket(c)
      PROVE  /\ old.status = "Challenged" /\ Rewritten(c) /\ challengers'[c] = <<>>
             /\ candidates'[c].status = "Voided"
             /\ candidates'[c].proposer = old.proposer
             /\ TransferOut(token, VoidedCredit(old, records), SplitBond(old.bond_amount).burned)
  <2>1. Concluding(c, "Voided", "Canceled", FALSE)
    BY <1>2, <1>7 DEF VoidMarket, Concluding, VoidInMarket
  <2>2. old.status = "Challenged" /\ Conclude(c, "Voided")
    BY <1>7 DEF VoidMarket, RequireArbitrable
  <2>3. TransferOut(token, VoidedCredit(old, records), SplitBond(old.bond_amount).burned)
    BY <1>7 DEF VoidMarket
  <2>4. candidates'[c].proposer = old.proposer
    BY <1>4, <2>2, ProposerStays
  <2> QED
    BY <2>1, <2>2, <2>3, <2>4, AfterConclusion
<1>8. CASE VoidMarket(c)
  <2>1. /\ \A u \in Users : (HaveOf(token)')[u] = have[u] + VoidedCredit(old, records)[u]
        /\ OnlyMoves(token)
    BY <1>3, <1>4, <1>7, <1>8, TransferOutGives DEF OnlyMoves
  <2> PICK winner : winner = IF records = <<>> THEN old.proposer
                                               ELSE records[Len(records)].challenger
    OBVIOUS
  <2>2. GainVoided(old, records, winner, have, HaveOf(token)')
    <3>1. SplitBond(old.bond_amount).reward \in Nat
      BY <1>3, SplitAddsUp DEF Candidate
    <3>2. \A u \in Users : PostedBy(records, u) \in Nat
      BY <1>3, PostedByOne
    <3>3. \A u \in Users : VoidedCredit(old, records)[u]
            = (IF u = winner THEN SplitBond(old.bond_amount).reward ELSE 0)
              + PostedBy(records, u) + 0
      BY <1>4 DEF VoidedCredit, TreasuryCredit
    <3> QED
      BY <2>1, <3>1, <3>2, <3>3 DEF GainVoided
  <2>3. Paid(candidates'[c], <<>>, HaveOf(token)')
    BY <1>3, <1>7, <1>8, <2>2, VoidingPays
  <2>4. Rewritten(c) /\ Paid(candidates'[c], challengers'[c], HaveOf(token)')
    BY <1>7, <1>8, <2>3
  <2> QED
    BY <1>2, <2>1, <2>4, RewrittenIsTouched
<1> QED
  BY <1>6, <1>8

\* Nothing was staked at first.
LEMMA NobodyPaidYet ==
  ASSUME TypeOK, Init
  PROVE  EveryoneIsPaid
<1>1. Len(candidates) = 0 /\ \A m \in Markets : byMarket[m] = 0
  BY DEF Init
<1>2. ASSUME NEW k \in MarketContracts, NEW m \in Markets, NEW u \in Users
      PROVE  HaveOf(CollateralToken[k][m])[u] = Funds
  BY TokensAreTyped, AccountsAreFinite DEF Init, HaveOf
<1>3. \A k \in MarketContracts, m \in Markets : MarketPaid(m, HaveOf(CollateralToken[k][m]))
  BY <1>1, <1>2 DEF MarketPaid
<1> QED
  BY <1>1, <1>3 DEF EveryoneIsPaid

\* Collateral is in other tokens.
LEMMA CollateralPays ==
  ASSUME CollateralElsewhere, TypeOK, EveryoneIsPaid, [Next]_vars, CollateralStep
  PROVE  EveryoneIsPaid'
<1>1. PICK p \in Users, t \in DepositTokens :
        \/ \E amount \in CollateralInputs : DepositCollateral(p, t, amount)
        \/ \E recipient \in Users : SlashCollateral(p, t, recipient)
  BY DEF CollateralStep
<1>2. t \in Tokens /\ CollateralInputs \subseteq Nat
  BY ConstantsAssumption
<1>3. AssertVersion' /\ UNCHANGED <<candidates, byMarket, challengers>>
  <2>1. AssertVersion /\ UNCHANGED disputeVars
    BY <1>1 DEF DepositCollateral, SlashCollateral
  <2> QED
    BY <2>1, VersionStays DEF disputeVars
<1>4. OnlyMoves(t)
  <2>1. CASE \E amount \in CollateralInputs : DepositCollateral(p, t, amount)
    <3>1. PICK amount \in CollateralInputs : TransferIn(t, p, amount)
      BY <2>1 DEF DepositCollateral
    <3> QED
      BY <1>2, <3>1, TransferInTakes DEF TypeOK, OnlyMoves
  <2>2. CASE \E recipient \in Users : SlashCollateral(p, t, recipient)
    <3>1. PICK credit : TransferOut(t, credit, 0)
      BY <2>2 DEF SlashCollateral
    <3> QED
      BY <1>2, <3>1, TransferOutGives DEF TypeOK, OnlyMoves
  <2> QED
    BY <1>1, <2>1, <2>2
<1>5. ASSUME NEW k \in MarketContracts, NEW m \in Markets
      PROVE  HaveOf(CollateralToken[k][m])' = HaveOf(CollateralToken[k][m])
  BY <1>4, TokensAreTyped DEF CollateralElsewhere, OnlyMoves
<1> QED
  BY <1>3, <1>5, NobodyIsTouched

LEMMA EveryStepPays ==
  ASSUME MarketsKeepTheirToken, TokensBackOneMarket, CollateralElsewhere, TreasuriesApart,
         TypeOK, TypeOK', DisputesConsistent, EveryoneIsPaid, [Next]_vars
  PROVE  EveryoneIsPaid'
<1>1. OneCandidatePerMarket
  BY DEF DisputesConsistent
<1>2. CASE ProposeStep
  BY <1>1, <1>2, ProposalPays
<1>3. CASE DisputeStep
  <2>1. PICK c \in 1 .. Len(candidates) :
          \/ \E u \in Users, b \in BondInputs : Challenge(u, c, b)
          \/ \E o \in BOOLEAN, w \in WindowInputs : Appeal(c, o, w)
          \/ Finalize(c) \/ ArbitrateUpholdProposer(c) \/ VoidMarket(c)
    BY <1>3, Ids DEF DisputeStep, TypeOK
  <2>2. CASE \E u \in Users, b \in BondInputs : Challenge(u, c, b)
    <3>1. PICK u \in Users, b \in Nat : Challenge(u, c, b)
      BY <2>2, ConstantsAssumption
    <3> QED
      BY <1>1, <3>1, ChallengePays
  <2>3. CASE \E o \in BOOLEAN, w \in WindowInputs : Appeal(c, o, w)
    BY <1>1, <2>3, AppealPays
  <2>4. CASE Finalize(c) \/ ArbitrateUpholdProposer(c) \/ VoidMarket(c)
    BY <2>4, ConclusionPays
  <2> QED
    BY <2>1, <2>2, <2>3, <2>4
<1>4. CASE CollateralStep
  BY <1>4, CollateralPays
<1>5. CASE AdminStep \/ EnvironmentStep \/ Tick \/ UNCHANGED vars
  <2>1. UNCHANGED <<disputeVars, balance>>
    <3>1. CASE AdminStep
      BY <3>1 DEF AdminStep, Initialize, SetDefaultChallengeWindow, SetMarketContract,
         ProposeMarketContract, ProposeFactory, ProposeTreasury, ProposeAddress,
         CancelFactory, CancelMarketContract, CancelTreasury, CancelAddress,
         ExecuteFactory, ExecuteMarketContract, ExecuteTreasury, Due,
         SetEmergencyMode, Pause, Unpause, SetPaused, moneyVars
    <3>2. CASE EnvironmentStep
      BY <3>2 DEF EnvironmentStep, SettledElsewhere, MoveGate, moneyVars
    <3>3. CASE Tick \/ UNCHANGED vars
      BY <3>3 DEF Tick, vars, moneyVars
    <3> QED
      BY <1>5, <3>1, <3>2, <3>3
  <2>2. UNCHANGED <<candidates, byMarket, challengers>> /\ balance' = balance
    BY <2>1 DEF disputeVars
  <2>3. AssertVersion => AssertVersion'
    BY VersionStays
  <2>4. \A k \in MarketContracts, m \in Markets :
          HaveOf(CollateralToken[k][m])' = HaveOf(CollateralToken[k][m])
    BY <2>2 DEF HaveOf
  <2> QED
    BY <2>2, <2>3, <2>4, NobodyIsTouched
<1> QED
  BY <1>2, <1>3, <1>4, <1>5 DEF Next

\* What a reader of the balances sees of it.
LEMMA PaidShows ==
  ASSUME TypeOK, EveryoneIsPaid
  PROVE  LosingCosts
<1> SUFFICES ASSUME NEW c \in DOMAIN candidates
             PROVE  LET cand   == candidates[c]
                        net(u) == balance[GetCollateralToken(cand.market_id)][u] - Funds
                    IN  /\ cand.status = "Finalized" =>
                             /\ \A u \in Users \ {cand.proposer} : net(u) <= 0
                             /\ cand.challenged_by \notin {Unset, cand.proposer} =>
                                  net(cand.challenged_by) < 0
                             /\ cand.appeal_round = 0 /\ cand.challenged_by = Unset =>
                                  net(cand.proposer) = 0
                        /\ cand.status = "Voided" =>
                             /\ \A u \in Users \ {cand.proposer} : net(u) >= 0
                             /\ net(cand.proposer) < 0
  BY DEF LosingCosts
<1>1. /\ c \in 1 .. Len(candidates) /\ candidates[c] \in Candidate /\ Len(candidates) > 0
      /\ Funds \in Nat
  BY Ids, ConstantsAssumption DEF TypeOK
<1>2. config.market_contract \in MarketContracts
  BY <1>1 DEF EveryoneIsPaid, AssertVersion, TypeOK, AdminTypeOK, ResolutionConfig
<1> PICK token \in Tokens :
      /\ token = CollateralToken[config.market_contract][candidates[c].market_id]
      /\ token = GetCollateralToken(candidates[c].market_id)
  BY <1>1, <1>2, TokensAreTyped, MarketIsTyped DEF GetCollateralToken
<1> PICK have : have = HaveOf(token)
  OBVIOUS
<1>3. Paid(candidates[c], challengers[c], have) /\ have \in [Users -> Nat]
  BY <1>1, <1>2, PaidBefore
<1>4. \A u \in Users : balance[token][u] = have[u]
  BY DEF HaveOf
<1>5. /\ candidates[c].proposer \in Users
      /\ candidates[c].challenged_by \in Users \cup {Unset}
  BY <1>1 DEF Candidate
<1>6. CASE candidates[c].status = "Finalized"
  BY <1>1, <1>3, <1>4, <1>5, <1>6 DEF Paid, ProposerUpheld
<1>7. CASE candidates[c].status = "Voided"
  BY <1>1, <1>3, <1>4, <1>5, <1>7 DEF Paid, ProposerLost
<1> QED
  BY <1>6, <1>7

\* Losing a dispute costs money and nothing else does, over any number of appeals and
\* also where the proposer challenged itself: an unchallenged proposer has exactly its
\* bond back; when the outcome stands, no challenger has gained and the one it was
\* settled over has lost; when the market is voided, the proposer has lost and no
\* challenger has.  A balance shows it if no two markets share a token, a market's token
\* stays the same, no proposer collateral is in one, and no user is a treasury.
THEOREM LosingAlwaysCosts ==
  ASSUME MarketsKeepTheirToken, TokensBackOneMarket, CollateralElsewhere, TreasuriesApart
  PROVE  Spec => []LosingCosts
<1>1. TypeOK /\ Init => EveryoneIsPaid
  BY NobodyPaidYet
<1>2. TypeOK /\ TypeOK' /\ DisputesConsistent /\ EveryoneIsPaid /\ [Next]_vars
        => EveryoneIsPaid'
  BY EveryStepPays
<1>3. TypeOK /\ EveryoneIsPaid => LosingCosts
  BY PaidShows
<1> QED
  BY <1>1, <1>2, <1>3, Consistent, PTL DEF Spec
===============================================================================
