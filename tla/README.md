# Vatix contracts: models, checks and proofs

Vatix is a set of Soroban (Stellar) smart contracts for binary prediction
markets. Users deposit collateral into a market and hold YES and NO shares;
after the market ends, a *resolution* contract runs an optimistic dispute game
over an oracle-signed outcome; winning shares are then redeemed, and fees and a
part of slashed bonds flow to a *treasury*. This directory holds TLA+ models of
the contracts, the TLC configurations that check them on small instances, and
TLAPS proofs of their main properties for every value of the constants.

## 1. Inventory

| Component | State it keeps | Operations | Called by / calls |
| --- | --- | --- | --- |
| Resolution (`contracts/resolution`) | config (factory, market contract, default window), treasury, three pending address changes, emergency mode, pause flag, candidates, an index from market to candidate, a challenger list per candidate, proposer collateral | `initialize`, `propose`, `propose_v2`, `challenge`, `appeal`, `finalize`, `arbitrate_uphold_proposer`, `void_market`, `deposit_collateral`, `slash_collateral`, timelocked `propose_/execute_/cancel_` of factory, market contract and treasury, `set_market_contract`, `set_default_challenge_window`, `set_emergency_mode`, `pause`, `unpause` | calls the market contract (`get_market_status`, `get_market`, `verify_signature[_v2]`, `resolve_market[_v2]`, `void_market`) and the collateral token |
| Treasury (`contracts/treasury`) | admin and pending admin, registry of market contracts and a pending entry, stakeholders and a pending list, pause flag, emergency mode, per-token balance and cumulative fees, a global total, the list of fee tokens | `initialize`, `collect_fee`, `withdraw_fees`, `distribute_fees`, the admin, registry and stakeholder calls, `pause`, `unpause`, `set_emergency_mode` | called by market contracts after a token transfer; receives slashed shares from resolution by a plain transfer |
| Market ledger (`contracts/market`: deposit, withdraw, positions, settlement, validation, fee waiver) | markets, positions, protocol-wide collateral, deposit times, participants, consumed request ids | deposit, withdraw with fee and cooldown, position update, transfer and merge, settlement of one, of a batch, of a page | calls the token, the treasury, the outcome token |
| Market oracle (`oracle.rs`, `oracle_adapter.rs`) | gates (V1 kill switch, adapter-only lock), signer list with a pending one, one key and epoch per market, adapter type and price configuration | verification of single, threshold and V2 signatures, price adapters, the setters of all of these | called by market and, through it, by resolution; reads price feeds |
| Reconciliation (`reconciliation.rs`) | none of its own | compares positions with outcome-token balances, repairs them | called at trades and settlement |
| Storage keys and trade edge (`market/src/lib.rs`, `storage.rs`) | instance entries by symbol, persistent entries by an encoded key, correlation ids of minted trades | `get_key`, `set_key`, `set_outcome_token`, `mint_on_trade`; typed reads and writes | - |
| Outcome token (`contracts/outcome-token`) | admin, symbol, name | `initialize`, `set_metadata`, readers | - |
| Events (`events.rs` of market, resolution, treasury) | none | one emit function per event | published by the calls above, read off chain |
| Web application, scripts, deployments | none on chain | - | drive the contracts from outside |

At this commit some crates are incomplete: `market/src/lib.rs` and the two
`storage.rs` of market and treasury lack accessors that the other files call,
`positions.rs` ends inside a function. Where a model needs such an accessor it
is taken from its use, and `PROJECT.json` marks it external.

**What is hard here.** A Soroban call is atomic: an error, a panic or a failed
nested call undoes all of it, and the host forbids reentrancy. So there is no
crash inside a call and no interleaving below the level of a call; the hard
part is the interleaving of *whole calls* of independent parties (proposer,
challengers, admins, the market's own admin, anyone who executes an elapsed
timelock), the ledger clock running between them, state that one call reads
and another has changed meanwhile (the registered market contract, the market's
status, the oracle gate), money that must add up over long sequences, and the
timelocks and windows that several calls move. `PROJECT.json` lists the hazards
line by line with the properties aimed at each.

**What makes each component correct.**

* Resolution: every bond is paid out once, to whom the rules say, and out of
  nobody else's money; an outcome becomes final only after its window and, over
  a challenge, the arbitration timelock; the market is decided as the dispute
  is; no dispute stays open for ever; no address takes effect unannounced.
* Treasury: the books equal what was collected minus what was paid, and are
  covered by tokens actually held; a distribution pays shares and leaves less
  than a unit for each stakeholder; the split changes only after its timelock.
* Market ledger: the contract holds what its books say, fees included; a claim on
  a resolved market is met once and neither created nor lost by later transfers;
  a settled position is final and its outcome tokens stay burned; a lock is the
  exact one in an `i128` and always covered.
* Market oracle: a market decided by keys was decided by as many different
  holders as the path asks for, each of whom meant this market, outcome, network
  and time; two quorums never disagree; a price is recent and of the right feed;
  the adapter-only lock closes every path by key.
* Storage: a key reads back what was written under it; one trade is passed on
  once; nothing on the money path moves while the contract is paused.
* Events: a reader of the events alone rebuilds disputes, bonds, books and pending
  changes, and every amount explains the total next to it.

## 2. Modules

| Module | What it is |
| --- | --- |
| `Resolution` | the resolution contract, with the market contracts, the tokens and the clock as it sees them; its properties |
| `BondEscrow` | abstract specification: an escrow that locks stakes per dispute and releases all stakes of a dispute together, once |
| `TimelockedRegister` | abstract specification: a value that is only replaced by one that has stood announced for the whole delay |
| `Treasury` | the treasury contract and its properties |
| `MarketLedger` | deposits, withdrawals, positions, settlement and reconciliation of the market contract, over all its markets |
| `Oracle` | verification of reports and prices, the calls that use it, the gates they share, the holders of the keys, the feeds and the clock |
| `MarketStorage` | the instance store with the kill switch and mint-on-trade, and the persistent store with its key encoding |
| `MarketIds` | `parse_market_id`, one step per character |
| `MarketAmounts` | the amounts of one position in integers of fixed width: checked, saturating and wrapping where the code is |
| `OutcomeToken` | the metadata of an outcome token |
| `ResolutionEvents`, `TreasuryEvents`, `MarketEvents` | each contract together with the events its calls publish, and a reader (`index`) who sees nothing else |
| `MCResolution`, `MCResolutionEvents`, `MCTreasury`, `MCMarketLedger`, `MCOracle`, `MCStores` | instances for TLC; `MCStores` extends the four small modules (`MarketStorage`, `MarketAmounts`, `OutcomeToken`, `MarketIds`) and puts them side by side |
| `SumTheorems` | facts about sums over finite sets and about functions defined by recursion, which the other proofs cite |
| `ResolutionProofs`, `ResolutionBondsProofs` | types, disputes and the timelock; then the money, the reader of the events, and who pays for a dispute |
| `TreasuryProofs` | types, books, dust, the split and the reader of the treasury's events |
| `MarketLedgerProofs`, `MarketCustodyProofs` | settled positions and the reader of the market's events; then the types and what positions, fees and payments add up to |
| `OracleProofs` | the lock, prices, quorums, the layouts of messages, the threshold loop |
| `StoresProofs` | the four small modules |

`ResolutionEvents`, `TreasuryEvents` and `MarketEvents` extend the module of their
contract and conjoin each of its actions with what it publishes, so that every
behaviour of the contract is one of the composition with its events.

### How the models correspond to the code

One action per entrypoint, named after it. A guard of the action is an early
return or a `require_*` of the entrypoint, the primed variables are its storage
writes and token transfers, all in one step, as the call is atomic. A call that
returns an error changes nothing and is no step. Who signs is a parameter of
the action where the code compares or records it (proposer, challenger,
caller); admin calls are unconstrained, as the admin may make them at any time.
`map` in `PROJECT.json` gives the source lines of every definition.

*Resolution.* `candidates` and `challengers` are sequences indexed by candidate
id (the code counts ids from 1); `byMarket` is the index entry, 0 when absent.
A candidate's bytes (signature, evidence, passphrase, epoch) are left out:
`version` keeps the one bit about them that decides which entrypoint of the
market accepts it. `SetCandidate` rewrites the index entry each time, as
`set_candidate` does. The market contract is modelled by what resolution asks
of it: a status and an outcome per market, the gate that decides which
signature scheme passes, and `OracleSigned`, the outcomes the oracle has signed.
`settled_by` is a history field. Each deployment of the market contract has its
own markets, and `CollateralToken` may differ between them, which is what
`set_market_contract` exposes. The token rejects overdrafts; `TransferOut` pays
every credit of a settlement at once, which is the same as paying them in the
code's order, since the sum is what the balance has to cover. Bond splitting uses the
code's basis points and floor divisions. The parameter of `ExecuteFactory` and its
likes is the address the call returns. `SettledElsewhere` is a settlement of the
market by its own admin, behind the back of the dispute.

*Treasury.* `collect_fee` moves no money; the market transfers the fee and calls
it in one transaction, so `RouteFee` is both. `custody` is what the tokens say
the treasury holds, `balance`, `cumulative` and `total` what its books say;
`paid` is a history variable. `MAX` stands for `i128::MAX` and every addition
saturates as in the code. `ReceiveSlashShare` is the plain transfer that
`split_bond` makes.

*Market ledger.* `position`, `collateral`, `totalLocked`, `lastDeposit`,
`participants` and `requests` are the storage entries of those names, over all
users and markets; a position that storage does not hold is the empty one with
`stored` false, as `transfer_position` and `settle_position` tell the two apart.
`position`, `deposit`, `withdraw`, `settlement`, `reconciliation` and
`fee_waiver` are translated call by call. What the entrypoints of `lib.rs` add
around them (mode, status and expiry of a trade, `TotalLockedCollateral`,
resolving, cancelling, reopening, refunding a market) is not in the source at
this commit and is modelled from the callee's comments, the tests and
`docs/reentrancy-cei-audit.md`, and marked external. The three settlement calls
share `SettleAll`: the code settles users one after the other, but a position
is marked before the next user is looked at and a refused transfer undoes the
call, so only the set of users matters. `tokens` is the outcome-token contract;
`MoveToken` is its holders' transfer, the way in which the two ledgers part.
`retained`, `paid` and `claims` are history variables: fees kept for want of a
treasury, payouts, and what all positions were worth when the result was
recorded. A transfer or merge may name one address twice only if `OneName` is
true; `same_address` checks what happens then.

*Oracle.* An action is a call of the market contract that verifies something, a
setter of a gate, or a step of the world: a key's holder signs a report (an
honest one only one outcome per market, a faulty one any), a feed quotes a
price, the clock ticks. `signed` and `observed` only grow, so anything ever
signed may be presented again. A message is the sequence of bytes
`construct_oracle_message` hashes, with numbers of `RADIX` digits in fixed
widths; its hash is the sequence itself. A V1 and a V2 preimage differ in length
as in the code. `ThresholdMet` is the closed form of the threshold loop with its
early exit; `ThresholdLoop` is the loop itself, as a function over the places of the
batch, and `LoopAgrees` compares the two. `Lookalikes` are reports nobody signs,
whose messages are compared with those that were signed, and `WidthAssumption` says
that the numbers of a report fit the fields the code writes them into, as a `u64`
fits eight bytes.
`Builds` says whether a contract was built with the oracle-adapter feature. The
Pyth adapter is modelled as it stands, wired to no entrypoint: `attested` is the
last outcome an adapter accepted.

*Stores.* `MarketStorage!store` maps a symbol to a typed value or `Absent`; a read
at another type traps and is no step. `set_key` writes any key the admin names,
the ones other calls own included, and `IsPaused` is read from the same entries.
The persistent store is a set of encoded keys with values; the payload width is
a constant, as 31 bytes are in the code. `MarketIds` takes one step per character
and stops early where the code returns. `MarketAmounts` is `deposit`, `withdraw` and
the position update once more, for one position and in numbers up to
`I128_MAX`; `Saturated` is the code's saturating arithmetic, and what leaves the
width elsewhere ends the call. `Elsewhere` is what the same user has deposited and
locked in other markets.

*Events.* A call publishes its events in the code's order; the events of a call
that fails are discarded by the host and are no part of the stream. The readers
know that silence is possible: the modules' heads list the calls that change
something without a word (the refund of a proposer's bond, collateral deposits,
cancelled changes, the default window; a merge, which announces shares but not
deposits; a resolution without a winner), and `IndexFollows` excepts exactly
what those leave unsaid.

Definitions commented *Fault* belong to no specification: each is the operator
after it with a plausible mistake, kept to show that a property notices it.

## 3. Runs

| Run | Question | Result |
| --- | --- | --- |
| `dispute` | one market, all interleavings of a dispute with two appeals, a treasury and both outcomes signed | passes |
| `operations` | the same contract under administration, with its events: two market deployments, pause, modes, gates, address changes, settlement elsewhere, collateral | passes |
| `portfolio` | two markets in two tokens whose disputes overlap, with collateral | passes |
| `liveness` | every dispute concludes, if the signature outlives it | passes |
| `treasury` | books, custody, dust, split and events of the treasury | passes |
| `ledger` | one user in two markets that share one balance: deposits, withdrawals with and without fee, waiver and treasury, trades, cancelling, refunding and reopening, with events | passes |
| `redemption` | two users in one market around its resolution: transfers, merges, moving and repaired outcome tokens, three ways to settle, with events | passes |
| `oracle` | three keys, one of them faulty, both layouts, two networks, a feed and a clock under every setting of the gates | passes |
| `stores` | instance and persistent store, trade edge, token metadata, market ids, amounts in five bits | passes |
| `expired_signature` | does every dispute conclude when the signature may expire? | violated |
| `v2_arbitration` | can a V2 candidate be upheld by arbitration? | violated |
| `same_address` | are claims conserved when a transfer or merge names one address twice? | violated |

**Properties checked in passing runs.**

* Resolution: `TypeOK`; `ChallengersInStep` (the two storage entries of a dispute
  agree); `OneCandidatePerMarket`; `BondsBacked` (the contract holds, per token, all
  bonds of live disputes, and over all tokens the collateral too); `WindowsHold`;
  `SettledAfterItsWindow`; `MarketAgrees`; `LosingCosts` (who gains and who loses at
  settlement, compared with initial funds); `ImplementsEscrow` (refinement of
  `BondEscrow`); `TreasuryIsTimelocked` (refinement of `TimelockedRegister`);
  `EveryDisputeConcludes`.
* Treasury: `TypeOK`, `LedgerBacked`, `BooksBalance`, `DustBound`,
  `SplitIsTimelocked` (refinement of `TimelockedRegister`).
* Market ledger: `TypeOK`; `CustodyMatchesBooks` (the contract balance, payouts
  added, is what positions deposited and the fees kept); `ClaimsConserved` (what was
  paid and what is still open is what the market was worth at resolution);
  `SettledHoldNoTokens`; `SettledForGood`; `LocksWithinWidth` (of `MarketAmounts`);
  `ParsedForWhatItSays` (of `MarketIds`).
* Oracle: `TypeOK`; `BackedByItsSigners`; `QuorumsAgree`; `PriceBehindOutcome`;
  `ClosedAfterLock`; `LoopAgrees`; `MessagesAreDistinct` (what was signed for one
  claim verifies for no other).
* Stores: `MintedOnce`, `PauseHolds`, `ReadsBack`, `MetadataWithinCaps`.
* Events: `IndexFollows` of resolution (`operations`), treasury (`treasury`) and
  market ledger (`ledger`, `redemption`).

**Bounds.** Constants of the code become small numbers that keep their order:
windows between 1 and 2 (inputs 0..3 fall outside on both sides), timelocks 1
or 2, two appeals where appeals matter and one elsewhere, bonds one below, at
and one above the minimum, so the rounding of the split leaves dust for some.
The clock stops at `MaxTime`, and a window is opened only if it can end, with
its arbitration timelock, before that (`InHorizon`), so that liveness is not
lost to the bound. `dispute` has users who may play any role, several of them
included; a third user adds no new role. `portfolio` is the smallest instance
in which one dispute could be paid from another. `Funds` allows every bond of
the largest dispute. In `treasury` supply is 3 and 1 and `MAX` is 5, so that
returning tokens saturate the counters; `BPS_DENOMINATOR` is 4 and the lists
include one that leaves dust, and lists below and above the whole.
The treasury's three kinds of pending change share no entry, nor do the three
address registers of `operations`: `OneKindPending` and `OneRegisterPending` keep
steps out that would announce a second kind while one stands. In `ledger` a
fee is the whole amount (rate 2 of 2), so that a withdrawal may be affordable
without its fee and not with it; the cooldown is one tick, the market ends at the
next. `MaxCollateral` bounds deposits after refunds, which may repeat. In
`redemption` a user deposits all or nothing and holds at most one share of a
side before transfers, one request id lets each owner move positions once, and
one correlation id allows one repair: enough for a transfer or merge before and
after the other user has settled, with tokens apart from shares or not; shares are
sold in `ledger` only.
`oracle` has three keys, the fewest among which one faulty holder can be outvoted,
and two signer lists besides: one it cannot split, one in which a signer stands
twice. `Explored` looks at a market with one signature and no price, with prices
and no signature, or with up to three signatures and a list, and `StillOpen` ends
there where the market is decided; no path reads what its own bound leaves out.
`stores` looks at one part at a time (`InUse`), as they share no entry. A market id
is a text of up to four digits in base 3 for a width of 16, so that the longest
text allowed, the largest number and the next one all occur, as ten decimal
digits do for a `u32`. An `i128` ends at 15 and prices are quarters, so that
products of shares and prices saturate and sums overflow within two calls.
`CHECK_DEADLOCK FALSE`: with the clock at its bound and nothing left to do, a
dispute really is over. `SYMMETRY` permutes users, or markets, in runs of safety
properties only.

**Fairness** (`liveness`, `expired_signature`). `WF(Tick)`: ledgers keep
closing. `WF(Unpause)`: the admin does not leave the contract paused for ever.
`SF(Finalize)`: it is open to everybody and refunds the proposer, so somebody
calls it if it is possible again and again; strong, because pause may disable
it meanwhile. `SF(VoidMarket)`: the admin's duty once the timelock has passed.
No fairness is assumed of challengers, appellants or arbitration in the
proposer's favour.

## 4. Proofs

TLAPS checks, for every value of the constants that satisfies the named
assumptions: `ConstantsAssumption` of `Resolution`, `Treasury`, `MarketLedger`,
`MarketStorage` and `Oracle`, `AbsenceAssumption`, `WidthAssumption`,
`AmountAssumption`, `TokenAssumption` and `IdsAssumption`. They say what a constant
is (a number, a subset of a type, a finite set of users, markets, tokens or
treasuries) and that addresses and `Unset` are told apart; TLC evaluates each in a
run. What a theorem needs beyond them stands in its own `ASSUME`. Every safety
property and every action property a passing run checks is proved.

**How sums and recursion are reached.** The books are sums over users, markets and
tokens, and the library's induction theorems take an operator as a parameter, which
the installed provers cannot instantiate. `SumTheorems` takes induction as
minimality instead: among the finite subsets of a set that lack a property there
would be a least one (`SubsetInduction`). From that come the equations of
`SumFunctionOnSet`, whose definition is a fold in an order `CHOOSE` fixes: empty,
one element more or less, agreement, addition, scaling, bounds, reindexing, sums by
parts. The same argument counts up to a number (`CountingUp`) and gives a recursive
function its equations (`RecursionUpTo`), which is how the threshold loop, the
readers' folds and the value of a text of digits are reasoned about.

*Resolution.*

* `ResolutionProofs!TypeCorrect`: `TypeOK` is inductive by itself; one step
  for each entrypoint. The only arithmetic is that a bond's three legs are
  natural numbers and a balance that covers the payout stays natural.
* `ChallengersStayInStep`, `WindowsAlwaysHold`, `NothingSettledEarly`, `IndexIsExact`,
  `MarketAlwaysAgrees`. Most calls touch no dispute, so `StepKinds` first sorts the
  steps into five kinds (quiet, opening, challenge, appeal, conclusion); each part
  of the invariant is then preserved kind by kind. None but `OneCandidatePerMarket`
  is inductive alone: `SettledAfterItsWindow` needs `WindowsHold` for the deadline it
  compares with, and `MarketAgrees` needs `OneCandidatePerMarket`, as otherwise a
  second candidate could decide a decided market. The inductive invariant is
  `DisputesConsistent` with `TypeOK`.
* `TreasuryAlwaysTimelocked` and `TreasuryProofs!SplitAlwaysTimelocked`: step
  simulation of `TimelockedRegister` under the refinement mapping that reads the
  age of an announcement off its date (`NoticeGiven`). The clock is the step
  that needs care: a tick ages an announcement, or stutters once the delay is up.
* `ResolutionBondsProofs!EscrowImplemented`: `Resolution` refines `BondEscrow`. The
  arithmetic comes first: a split adds up to the bond, the credits of a conclusion
  to the bonds of its dispute, for a challenger list of any length. `MoneyMoves` then
  sorts the steps by what they do to the money (lock one bond, settle one dispute,
  take or forfeit collateral, nothing) and each kind is an action of the escrow or a
  stutter.
* `HoldingsCoverDebts`, over all tokens together, without further assumption:
  whatever the contract owes, it holds. `BondsAlwaysBacked`, token by token, needs two
  things the code leaves to its administrators: `MarketsKeepTheirToken` (the token of a
  market is the same in every registered deployment; it is looked up again at
  settlement) and `CollateralKeptApart` (collateral in a market's token is in no
  other: `slash_collateral` pays in the token it is told).
* `LosingAlwaysCosts`: `LosingCosts` says of a concluded dispute who is short. That is
  not inductive: one has to know of a *live* dispute that its parties lack exactly what
  they staked (`StakesAreOut`), and of a market without one that nobody lacks anything;
  `EveryoneIsPaid` says so for every market. Upholding needs `InStep`, so that the one
  it was settled over is on the list and posted something; voiding needs that the
  reward is half of the bond, as a proposer may have challenged itself and win it. A
  balance can be compared with `Funds` only where no other dispute and no collateral
  uses the token and the treasury is nobody's account: `TokensBackOneMarket`,
  `CollateralElsewhere`, `TreasuriesApart`, `MarketsKeepTheirToken`, all of which hold of
  `dispute`, the run that checks it. The theorem adds any number of markets, users and
  appeals to it.
* `DisputeReadersAlwaysFollow`: a call that concludes a dispute publishes an event for
  each challenger, so the reader's fold is unrolled over any number of them
  (`HeardInOrder`), and the open stakes, a bag, are counted as the places of a function
  (`BagOver`, `Stood`): striking one off shrinks the domain. The invariant `Following`
  has a part for the disputes, the money, the addresses and the halts.

*Treasury.*

* `FeesAreBacked`: `balance[t] <= custody[t]`, from the fact that a saturating
  addition never exceeds the exact one and that a payment lowers both sides by the
  same amount. `BooksAlwaysBalance` needs the strengthening `BooksInv`, which keeps
  `balance + paid = cumulative` until saturation and bounds the balance by it.
* `DustIsBounded`: the shares of a list add up to the whole, the floor of each loses less
  than one unit, and a sum of whole numbers loses a whole number: so less than one for
  each stakeholder but one. `WeightsInv` says that only such lists get into force.
* `ReadersAlwaysFollow`: the inductive invariant `IndexInv` gives the reader's record
  field by field, which is what an update of one field can be computed on; every
  event is then one small step, and a call that publishes nothing may only drop what
  is pending.

*Market ledger.*

* `SettledPositionsHoldNoTokens` and `SettledPositionsAreFinal`.
  Neither is inductive. `LedgerInv` adds that positions are settled in resolved
  markets only (so deposits, withdrawals, trades, refunds and token transfers,
  which need another status, never meet one), that nobody holds tokens before a
  token contract is registered (so that registering one after a settlement brings
  none back), and the types of shares and tokens, which make the burn exact:
  parity has compared the two, and equal naturals leave zero.
* `MarketCustodyProofs!TypeCorrect`: that no deposit, lock, share or payment is ever
  below zero rests on the guards of every call, and the totals on being sums.
* `CustodyHolds` and `ClaimsAreConserved`, both for `~OneName`: the run `same_address`
  shows that merging a position with itself breaks the second, and it loses the
  deposit, too. Each call changes two positions at most, or a set of positions that
  one call settles, and the sum over markets and users follows by `SumUpdate` and
  `SumByParts`. Claims need `NothingPaidEarly`: before resolution nothing was paid.
* `MarketLedgerProofs!ReadersAlwaysFollow`: a part of `IndexInv` for each thing the
  reader keeps. `PaymentsFollow` needs that an unsettled position was not paid,
  `MarketsFollow` that an undecided market has no result: the reader sees the payment,
  and not what it was paid for.

*Oracle.*

* `TypeCorrect`, then `LockCloses` from the types, as every path by
  key asks for the open gate; `PricesStandBehind`, `DecisionsAreBacked` and
  `QuorumsAlwaysAgree` from `WorldInvariant` (honest holders say one thing of a
  market, only reports asked for are signed, observations stay). The quorum
  theorem is a counting argument: two quorums of one list share a holder, and an
  honest majority makes one of the shared ones honest.
* `MessagesStayDistinct`: two messages that are equal byte for byte come from one
  claim. V1 and V2 differ in length; within a layout each field stands at its place,
  and the digits of a number in a field it fits determine it, for every radix and
  width. The proofs about decisions rest on this, and on no assumption about hashing
  other than that the model hashes by identity.
* `LoopAlwaysAgrees`: the closed form accepts what the loop with its early exit
  accepts, for batches of every length and order.

*Stores.*

* `MintsAreIdempotent` and `PauseAlwaysHolds`, from `StorageInvariant` (whatever was
  passed on is marked, whatever is an address is one), and from the fact that no two
  instance keys share a symbol.
* `KeysReadBack`: under `NamesFit` (names within the key's width and without the
  padding byte, owners of one length that differ in a byte that is kept), which is
  what `storage.rs` takes for granted. `EntriesFollow` adds that every stored key was
  encoded from one that may be written.
* `LocksAlwaysCovered`: from `AmountInvariant` (the lock is that
  of the shares at the latest price, and within the collateral). It needs
  `Elsewhere + I128_MAX \div BASIS_POINTS <= I128_MAX`: otherwise the saturating sum
  of all locks would stop at `I128_MAX` and a user who has that much collateral
  would be lent a lock. No token supply comes near it.
* `MetadataAlwaysWithinCaps`: the caps are checked wherever metadata is written, and
  an address in storage comes with metadata.
* `IdsAlwaysParsedForWhatTheySay`: `IdsInvariant` says that what has been read is the
  value of the digits so far, and never beyond the width; a text is refused for
  what it says and not for how far the reader got, as further digits only make a
  number larger, and a text over the length cap says more than the width holds
  unless it starts with a zero.

**Only model-checked.** `EveryDisputeConcludes`, a liveness property under fairness;
and of the violation runs `V2CandidateCanBeUpheld`, which speaks of `ENABLED`. Both are
out of the prover's reach. The abstract specifications' own composition over several
contracts has no theorem, as it has no module (section 6).

## 5. Where text and code disagree

Each is a violation run; `findings` in `PROJECT.json` quotes the lines.

1. An unchallenged candidate whose signature expires before it is finalized
   stays open, with its bond, for ever (`expired_signature`).
2. Arbitration calls `resolve_market` for V2 candidates too (`v2_arbitration`).
3. Merging a position with itself erases it, and transferring to oneself adds
   the shares (`same_address`).

Met while modelling, without a run:

*Resolution.* The collateral token is asked of the market contract registered at
the time of payback, too (`lib.rs:1297`), so a change of that contract in a
dispute may change the token, against the comment at `lib.rs:537-540`. An appeal
replaces the outcome (`lib.rs:702`) and may adopt the challenger's, who is slashed
at finalization all the same, against `lib.rs:794-796`. `set_market_contract` takes
effect at once though `lib.rs:157-161` calls the window setter the only exception
from the timelock; the comments of arbitration, and of two events
(`events.rs:160,182`), ask for all appeals to be used up and `require_arbitrable`
does not; `docs/resolution-storage.md:13` speaks of a collateral withdrawal that
does not exist; `propose_v2`, `deposit_collateral` and `slash_collateral` have no
pause check although `pause` is documented as blocking all state-mutating
operations (`lib.rs:996-997`); the treasury's share of a slashed bond arrives by a
plain transfer and is in no book (`lib.rs:1383-1388`).

*Treasury.* `TotalCollected` is documented as decreasing and never does;
`transfer_admin` is immediate and leaves a pending admin executable.

*Market ledger.* `DepositsPaused` is enforced nowhere; `types.rs:146-161` requires
`locked_collateral <= total_deposited` after every trade, while ADR-002 lets a
deposit in one market back a trade in another; a withdrawal looks at the locks of
its own market only, so the locks of all markets may exceed the collateral
balance; the "floored at 0" of `withdraw.rs:143` is not what `saturating_sub` on
`i128` does, and harmless, as the comparison after it fails; `transfer_position`
and `merge_positions` leave outcome tokens, participants, cooldown and collateral
balance where they were; `settle_positions_page` does not reach an account that
only received shares; settlement neither debits `CollateralBalance` nor releases
locks (ADR-002 leaves it to a second phase). `scale_by_bps` says it caps at
`i128::MAX` (`positions.rs:32-36`) and caps at `i128::MAX / 10_000`, as the product
saturates before the division; `position_limit_exceeded_side`
(`positions.rs:122-138`) documents which side and reports either.
`docs/reentrancy-cei-audit.md` invariant 1 (all effects before any cross-contract
call) does not hold of the batched settlements, which burn tokens
(`settlement.rs:320`) before the position is written, nor `docs/SECURITY.md`'s
"transfer-first" of deposits, which write first. `validate_deposit_amount` is
never called. A title of exactly `MAX_MARKET_TITLE_LENGTH` is refused.

*Oracle.* The equivocation check of a threshold stops at the quorum; the Pyth
exponent is ignored; `saturating_sub` accepts timestamps of the future; the
`expires_at` of V1 is not signed; the threshold path bypasses the dispatch on a
market's adapter; the expiry of a V2 report is checked in the entrypoint only.

*Stores.* `storage.rs:10` calls keys collision-free, while the keys of a position
use the address alone (lines 79, 81) and a name of 32 bytes is cut to 31;
decoding a `SettlementReceipt` copies 31 bytes into 32 and panics. The outcome
token's README (lines 20-25) calls metadata immutable and a second `initialize`
rejected; `initialize` has no guard and `set_metadata` exists. `lib.rs:216-220`
says that the mint is dispatched, and `dispatch_mint` does nothing.

*Events.* `docs/events-reference.md:203-208` explains every new total by the
previous one, which fails after `merge_positions`; lines 125-126 leave out the bond
amounts; `positions.rs:294-295,355-356` and `fee_waiver.rs:87,131` call emit
functions with other arguments than `events.rs` declares (modelled as publishing
the new values); `settlement.rs:150-152` speaks of zeroed shares, and shares stay;
`withdraw.rs:151` passes the availability before the fee as the one after it; the
comment at `resolution/src/events.rs:408-410` has the slash seen "regardless of
token-transfer outcome", but a failed transfer takes the event back, as any failed
call does: three events of refusals can never be seen outside a batch.
`market_contract_updated` is emitted nowhere.

## 6. Plan

Done: `Resolution` with its abstract escrow and register, `Treasury`,
`MarketLedger` with reconciliation; `Oracle`; the stores, ids, amounts and the
outcome token; the events of three contracts with their readers; the proofs
above. What could follow, in this order:

1. An abstract vault that `MarketLedger` implements between deposit and
   resolution, and its locks: which bound on them survives protocol-wide collateral.
2. `Protocol`: resolution, market and treasury composed, with the money of all
   three. Each of the three models already contains what it sees of the others,
   so this would join `SettledElsewhere` with the settlement of `MarketLedger`, and
   `ReceiveSlashShare` and `RouteFee` with the calls that send; at the bounds of
   the single runs its state space is out of TLC's reach, which is why the seams
   are checked from both sides instead.
3. Proofs of what no run asks yet: which bound on all locks of a user
   `MarketLedger` keeps, and the vault of item 1 as a refinement; that a V2 candidate
   that is challenged at its deadline can only be voided, as an invariant of the
   statuses in place of `ENABLED`.

## 7. Not modelled, and why

* Error codes: no transition tells one refusal from another.
* String formatting other than the reading of a market id (`market_id_to_string`,
  URI and title lengths): output or local validation that no transition depends on.
* Signature bytes and hashing: a signature verifies if its key's holder made it over
  that message.
* The entrypoints `market/src/lib.rs` lacks at this commit are modelled as far as
  their callees, tests and documents fix them, and marked external; events of
  calls that are absent altogether (market creation, the oracle's settings) have
  no model. `positions.rs` ends inside a function, and with it the place where
  `TradeExecuted` was emitted.
* `outcome-token/src/storage.rs`: accessors nothing calls.
* Storage expiry (TTL) and rent: the contracts extend no entry in a way a
  transition reads.
* Hazards without a property, with the reason in `PROJECT.json`: what a pause means
  for a window that keeps running, a voided market that is reopened, a pending
  change that outlives the removal of its subject, the pool of all markets behind a
  lone winner, and a trade's cover next to locks that nothing releases. In each the
  code does what it does on purpose or by a documented gap, and there is no
  promise to hold it to.
* The web application, the scripts and the deployment files run outside the
  contracts.
