----------------------------- MODULE MarketAmounts -----------------------------
(***************************************************************************)
(* The amounts of one user in one market, in the integers the contract     *)
(* computes with: i128 of which I128_MAX is the largest.  An operation of  *)
(* Rust that would leave the width ends the call (overflow-checks = true), *)
(* the checked_ ones return an error, the saturating_ ones stay at the     *)
(* bound.  MarketLedger has the same calls over unbounded integers, with   *)
(* everything around them.                                                 *)
(***************************************************************************)
EXTENDS Integers

CONSTANTS
  I128_MAX,
  BASIS_POINTS,
  AmountInputs, DeltaInputs, PriceInputs, RateInputs,
  Elsewhere             \* what the user has deposited and locked in other markets

VARIABLES
  deposited,            \* total_deposited of the position
  collateral,           \* CollateralBalance of the user
  yes, no,              \* shares
  price,                \* the price of the latest trade
  locked                \* locked_collateral

amountVars == <<deposited, collateral, yes, no, price, locked>>

\* The locks elsewhere leave room for one largest lock in the width.  A lock is at
\* most I128_MAX \div BASIS_POINTS, so that they do unless the user holds such locks
\* in almost BASIS_POINTS markets at once.  Without room, saturating_add would stop
\* at a balance of I128_MAX and CoversLock would take a lock that is not covered.
ASSUME AmountAssumption ==
  /\ I128_MAX \in Nat
  /\ BASIS_POINTS \in Nat /\ BASIS_POINTS > 0
  /\ Elsewhere \in Nat
  /\ Elsewhere + I128_MAX \div BASIS_POINTS <= I128_MAX
  /\ AmountInputs \subseteq Int /\ DeltaInputs \subseteq Int
  /\ PriceInputs \subseteq Int /\ RateInputs \subseteq Int

MAX_REASONABLE_AMOUNT == I128_MAX \div 2

\* validate_collateral_amount: positive and reasonable.
ValidCollateralAmount(amount) == amount > 0 /\ amount <= MAX_REASONABLE_AMOUNT

InWidth(i) == i \in -I128_MAX - 1 .. I128_MAX

Saturated(i) == IF i > I128_MAX THEN I128_MAX ELSE i

\* Fault: the product wraps around.
ScaleWrapped(amount, bps) == ((amount * bps) % (I128_MAX + 1)) \div BASIS_POINTS

\* scale_by_bps: the product stops at the bound and is divided afterwards.
ScaleByBps(amount, bps) == Saturated(amount * bps) \div BASIS_POINTS

LockedCollateral(y, n, p) ==
  IF y > n THEN ScaleByBps(y - n, p) ELSE ScaleByBps(n - y, BASIS_POINTS - p)

CoversLock(lock) == Saturated(lock + Elsewhere) <= collateral

\* calculate_fee: refused if the product does not fit.
FeeFits(amount, rate) == amount * rate <= I128_MAX

Fee(amount, rate) == (amount * rate) \div BASIS_POINTS

AmountInit ==
  /\ deposited = 0 /\ collateral = Elsewhere
  /\ yes = 0 /\ no = 0 /\ price = 0 /\ locked = 0

Deposit(amount) ==
  /\ ValidCollateralAmount(amount)
  /\ collateral + amount <= I128_MAX /\ deposited + amount <= I128_MAX
  /\ collateral' = collateral + amount
  /\ deposited' = deposited + amount
  /\ UNCHANGED <<yes, no, price, locked>>

Withdraw(amount, rate) ==
  /\ ValidCollateralAmount(amount)
  /\ rate \in 0 .. BASIS_POINTS
  /\ FeeFits(amount, rate)
  /\ amount + Fee(amount, rate) <= I128_MAX
  /\ amount + Fee(amount, rate) <= deposited - locked
  /\ deposited' = deposited - (amount + Fee(amount, rate))
  /\ collateral' = collateral - (amount + Fee(amount, rate))
  /\ UNCHANGED <<yes, no, price, locked>>

\* validate_position_change, then the new lock, checked if it grows.
Trade(yes_delta, no_delta, p) ==
  /\ p \in 0 .. BASIS_POINTS
  /\ InWidth(yes + yes_delta) /\ InWidth(no + no_delta)
  /\ yes + yes_delta >= 0 /\ no + no_delta >= 0
  /\ yes' = yes + yes_delta /\ no' = no + no_delta /\ price' = p
  /\ locked' = LockedCollateral(yes', no', p)
  /\ locked' > locked => CoversLock(locked')
  /\ UNCHANGED <<deposited, collateral>>

AmountStep ==
  \/ \E amount \in AmountInputs :
       Deposit(amount) \/ \E rate \in RateInputs : Withdraw(amount, rate)
  \/ \E yes_delta, no_delta \in DeltaInputs, p \in PriceInputs :
       Trade(yes_delta, no_delta, p)

AmountSpec == AmountInit /\ [][AmountStep]_amountVars

-------------------------------------------------------------------------------
\* Properties.

\* What a position can lose at its price, had the contract all the integers there are.
Exposure ==
  IF yes > no THEN (yes - no) * price ELSE (no - yes) * (BASIS_POINTS - price)

\* However long the calls go on, the width of the integers costs nobody anything: the
\* lock is the exact one, rounded down, as long as its product is one of them; beyond
\* that it stays at its largest, and no lock is ever free.  All locks together are
\* covered by what the user has, and what has been deposited here covers this one
\* (positions.rs, scale_by_bps and check_protocol_collateral; #906, #685).
LocksWithinWidth ==
  /\ Exposure <= I128_MAX => locked = Exposure \div BASIS_POINTS
  /\ Exposure > I128_MAX => locked = I128_MAX \div BASIS_POINTS
  /\ locked + Elsewhere <= collateral
  /\ locked <= deposited
  /\ deposited + Elsewhere = collateral
===============================================================================
