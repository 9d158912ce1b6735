------------------------------ MODULE BondEscrow ------------------------------
(***************************************************************************)
(* What the resolution contract promises about money, without saying how a *)
(* dispute runs: bonds are locked one after another while a dispute is     *)
(* open, all the bonds of a dispute are released together and once, a      *)
(* dispute that was settled never takes or pays a bond again, and a        *)
(* release never touches what other disputes or depositors have locked.    *)
(***************************************************************************)
EXTENDS Integers, Sequences, Functions

CONSTANTS Disputes, Depositors

VARIABLES
  stakes,    \* the bonds locked in each dispute, in the order they were posted
  settled,   \* the disputes that are over
  deposits,  \* the collateral of each depositor
  held       \* everything the contract holds

vars == <<stakes, settled, deposits, held>>

Init ==
  /\ stakes = [d \in Disputes |-> <<>>]
  /\ settled = {}
  /\ deposits = [p \in Depositors |-> 0]
  /\ held = 0

Lock(d, bond) ==
  /\ d \notin settled
  /\ bond > 0
  /\ stakes' = [stakes EXCEPT ![d] = Append(@, bond)]
  /\ held' = held + bond
  /\ UNCHANGED <<settled, deposits>>

\* What may stay behind of a forfeited bond when nobody is registered to receive
\* the treasury share: all but the half that rewards and the quarter that burns.
Retained(bond) == bond - bond \div 2 - bond \div 4

\* Everything else is released, and never more than the bonds themselves.
Settle(d) ==
  /\ d \notin settled
  /\ stakes[d] # <<>>
  /\ stakes' = [stakes EXCEPT ![d] = <<>>]
  /\ settled' = settled \cup {d}
  /\ LET kept == SumFunction(stakes[d]) - (held - held')
     IN  kept \in 0 .. SumFunction([i \in DOMAIN stakes[d] |-> Retained(stakes[d][i])])
  /\ UNCHANGED deposits

Deposit(p, amount) ==
  /\ amount > 0
  /\ deposits' = [deposits EXCEPT ![p] = @ + amount]
  /\ held' = held + amount
  /\ UNCHANGED <<stakes, settled>>

Forfeit(p) ==
  /\ deposits[p] > 0
  /\ deposits' = [deposits EXCEPT ![p] = 0]
  /\ held' = held - deposits[p]
  /\ UNCHANGED <<stakes, settled>>

Next ==
  \/ \E d \in Disputes : Settle(d) \/ (held' > held /\ Lock(d, held' - held))
  \/ \E p \in Depositors : Forfeit(p) \/ (held' > held /\ Deposit(p, held' - held))

Spec == Init /\ [][Next]_vars
===============================================================================
