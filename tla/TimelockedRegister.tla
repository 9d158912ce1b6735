-------------------------- MODULE TimelockedRegister --------------------------
(***************************************************************************)
(* What a timelock promises: the value in force is only ever replaced by a *)
(* value that has stood announced, not withdrawn and not replaced by       *)
(* another announcement, for the whole delay.                              *)
(***************************************************************************)
EXTENDS Integers

CONSTANTS Nothing,    \* no announcement
          Delay

VARIABLES inForce,    \* the value in force
          announced,  \* the value that was announced, or Nothing
          age         \* for how long it has stood, counted up to Delay

vars == <<inForce, announced, age>>

Init == announced = Nothing /\ age = 0

\* A new announcement starts the delay again, whatever stood before.
Announce ==
  /\ announced' # Nothing
  /\ age' = 0
  /\ UNCHANGED inForce

Withdraw ==
  /\ announced' = Nothing
  /\ age' = 0
  /\ UNCHANGED inForce

Wait ==
  /\ announced # Nothing
  /\ age < Delay
  /\ age' = age + 1
  /\ UNCHANGED <<inForce, announced>>

Enact ==
  /\ announced # Nothing
  /\ age >= Delay
  /\ inForce' = announced
  /\ announced' = Nothing
  /\ age' = 0

Next == Announce \/ Withdraw \/ Wait \/ Enact

Spec == Init /\ [][Next]_vars
===============================================================================
