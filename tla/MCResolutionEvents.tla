-------------------------- MODULE MCResolutionEvents --------------------------
(***************************************************************************)
(* Instance of Resolution with its events for TLC.                         *)
(***************************************************************************)
EXTENDS MCResolution, ResolutionEvents

\* The three timelocked registers share no entry: a run looks at one of them.
OneRegisterPending ==
  Cardinality({r \in Registers : index'.announced[r] # Unset}) <= 1
===============================================================================
