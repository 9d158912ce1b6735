---------------------------- MODULE MCMarketLedger ----------------------------
(***************************************************************************)
(* Instances of MarketLedger for TLC.                                      *)
(***************************************************************************)
EXTENDS MarketEvents, TLC

CONSTANTS Alice, Bob,           \* users
          M1, M2                \* markets

\* Buying and selling one share.
Deltas == {-1, 0, 1}

UserSymmetry == Permutations(Users)
MarketSymmetry == Permutations(Markets)
===============================================================================
