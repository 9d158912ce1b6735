------------------------------ MODULE MCTreasury ------------------------------
(***************************************************************************)
(* Instances of Treasury for TLC, with its events.                         *)
(***************************************************************************)
EXTENDS TreasuryEvents, TLC

CONSTANTS A, B,                 \* admins
          K1, K2,               \* market contracts
          X, Y,                 \* tokens
          S1, S2, S3            \* stakeholders

Holder(s, bps) == [address |-> s, share_bps |-> bps]

\* A list that leaves dust, one with a single holder, one whose shares fall short
\* of BPS_DENOMINATOR = 4 and one whose shares exceed it.
Lists == {<<Holder(S1, 1), Holder(S2, 1), Holder(S3, 2)>>, <<Holder(S1, 4)>>,
          <<Holder(S1, 1), Holder(S2, 2)>>, <<Holder(S1, 3), Holder(S2, 2)>>}

\* Little of each token, so that collected fees come back to be collected again.
ScarceSupply == [t \in Tokens |-> IF t = X THEN 3 ELSE 1]

\* The three kinds of pending change share no entry: a run looks at one of them.
OneKindPending ==
  Cardinality({kind \in {"admin", "market", "split"} :
    CASE kind = "admin" -> index'.announcedAdmin # Unset
      [] kind = "market" -> index'.announcedMarket # Unset
      [] kind = "split" -> index'.announcedSplit # Unset}) <= 1
===============================================================================
