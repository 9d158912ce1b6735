----------------------------- MODULE MCResolution -----------------------------
(***************************************************************************)
(* Instances of Resolution for TLC: the constants that a .cfg cannot write *)
(* down, and the symmetry of the users.                                    *)
(***************************************************************************)
EXTENDS Resolution, TLC

CONSTANTS Alice, Bob,           \* users
          M1, M2,               \* markets
          K1, K2,               \* market contracts
          X, Y                  \* tokens

\* One token behind every market; one for each market; one for each deployment
\* of the market contract.
OneToken == [k \in MarketContracts |-> [m \in Markets |-> X]]
TokenPerMarket == [k \in MarketContracts |-> [m \in Markets |-> IF m = M1 THEN X ELSE Y]]
TokenPerContract == [k \in MarketContracts |-> [m \in Markets |-> IF k = K1 THEN X ELSE Y]]

\* The oracle signed both outcomes (that is what a dispute is about), or only one.
BothSigned == [m \in Markets |-> BOOLEAN]
TrueSigned == [m \in Markets |-> {TRUE}]

UserSymmetry == Permutations(Users)
===============================================================================
