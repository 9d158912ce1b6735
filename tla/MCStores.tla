------------------------------- MODULE MCStores -------------------------------
(***************************************************************************)
(* The small parts around the ledger for TLC, side by side: the stores of  *)
(* the market contract, that of an outcome token, the reading of a market  *)
(* id and the integers of one position.                                    *)
(***************************************************************************)
EXTENDS MarketStorage, MarketAmounts, OutcomeToken, MarketIds, TLC

CONSTANTS A, B, T               \* accounts; T is a token

\* A width whose largest number has as many digits as a text may have, as 4294967295.
MCTexts == UNION {[1 .. k -> 0 .. NoDigit] : k \in 0 .. 4}

\* Position changes up to the largest number of a five-bit i128.
MCDeltas == {-15, -2, 0, 1, 2, 15}

storeVars == <<vars, tokenVars>>
valueVars == <<idVars, amountVars>>

MCEdges ==
  {[trader |-> A, amount |-> 1, correlation_id |-> 1],
   [trader |-> B, amount |-> 1, correlation_id |-> 1],
   [trader |-> A, amount |-> 2, correlation_id |-> 2],
   [trader |-> A, amount |-> 0, correlation_id |-> 3]}

Key(variant, name, owner) == [variant |-> variant, name |-> name, owner |-> owner]

\* Names of one and of two bytes; owners are addresses of fixed length.
MCKeys ==
  {Key("MarketInfo", <<1>>, <<>>), Key("MarketInfo", <<1, 1>>, <<>>),
   Key("MarketOpenInterest", <<1>>, <<>>), Key("MarketPaused", <<1>>, <<>>),
   Key("Position", <<1>>, <<1, 2>>), Key("Position", <<2>>, <<1, 2>>),
   Key("FeeConfig", <<>>, <<>>), Key("SettlementReceipt", <<1, 2, 3>>, <<>>)}

MCInit == Init /\ TokenInit /\ IdsInit /\ AmountInit

\* The parts share no entry, so that the run looks at one at a time.
InUse ==
  {p \in {"instance", "persistent", "token", "ids", "amounts"} :
     CASE p = "instance"   -> minted # <<>> \/ \E s \in Symbols : store[s] # Absent
       [] p = "persistent" -> persistent # {}
       [] p = "token"      -> admin # Unset
       [] p = "ids"        -> verdict # "idle"
       [] p = "amounts"    -> deposited + yes + no > 0}

MCNext ==
  \/ InUse \subseteq {"instance"} /\ InstanceStep /\ UNCHANGED <<tokenVars, valueVars>>
  \/ InUse \subseteq {"persistent"} /\ PersistentStep /\ UNCHANGED <<tokenVars, valueVars>>
  \/ InUse \subseteq {"token"} /\ TokenStep /\ UNCHANGED <<vars, valueVars>>
  \/ InUse \subseteq {"ids"} /\ IdsStep /\ UNCHANGED <<storeVars, amountVars>>
  \/ InUse \subseteq {"amounts"} /\ AmountStep /\ UNCHANGED <<storeVars, idVars>>

MCSpec == MCInit /\ [][MCNext]_<<storeVars, valueVars>>
===============================================================================
