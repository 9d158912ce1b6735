----------------------------- MODULE MarketStorage -----------------------------
(***************************************************************************)
(* The market contract's stores and the mint-on-trade edge.                *)
(*                                                                         *)
(* lib.rs keeps one instance entry per StorageKey, by its symbol, read and *)
(* written as a number by get_key and set_key, and as an address or a flag *)
(* by the calls that own them: a read at another type than the entry was   *)
(* written at traps.  mint_on_trade passes a trade on to the outcome token *)
(* once per correlation id.                                                *)
(*                                                                         *)
(* storage.rs keeps persistent entries under keys of its own, encoded as a *)
(* tag and the first bytes of one payload.                                 *)
(***************************************************************************)
EXTENDS Integers, Sequences, FiniteSets

CONSTANTS
  Addresses,            \* accounts and contracts
  Absent,               \* an absent storage entry
  AdminInputs,          \* the admin entry at deployment, Absent included
  PausedInputs,         \* the paused entry at deployment, Absent included
  InstanceKeys,         \* instance keys the admin writes, members of AllStorageKeys
  Numbers,              \* numbers the admin writes
  Edges,                \* mint_on_trade arguments
  Keys,                 \* persistent keys in use
  Values,               \* values stored under them
  PAYLOAD_WIDTH         \* payload bytes of an encoded key

VARIABLES
  store,                \* instance storage, by symbol
  mint_seen,            \* correlation ids marked as processed
  minted,               \* history: the dispatched edges with their token, in order
  persistent,           \* persistent storage, by encoded key: a set of entries
  written,              \* history: the last value written to each typed key
  addresses_decode      \* whether the host reads padded key bytes as an address

instanceVars   == <<store, mint_seen, minted>>
persistentVars == <<persistent, written, addresses_decode>>
vars == <<instanceVars, persistentVars>>

\* The symbol of each instance key.
KeySymbols ==
  [Admin |-> "admin", Paused |-> "paused", MarketConfig |-> "mkt_cfg",
   LiquidityPool |-> "liq_pool", Position |-> "position", Settlement |-> "settle",
   FeeAccrued |-> "fee_acc", OraclePrice |-> "oracle", ReentrancyGuard |-> "reent",
   OutcomeToken |-> "out_tok", MintOnTradeSeen |-> "mot_seen"]

\* An instance entry remembers the type it was written at.
Entry(type, value) == [type |-> type, value |-> value]

MintOnTradeEdge == [trader : Addresses, amount : Nat, correlation_id : Nat]

ASSUME ConstantsAssumption ==
  /\ AdminInputs \subseteq Addresses \cup {Absent}
  /\ InstanceKeys \subseteq DOMAIN KeySymbols
  /\ Numbers \subseteq Nat
  /\ Edges \subseteq MintOnTradeEdge
  /\ PAYLOAD_WIDTH \in Nat
  /\ Absent \notin Addresses \cup Values

-------------------------------------------------------------------------------
\* Instance storage.

AllStorageKeys == DOMAIN KeySymbols

\* Fault: two keys share a symbol.
SharedSymbol(key) == IF key = "OraclePrice" THEN "fee_acc" ELSE KeySymbols[key]

KeySymbol(key) == KeySymbols[key]

Symbols == {KeySymbol(key) : key \in AllStorageKeys}

\* Fault: accrued fees are not on the list.
MoneyPathWithoutFees(key) ==
  key \in {"LiquidityPool", "Position", "Settlement", "MintOnTradeSeen"}

IsMoneyPath(key) ==
  key \in {"LiquidityPool", "Position", "Settlement", "FeeAccrued", "MintOnTradeSeen"}

Has(key) == store[KeySymbol(key)] # Absent

\* A read that does not trap: nothing is there, or something of this type.
Readable(key, type) == Has(key) => store[KeySymbol(key)].type = type

Stored(key) == store[KeySymbol(key)].value

IsPaused == store[KeySymbol("Paused")] = Entry("bool", TRUE)

\* What lib.rs tests first wherever money may move.
NotPaused == Readable("Paused", "bool") /\ ~IsPaused

IsAdmin(caller) ==
  /\ Has("Admin") /\ Readable("Admin", "address")
  /\ Stored("Admin") = caller

Put(key, entry) == store' = [store EXCEPT ![KeySymbol(key)] = entry]

\* get_key changes nothing; this is when it returns a number.
GetKey(key) ==
  /\ Readable("Paused", "bool")
  /\ ~(IsPaused /\ IsMoneyPath(key))
  /\ Readable(key, "u64")

\* Every key may be written, also those that hold an address or a flag.
SetKey(caller, key, value) ==
  /\ IsAdmin(caller)
  /\ Readable("Paused", "bool")
  /\ ~(IsPaused /\ IsMoneyPath(key))
  /\ Put(key, Entry("u64", value))
  /\ UNCHANGED <<mint_seen, minted, persistentVars>>

SetOutcomeToken(caller, outcome_token) ==
  /\ IsAdmin(caller)
  /\ Put("OutcomeToken", Entry("address", outcome_token))
  /\ UNCHANGED <<mint_seen, minted, persistentVars>>

\* Fault: a correlation id is looked up with the trader who used it.
SeenFromTrader(edge) ==
  \E i \in 1 .. Len(minted) :
    /\ minted[i].edge.correlation_id = edge.correlation_id
    /\ minted[i].edge.trader = edge.trader

MintSeen(edge) == edge.correlation_id \in mint_seen

\* The request to the outcome token: at this commit nothing is called.
DispatchMint(outcome_token, edge) ==
  minted' = Append(minted, [token |-> outcome_token, edge |-> edge])

MintOnTrade(edge) ==
  /\ NotPaused
  /\ edge.amount # 0
  /\ Has("OutcomeToken") /\ Readable("OutcomeToken", "address")
  /\ ~MintSeen(edge)
  /\ mint_seen' = mint_seen \cup {edge.correlation_id}
  /\ DispatchMint(Stored("OutcomeToken"), edge)
  /\ UNCHANGED <<store, persistentVars>>

-------------------------------------------------------------------------------
\* Persistent storage.  A typed key is its variant with the bytes of its parts.

Tags ==
  [MarketConfig |-> 1, MarketInfo |-> 2, MarketOpenInterest |-> 3, MarketPaused |-> 4,
   Position |-> 16, PositionIndex |-> 17, PositionCollateral |-> 18,
   Settlement |-> 32, SettlementNonce |-> 33, SettlementReceipt |-> 34,
   FeeAccrued |-> 48, FeeConfig |-> 49, OraclePrice |-> 64, OracleTimestamp |-> 65]

\* Fault: the pause flag has the tag of the open interest.
TagCopied(variant) ==
  Tags[IF variant = "MarketPaused" THEN "MarketOpenInterest" ELSE variant]

Tag(variant) == Tags[variant]

ByOwner == {"Position", "PositionIndex", "PositionCollateral"}

\* Of a position's two parts only the owner goes into the key.
Payload(key) == IF key.variant \in ByOwner THEN key.owner ELSE key.name

Encode(key) ==
  <<Tag(key.variant)>> \o
    [i \in 1 .. PAYLOAD_WIDTH |-> IF i <= Len(Payload(key)) THEN Payload(key)[i] ELSE 0]

\* Decoding never gives back the key.  It only matters whether it returns at all:
\* it copies the payload of a receipt into a longer array, which panics, and asks
\* the host for an address.
Decodes(key) ==
  /\ key.variant # "SettlementReceipt"
  /\ key.variant \in ByOwner => addresses_decode

Read(key) == {e.value : e \in {p \in persistent : p.raw = Encode(key)}}

Write(key, value) ==
  /\ Decodes(key)
  /\ persistent' = {p \in persistent : p.raw # Encode(key)}
                     \cup {[raw |-> Encode(key), value |-> value]}
  /\ written' = [written EXCEPT ![key] = value]
  /\ UNCHANGED <<instanceVars, addresses_decode>>

-------------------------------------------------------------------------------

\* No entrypoint writes the first admin or the paused flag.
Init ==
  /\ \E admin \in AdminInputs, paused \in PausedInputs :
       store = [s \in Symbols |->
                  CASE s = "admin" /\ admin # Absent   -> Entry("address", admin)
                    [] s = "paused" /\ paused # Absent -> Entry("bool", paused)
                    [] OTHER                           -> Absent]
  /\ mint_seen = {}
  /\ minted = <<>>
  /\ persistent = {}
  /\ written = [key \in Keys |-> Absent]
  /\ addresses_decode \in BOOLEAN

InstanceStep ==
  \/ \E caller \in Addresses, key \in InstanceKeys, value \in Numbers :
       SetKey(caller, key, value)
  \/ \E caller, token \in Addresses : SetOutcomeToken(caller, token)
  \/ \E edge \in Edges : MintOnTrade(edge)

PersistentStep == \E key \in Keys, value \in Values : Write(key, value)

Next == InstanceStep \/ PersistentStep

Spec == Init /\ [][Next]_vars

-------------------------------------------------------------------------------
\* Properties.

\* Only in properties: the entries the pause is about, as the reviewer checklist of
\* lib.rs names them.
MoneyEntries == {"LiquidityPool", "Position", "Settlement", "FeeAccrued", "MintOnTradeSeen"}

\* While the kill switch of lib.rs is on, no money-path entry can be read or
\* changes, under its own key or another one, and no trade is passed on.
PauseHolds ==
  [][IsPaused =>
       /\ \A key \in MoneyEntries :
            ~GetKey(key) /\ store'[KeySymbols[key]] = store[KeySymbols[key]]
       /\ minted' = minted]_vars

\* A trade is passed on once, whoever repeats its correlation id, to whichever token
\* is configured by then, and after whatever the admin has written in between.
MintedOnce ==
  \A i, j \in 1 .. Len(minted) :
    minted[i].edge.correlation_id = minted[j].edge.correlation_id => i = j

\* The typed keys that share one entry with key: itself, and for a position the same
\* owner's in every market.
Twins(key) ==
  {k \in Keys :
     /\ k.variant = key.variant
     /\ IF key.variant \in ByOwner THEN k.owner = key.owner ELSE k.name = key.name}

\* As long as no name is cut off, a typed key reads what was last written to it: no
\* write to another kind of key, or to another name, gets in between.  Positions are
\* the exception: those of one owner overwrite one another (Twins).
ReadsBack ==
  \A key \in Keys :
    LET values == {written[k] : k \in Twins(key)} \ {Absent}
    IN  /\ Read(key) \subseteq values
        /\ values # {} => Cardinality(Read(key)) = 1
===============================================================================
