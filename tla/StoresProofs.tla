----------------------------- MODULE StoresProofs -----------------------------
(***************************************************************************)
(* Theorems about the stores of the market contract, for any addresses,    *)
(* keys, numbers and edges; about the integers of one position, for every  *)
(* width, scale of prices and input; about the metadata of an outcome      *)
(* token; and about the reading of a market id, for every base, width and  *)
(* text.                                                                   *)
(***************************************************************************)
EXTENDS MarketStorage, MarketAmounts, OutcomeToken, MarketIds, SumTheorems,
        SequenceTheorems

-------------------------------------------------------------------------------
\* Instance storage.

Dispatch == [token : Addresses, edge : Edges]

\* The shape of instance storage, and what the idempotency markers mean: whatever was
\* dispatched is marked, and no two dispatches share a correlation id.
StorageInvariant ==
  /\ DOMAIN store = Symbols
  /\ \A s \in Symbols :
       store[s] # Absent /\ store[s].type = "address" => store[s].value \in Addresses
  /\ minted \in Seq(Dispatch)
  /\ \A i \in 1 .. Len(minted) : minted[i].edge.correlation_id \in mint_seen
  /\ MintedOnce

-------------------------------------------------------------------------------
\* No two instance keys share a symbol, so that a write to one leaves the others.
LEMMA SymbolsDiffer ==
  ASSUME NEW k \in AllStorageKeys, NEW l \in AllStorageKeys, KeySymbol(k) = KeySymbol(l)
  PROVE  k = l
  BY DEF AllStorageKeys, KeySymbol, KeySymbols

LEMMA KeysHaveSymbols ==
  ASSUME NEW k \in AllStorageKeys
  PROVE  KeySymbol(k) \in Symbols
  BY DEF Symbols

LEMMA NamedKeys ==
  /\ {"Admin", "Paused", "OutcomeToken"} \subseteq AllStorageKeys
  /\ MoneyEntries \subseteq AllStorageKeys
  /\ "OutcomeToken" \notin MoneyEntries
  BY DEF AllStorageKeys, KeySymbols, MoneyEntries

\* Putting an entry under one key.
LEMMA PutChangesOne ==
  ASSUME DOMAIN store = Symbols, NEW key \in AllStorageKeys, NEW entry, Put(key, entry)
  PROVE  /\ DOMAIN store' = Symbols
         /\ store'[KeySymbol(key)] = entry
         /\ \A s \in Symbols : s # KeySymbol(key) => store'[s] = store[s]
  BY KeysHaveSymbols DEF Put

LEMMA InitEstablishes == Init => StorageInvariant
<1>. SUFFICES ASSUME Init PROVE StorageInvariant
  OBVIOUS
<1>1. PICK first_admin \in AdminInputs, paused \in PausedInputs :
        store = [s \in Symbols |->
                  CASE s = "admin" /\ first_admin # Absent   -> Entry("address", first_admin)
                    [] s = "paused" /\ paused # Absent -> Entry("bool", paused)
                    [] OTHER                           -> Absent]
  BY DEF Init
<1>2. DOMAIN store = Symbols
  BY <1>1
<1>3. ASSUME NEW s \in Symbols, store[s] # Absent, store[s].type = "address"
      PROVE  store[s].value \in Addresses
  <2>1. CASE s = "admin" /\ first_admin # Absent
    <3>1. store[s] = Entry("address", first_admin)
      BY <1>1, <2>1
    <3>. QED
      BY <2>1, <3>1, ConstantsAssumption DEF Entry
  <2>2. CASE ~(s = "admin" /\ first_admin # Absent) /\ s = "paused" /\ paused # Absent
    <3>1. store[s] = Entry("bool", paused)
      BY <1>1, <2>2
    <3>. QED
      BY <1>3, <3>1 DEF Entry
  <2>3. CASE ~(s = "admin" /\ first_admin # Absent) /\ ~(s = "paused" /\ paused # Absent)
    BY <1>1, <1>3, <2>3
  <2>. QED
    BY <2>1, <2>2, <2>3
<1>4. minted = <<>> /\ minted \in Seq(Dispatch)
  BY DEF Init
<1>. QED
  BY <1>2, <1>3, <1>4 DEF StorageInvariant, MintedOnce

\* set_key writes a number, which no call reads as an address.
LEMMA SetKeyPreserves ==
  ASSUME StorageInvariant, NEW caller \in Addresses, NEW key \in InstanceKeys,
         NEW value \in Numbers, SetKey(caller, key, value)
  PROVE  StorageInvariant'
<1>1. key \in AllStorageKeys
  BY ConstantsAssumption DEF AllStorageKeys
<1>2. /\ DOMAIN store' = Symbols
      /\ store'[KeySymbol(key)] = Entry("u64", value)
      /\ \A s \in Symbols : s # KeySymbol(key) => store'[s] = store[s]
  BY <1>1, PutChangesOne DEF SetKey, StorageInvariant
<1>3. \A s \in Symbols :
        store'[s] # Absent /\ store'[s].type = "address" => store'[s].value \in Addresses
  BY <1>2 DEF StorageInvariant, Entry
<1>4. UNCHANGED <<mint_seen, minted>>
  BY DEF SetKey
<1>. QED
  BY <1>2, <1>3, <1>4 DEF StorageInvariant, MintedOnce

LEMMA SetOutcomeTokenPreserves ==
  ASSUME StorageInvariant, NEW caller \in Addresses, NEW token \in Addresses,
         SetOutcomeToken(caller, token)
  PROVE  StorageInvariant'
<1>1. /\ DOMAIN store' = Symbols
      /\ store'[KeySymbol("OutcomeToken")] = Entry("address", token)
      /\ \A s \in Symbols : s # KeySymbol("OutcomeToken") => store'[s] = store[s]
  BY NamedKeys, PutChangesOne DEF SetOutcomeToken, StorageInvariant
<1>2. \A s \in Symbols :
        store'[s] # Absent /\ store'[s].type = "address" => store'[s].value \in Addresses
  BY <1>1 DEF StorageInvariant, Entry
<1>3. UNCHANGED <<mint_seen, minted>>
  BY DEF SetOutcomeToken
<1>. QED
  BY <1>1, <1>2, <1>3 DEF StorageInvariant, MintedOnce

\* mint_on_trade appends one dispatch, under an id that was not marked, and marks it.
LEMMA MintOnTradePreserves ==
  ASSUME StorageInvariant, NEW edge \in Edges, MintOnTrade(edge)
  PROVE  StorageInvariant'
<1>. DEFINE dispatch == [token |-> Stored("OutcomeToken"), edge |-> edge]
<1>1. Stored("OutcomeToken") \in Addresses
  BY NamedKeys, KeysHaveSymbols
  DEF MintOnTrade, StorageInvariant, Has, Readable, Stored
<1>2. dispatch \in Dispatch /\ dispatch.edge = edge
  BY <1>1 DEF Dispatch
<1>3. /\ minted' = Append(minted, dispatch)
      /\ mint_seen' = mint_seen \cup {edge.correlation_id}
      /\ edge.correlation_id \notin mint_seen
      /\ store' = store
  BY DEF MintOnTrade, DispatchMint, MintSeen
<1>. HIDE DEF dispatch
<1>4. /\ minted' \in Seq(Dispatch)
      /\ Len(minted') = Len(minted) + 1
      /\ minted'[Len(minted) + 1] = dispatch
      /\ \A i \in 1 .. Len(minted) : minted'[i] = minted[i]
  BY <1>2, <1>3, AppendProperties DEF StorageInvariant
<1>5. Len(minted) \in Nat
  BY LenProperties DEF StorageInvariant
<1>6. \A i \in 1 .. Len(minted') : minted'[i].edge.correlation_id \in mint_seen'
  BY <1>2, <1>3, <1>4, <1>5 DEF StorageInvariant
<1>7. MintedOnce'
  <2>. SUFFICES ASSUME NEW i \in 1 .. Len(minted'), NEW j \in 1 .. Len(minted'),
                       minted'[i].edge.correlation_id = minted'[j].edge.correlation_id
                PROVE  i = j
    BY DEF MintedOnce
  <2>1. CASE i \in 1 .. Len(minted) /\ j \in 1 .. Len(minted)
    BY <2>1, <1>4 DEF StorageInvariant, MintedOnce
  <2>2. ASSUME NEW k \in 1 .. Len(minted)
        PROVE  minted'[k].edge.correlation_id # edge.correlation_id
    BY <1>3, <1>4 DEF StorageInvariant
  <2>3. CASE i = Len(minted) + 1 /\ j \in 1 .. Len(minted)
    BY <2>2, <2>3, <1>2, <1>4
  <2>4. CASE i \in 1 .. Len(minted) /\ j = Len(minted) + 1
    BY <2>2, <2>4, <1>2, <1>4
  <2>. QED
    BY <2>1, <2>3, <2>4, <1>4, <1>5
<1>. QED
  BY <1>3, <1>4, <1>6, <1>7 DEF StorageInvariant

LEMMA Inductive == StorageInvariant /\ [Next]_vars => StorageInvariant'
<1>. SUFFICES ASSUME StorageInvariant, [Next]_vars PROVE StorageInvariant'
  OBVIOUS
<1>1. CASE UNCHANGED instanceVars
  BY <1>1 DEF StorageInvariant, MintedOnce, instanceVars
<1>2. ASSUME NEW caller \in Addresses, NEW key \in InstanceKeys, NEW value \in Numbers,
             SetKey(caller, key, value)
      PROVE  StorageInvariant'
  BY <1>2, SetKeyPreserves
<1>3. ASSUME NEW caller \in Addresses, NEW token \in Addresses, SetOutcomeToken(caller, token)
      PROVE  StorageInvariant'
  BY <1>3, SetOutcomeTokenPreserves
<1>4. ASSUME NEW edge \in Edges, MintOnTrade(edge)
      PROVE  StorageInvariant'
  BY <1>4, MintOnTradePreserves
<1>5. CASE PersistentStep
  BY <1>1, <1>5 DEF PersistentStep, Write
<1>. QED
  BY <1>1, <1>2, <1>3, <1>4, <1>5 DEF Next, InstanceStep, vars

\* A trade is passed on to the outcome token at most once, whatever is repeated, and
\* whatever the admin writes in between (lib.rs, mint_on_trade).
THEOREM MintsAreIdempotent == Spec => []MintedOnce
<1>1. StorageInvariant => MintedOnce
  BY DEF StorageInvariant
<1>. QED
  BY InitEstablishes, Inductive, <1>1, PTL DEF Spec

\* One step under the kill switch.
LEMMA PausedStep ==
  ASSUME StorageInvariant, [Next]_vars, IsPaused
  PROVE  /\ \A key \in MoneyEntries :
              ~GetKey(key) /\ store'[KeySymbols[key]] = store[KeySymbols[key]]
         /\ minted' = minted
<1>1. \A key \in MoneyEntries : ~GetKey(key)
  BY DEF GetKey, IsMoneyPath, MoneyEntries
<1>2. CASE UNCHANGED instanceVars
  BY <1>1, <1>2 DEF instanceVars
<1>3. ASSUME NEW caller \in Addresses, NEW key \in InstanceKeys, NEW value \in Numbers,
             SetKey(caller, key, value)
      PROVE  /\ \A k \in MoneyEntries : store'[KeySymbols[k]] = store[KeySymbols[k]]
             /\ minted' = minted
  <2>1. key \in AllStorageKeys /\ key \notin MoneyEntries
    BY <1>3, ConstantsAssumption DEF AllStorageKeys, SetKey, IsMoneyPath, MoneyEntries
  <2>2. \A s \in Symbols : s # KeySymbol(key) => store'[s] = store[s]
    BY <1>3, <2>1, PutChangesOne DEF SetKey, StorageInvariant
  <2>3. ASSUME NEW k \in MoneyEntries
        PROVE  store'[KeySymbol(k)] = store[KeySymbol(k)]
    BY <2>1, <2>2, NamedKeys, SymbolsDiffer, KeysHaveSymbols
  <2>. QED
    BY <1>3, <2>3 DEF SetKey, KeySymbol
<1>4. ASSUME NEW caller \in Addresses, NEW token \in Addresses, SetOutcomeToken(caller, token)
      PROVE  /\ \A k \in MoneyEntries : store'[KeySymbols[k]] = store[KeySymbols[k]]
             /\ minted' = minted
  <2>1. \A s \in Symbols : s # KeySymbol("OutcomeToken") => store'[s] = store[s]
    BY <1>4, NamedKeys, PutChangesOne DEF SetOutcomeToken, StorageInvariant
  <2>2. ASSUME NEW k \in MoneyEntries
        PROVE  store'[KeySymbol(k)] = store[KeySymbol(k)]
    BY <2>1, NamedKeys, SymbolsDiffer, KeysHaveSymbols
  <2>. QED
    BY <1>4, <2>2 DEF SetOutcomeToken, KeySymbol
<1>5. ~\E edge \in Edges : MintOnTrade(edge)
  BY DEF MintOnTrade, NotPaused
<1>6. CASE PersistentStep
  BY <1>2, <1>6 DEF PersistentStep, Write
<1>. QED
  BY <1>1, <1>2, <1>3, <1>4, <1>5, <1>6 DEF Next, InstanceStep, vars

\* While the kill switch is on no money-path entry is readable or changes and no trade
\* is passed on (lib.rs, is_money_path and its uses).
THEOREM PauseAlwaysHolds == Spec => PauseHolds
<1>1. StorageInvariant /\ [Next]_vars =>
        [IsPaused =>
           /\ \A key \in MoneyEntries :
                ~GetKey(key) /\ store'[KeySymbols[key]] = store[KeySymbols[key]]
           /\ minted' = minted]_vars
  BY PausedStep
<1>. QED
  BY InitEstablishes, Inductive, <1>1, PTL DEF Spec, PauseHolds

-------------------------------------------------------------------------------
\* Persistent storage.

\* What ReadsBack says of names: none has the byte a key is padded with nor is longer
\* than a key has room for, and two owners differ in a byte that is kept.  The key of a
\* receipt need not fit, as none can be written.
NamesFit ==
  /\ \A k \in Keys :
       /\ k.variant \in DOMAIN Tags
       /\ k.name \in Seq(Nat) /\ k.owner \in Seq(Nat)
       /\ k.variant \notin ByOwner \cup {"SettlementReceipt"} =>
            Len(k.name) <= PAYLOAD_WIDTH /\ \A i \in 1 .. Len(k.name) : k.name[i] # 0
  /\ \A k, l \in {key \in Keys : key.variant \in ByOwner} :
       /\ Len(k.owner) = Len(l.owner)
       /\ (\A i \in 1 .. Len(k.owner) : i <= PAYLOAD_WIDTH => k.owner[i] = l.owner[i])
            => k.owner = l.owner

Writable(k) == k.variant # "SettlementReceipt"

\* Every entry is what was last written under one of the keys it is encoded from, there
\* is one entry for each encoded key, and what was written has an entry.
EntriesFollow ==
  /\ DOMAIN written = Keys
  /\ \A p \in persistent :
       /\ p.value \in Values
       /\ \E k \in Keys : Writable(k) /\ p.raw = Encode(k) /\ written[k] = p.value
  /\ \A p, q \in persistent : p.raw = q.raw => p = q
  /\ \A k \in Keys : written[k] # Absent => \E p \in persistent : p.raw = Encode(k)

\* The byte of a payload at one place, padded.
Padded(k, i) == IF i <= Len(Payload(k)) THEN Payload(k)[i] ELSE 0

\* An encoded key is its tag and then the padded payload.
LEMMA EncodedBytes ==
  ASSUME NEW k, Tag(k.variant) \in Nat, Payload(k) \in Seq(Nat)
  PROVE  /\ Encode(k)[1] = Tag(k.variant)
         /\ \A i \in 1 .. PAYLOAD_WIDTH : Encode(k)[i + 1] = Padded(k, i)
<1>. DEFINE Rest == [i \in 1 .. PAYLOAD_WIDTH |-> Padded(k, i)]
            TagByte == <<Tag(k.variant)>>
<1>1. PAYLOAD_WIDTH \in Nat
  BY ConstantsAssumption DEF ConstantsAssumption
<1>2. \A i \in 1 .. PAYLOAD_WIDTH : Padded(k, i) \in Nat
  BY <1>1 DEF Padded
<1>3. Rest \in Seq(Nat) /\ Len(Rest) = PAYLOAD_WIDTH
  BY <1>1, <1>2
<1>4. TagByte \in Seq(Nat) /\ Len(TagByte) = 1 /\ TagByte[1] = Tag(k.variant)
  OBVIOUS
<1>5. Encode(k) = TagByte \o Rest
  BY DEF Encode, Padded
<1>6. \A i \in 1 .. PAYLOAD_WIDTH : Rest[i] = Padded(k, i)
  OBVIOUS
<1>. HIDE DEF Rest, TagByte
<1>7. \A i \in 1 .. Len(TagByte) + Len(Rest) :
        (TagByte \o Rest)[i] = IF i <= Len(TagByte) THEN TagByte[i] ELSE Rest[i - Len(TagByte)]
  BY <1>3, <1>4, ConcatProperties, Zenon
<1>8. (TagByte \o Rest)[1] = TagByte[1]
  <2>1. 1 \in 1 .. Len(TagByte) + Len(Rest) /\ 1 <= Len(TagByte)
    BY <1>1, <1>3, <1>4
  <2>. QED
    BY <1>7, <2>1, Zenon
<1>9. ASSUME NEW i \in 1 .. PAYLOAD_WIDTH PROVE (TagByte \o Rest)[i + 1] = Rest[i]
  <2>1. i + 1 \in 1 .. Len(TagByte) + Len(Rest) /\ ~(i + 1 <= Len(TagByte)) /\ i + 1 - Len(TagByte) = i
    BY <1>1, <1>3, <1>4
  <2>. QED
    BY <1>7, <2>1
<1>. QED
  BY <1>4, <1>5, <1>6, <1>8, <1>9

LEMMA TagsDiffer ==
  /\ \A v \in DOMAIN Tags : Tag(v) \in Nat
  /\ \A v, w \in DOMAIN Tags : Tag(v) = Tag(w) => v = w
  BY DEF Tags, Tag

LEMMA PayloadsAreSequences ==
  ASSUME NamesFit, NEW k \in Keys
  PROVE  Payload(k) \in Seq(Nat)
<1>. QED
  BY DEF NamesFit, Payload

\* Two keys share an entry only if they are twins.
LEMMA SharedByTwins ==
  ASSUME NamesFit, NEW k \in Keys, NEW l \in Keys, Writable(l), Encode(k) = Encode(l)
  PROVE  l \in Twins(k)
<1>1. k.variant \in DOMAIN Tags /\ l.variant \in DOMAIN Tags
  BY DEF NamesFit
<1>2. PAYLOAD_WIDTH \in Nat
  BY ConstantsAssumption DEF ConstantsAssumption
<1>3. Payload(k) \in Seq(Nat) /\ Payload(l) \in Seq(Nat)
  BY PayloadsAreSequences
<1>4. k.variant = l.variant
  BY <1>1, <1>3, EncodedBytes, TagsDiffer
<1>5. \A i \in 1 .. PAYLOAD_WIDTH : Padded(k, i) = Padded(l, i)
  <2>1. Tag(k.variant) \in Nat /\ Tag(l.variant) \in Nat
    BY <1>1, TagsDiffer
  <2>. QED
    BY <2>1, <1>3, EncodedBytes, Zenon
<1>6. CASE k.variant \in ByOwner
  <2>1. Payload(k) = k.owner /\ Payload(l) = l.owner
    BY <1>4, <1>6 DEF Payload
  <2>2. Len(k.owner) = Len(l.owner) /\ k.owner \in Seq(Nat) /\ l.owner \in Seq(Nat)
    BY <1>4, <1>6 DEF NamesFit
  <2>3. \A i \in 1 .. Len(k.owner) : i <= PAYLOAD_WIDTH => k.owner[i] = l.owner[i]
    BY <1>2, <1>5, <2>1, <2>2 DEF Padded
  <2>4. k.owner = l.owner
    BY <1>4, <1>6, <2>2, <2>3 DEF NamesFit
  <2>. QED
    BY <1>4, <1>6, <2>4 DEF Twins
<1>7. CASE k.variant \notin ByOwner
  <2>. DEFINE a == k.name
              b == l.name
  <2>1. Payload(k) = a /\ Payload(l) = b
    BY <1>4, <1>7 DEF Payload
  <2>2. a \in Seq(Nat) /\ b \in Seq(Nat)
    BY DEF NamesFit
  <2>3. /\ Len(a) <= PAYLOAD_WIDTH /\ Len(b) <= PAYLOAD_WIDTH
        /\ \A i \in 1 .. Len(a) : a[i] # 0
        /\ \A i \in 1 .. Len(b) : b[i] # 0
    BY <1>4, <1>7 DEF NamesFit, Writable
  <2>4. \A i \in 1 .. PAYLOAD_WIDTH :
          (IF i <= Len(a) THEN a[i] ELSE 0) = (IF i <= Len(b) THEN b[i] ELSE 0)
    BY <1>5, <2>1, Zenon DEF Padded
  <2>. HIDE DEF a, b
  <2>5. Len(a) \in Nat /\ Len(b) \in Nat
    BY <2>2
  <2>6. Len(a) = Len(b)
    <3>1. CASE Len(a) < Len(b)
      BY <1>2, <2>3, <2>4, <2>5, <3>1
    <3>2. CASE Len(b) < Len(a)
      BY <1>2, <2>3, <2>4, <2>5, <3>2
    <3>. QED
      BY <2>5, <3>1, <3>2
  <2>7. \A i \in 1 .. Len(a) : a[i] = b[i]
    BY <1>2, <2>3, <2>4, <2>5, <2>6
  <2>8. a = b
    BY <2>2, <2>6, <2>7, SeqEqual
  <2>. QED
    BY <1>4, <1>7, <2>8 DEF Twins, a, b
<1>. QED
  BY <1>6, <1>7

\* Twins share their entry.
LEMMA TwinsShare ==
  ASSUME NEW k, NEW l \in Twins(k)
  PROVE  Encode(l) = Encode(k)
<1>1. l.variant = k.variant /\ Payload(l) = Payload(k)
  BY DEF Twins, Payload
<1>. QED
  BY <1>1 DEF Encode

\* What one write leaves.
LEMMA WriteFollows ==
  ASSUME EntriesFollow, NEW key \in Keys, NEW value \in Values, Write(key, value)
  PROVE  EntriesFollow'
<1>. DEFINE entry == [raw |-> Encode(key), value |-> value]
<1>1. persistent' = {p \in persistent : p.raw # Encode(key)} \cup {entry}
  BY DEF Write
<1>2. entry.raw = Encode(key) /\ entry.value = value
  OBVIOUS
<1>3. DOMAIN written' = Keys /\ written'[key] = value
        /\ \A k \in Keys : k # key => written'[k] = written[k]
  BY DEF Write, EntriesFollow
<1>4. Writable(key)
  BY DEF Write, Decodes, Writable
<1>. HIDE DEF entry
<1>5. \A p \in persistent' :
        /\ p.value \in Values
        /\ \E k \in Keys : Writable(k) /\ p.raw = Encode(k) /\ written'[k] = p.value
  <2>. SUFFICES ASSUME NEW p \in persistent'
                PROVE  /\ p.value \in Values
                       /\ \E k \in Keys :
                            Writable(k) /\ p.raw = Encode(k) /\ written'[k] = p.value
    OBVIOUS
  <2>1. CASE p = entry
    BY <1>2, <1>3, <1>4, <2>1, Zenon
  <2>2. CASE p # entry
    <3>1. p \in persistent /\ p.raw # Encode(key)
      BY <1>1, <2>2
    <3>2. PICK k \in Keys : Writable(k) /\ p.raw = Encode(k) /\ written[k] = p.value
      BY <3>1 DEF EntriesFollow
    <3>3. k # key
      BY <3>1, <3>2
    <3>. QED
      BY <1>3, <3>1, <3>2, <3>3, Zenon DEF EntriesFollow
  <2>. QED
    BY <2>1, <2>2
<1>6. \A p, q \in persistent' : p.raw = q.raw => p = q
  <2>. SUFFICES ASSUME NEW p \in persistent', NEW q \in persistent', p.raw = q.raw
                PROVE  p = q
    OBVIOUS
  <2>1. p = entry \/ (p \in persistent /\ p.raw # Encode(key))
    BY <1>1
  <2>2. q = entry \/ (q \in persistent /\ q.raw # Encode(key))
    BY <1>1
  <2>. QED
    BY <1>2, <2>1, <2>2, Zenon DEF EntriesFollow
<1>7. \A k \in Keys : written'[k] # Absent => \E p \in persistent' : p.raw = Encode(k)
  <2>. SUFFICES ASSUME NEW k \in Keys, written'[k] # Absent
                PROVE  \E p \in persistent' : p.raw = Encode(k)
    OBVIOUS
  <2>1. CASE Encode(k) = Encode(key)
    <3>1. entry \in persistent'
      BY <1>1
    <3>. QED
      BY <1>2, <2>1, <3>1
  <2>2. CASE Encode(k) # Encode(key)
    <3>1. written[k] # Absent
      BY <1>3, <2>2
    <3>2. PICK p \in persistent : p.raw = Encode(k)
      BY <3>1 DEF EntriesFollow
    <3>. QED
      BY <1>1, <2>2, <3>2
  <2>. QED
    BY <2>1, <2>2
<1>. QED
  BY <1>3, <1>5, <1>6, <1>7 DEF EntriesFollow, Writable, Encode, Tag, Payload

LEMMA EntriesInductive == EntriesFollow /\ [Next]_vars => EntriesFollow'
<1>. SUFFICES ASSUME EntriesFollow, [Next]_vars
              PROVE  EntriesFollow'
  OBVIOUS
<1>1. CASE PersistentStep
  BY <1>1, WriteFollows DEF PersistentStep
<1>2. CASE UNCHANGED persistentVars
  BY <1>2 DEF EntriesFollow, persistentVars, Writable, Encode, Tag, Payload
<1>3. InstanceStep \/ UNCHANGED vars => UNCHANGED persistentVars
  BY DEF InstanceStep, SetKey, SetOutcomeToken, MintOnTrade, vars
<1>. QED
  BY <1>1, <1>2, <1>3 DEF Next

\* Then every key reads what was last written to it or to a twin.
LEMMA EntriesReadBack == ASSUME NamesFit, EntriesFollow PROVE ReadsBack
<1>. SUFFICES ASSUME NEW key \in Keys
              PROVE  LET values == {written[k] : k \in Twins(key)} \ {Absent}
                     IN  /\ Read(key) \subseteq values
                         /\ values # {} => Cardinality(Read(key)) = 1
  BY DEF ReadsBack
<1>. DEFINE values == {written[k] : k \in Twins(key)} \ {Absent}
<1>1. Read(key) \subseteq values
  <2>. SUFFICES ASSUME NEW p \in persistent, p.raw = Encode(key)
                PROVE  p.value \in values
    BY DEF Read
  <2>1. PICK k \in Keys : Writable(k) /\ p.raw = Encode(k) /\ written[k] = p.value
    BY DEF EntriesFollow
  <2>2. k \in Twins(key)
    BY <2>1, SharedByTwins
  <2>3. p.value # Absent
    BY ConstantsAssumption DEF ConstantsAssumption, EntriesFollow
  <2>. QED
    BY <2>1, <2>2, <2>3
<1>2. ASSUME values # {} PROVE Cardinality(Read(key)) = 1
  <2>1. PICK k \in Twins(key) : written[k] # Absent
    BY <1>2
  <2>2. PICK p \in persistent : p.raw = Encode(k)
    BY <2>1 DEF EntriesFollow, Twins
  <2>3. p.raw = Encode(key)
    BY <2>2, TwinsShare
  <2>4. Read(key) = {p.value}
    BY <2>3 DEF Read, EntriesFollow
  <2>. QED
    BY <2>4, FS_Singleton
<1>. QED
  BY <1>1, <1>2

\* A typed key reads what was last written to it or to another position of the same
\* owner, for any names that fit: the entries never mix two kinds of key, two markets or
\* two owners.
THEOREM KeysReadBack ==
  ASSUME NamesFit PROVE Spec => []ReadsBack
<1>1. Init => EntriesFollow
  BY DEF Init, EntriesFollow
<1>2. EntriesFollow => ReadsBack
  BY EntriesReadBack
<1>. QED
  BY <1>1, <1>2, EntriesInductive, PTL DEF Spec

-------------------------------------------------------------------------------
\* The integers of one position.

AmountTypes ==
  /\ deposited \in Nat /\ collateral \in Nat
  /\ yes \in Nat /\ no \in Nat
  /\ price \in 0 .. BASIS_POINTS
  /\ locked \in Nat

\* The lock is that of the shares at the latest price, and is covered.
AmountInvariant ==
  /\ AmountTypes
  /\ locked = Saturated(Exposure) \div BASIS_POINTS
  /\ locked + Elsewhere <= collateral
  /\ deposited + Elsewhere = collateral
  /\ collateral <= I128_MAX

-------------------------------------------------------------------------------

\* A product of naturals is a natural.
LEMMA ProductIsNat ==
  ASSUME NEW a \in Nat, NEW b \in Nat
  PROVE  a * b \in Nat
  OBVIOUS

\* A quotient of naturals is a natural, and grows with the dividend.
LEMMA QuotientIsNat ==
  ASSUME NEW a \in Nat, NEW b \in Nat, b > 0
  PROVE  a \div b \in Nat
  OBVIOUS

LEMMA QuotientIsMonotone ==
  ASSUME NEW a \in Nat, NEW c \in Nat, a <= c, NEW b \in Nat, b > 0
  PROVE  a \div b <= c \div b
  OBVIOUS

\* Beside the same sum a smaller lock is covered, too.
LEMMA SmallerIsCovered ==
  ASSUME NEW a \in Nat, NEW b \in Nat, a <= b,
         NEW c \in Nat, NEW d \in Nat, b + c <= d
  PROVE  a + c <= d
  OBVIOUS

\* What a position can lose is a natural number.
LEMMA ExposureIsNat ==
  ASSUME NEW y \in Nat, NEW x \in Nat, NEW p \in 0 .. BASIS_POINTS, BASIS_POINTS \in Nat
  PROVE  /\ y > x => (y - x) * p \in Nat
         /\ ~(y > x) => (x - y) * (BASIS_POINTS - p) \in Nat
<1>1. CASE y > x
  <2>1. y - x \in Nat /\ p \in Nat
    BY <1>1
  <2>. QED
    BY <1>1, <2>1, ProductIsNat
<1>2. CASE ~(y > x)
  <2>1. x - y \in Nat /\ BASIS_POINTS - p \in Nat
    BY <1>2
  <2>. QED
    BY <1>2, <2>1, ProductIsNat
<1>. QED
  BY <1>1, <1>2

\* A lock, however large the position, is a natural number of which the largest is
\* I128_MAX \div BASIS_POINTS.
LEMMA LockIsBounded ==
  ASSUME NEW e \in Nat
  PROVE  /\ Saturated(e) \div BASIS_POINTS \in Nat
         /\ Saturated(e) \div BASIS_POINTS <= I128_MAX \div BASIS_POINTS
<1>1. Saturated(e) \in Nat /\ Saturated(e) <= I128_MAX
  BY AmountAssumption DEF Saturated
<1>. HIDE DEF Saturated
<1>. QED
  BY <1>1, QuotientIsNat, QuotientIsMonotone, AmountAssumption

LEMMA AmountInitEstablishes ==
  ASSUME AmountInit
  PROVE  AmountInvariant
<1>1. AmountTypes
  BY AmountAssumption DEF AmountInit, AmountTypes
<1>2. Exposure = 0
  <2>1. BASIS_POINTS - price \in Int
    BY AmountAssumption DEF AmountInit
  <2>. QED
    BY <2>1 DEF AmountInit, Exposure
<1>3. Saturated(Exposure) \div BASIS_POINTS = 0
  BY <1>2, AmountAssumption DEF Saturated
<1>4. Elsewhere <= I128_MAX
  <2>1. I128_MAX \div BASIS_POINTS \in Nat
    BY QuotientIsNat, AmountAssumption
  <2>. QED
    BY <2>1, AmountAssumption
<1>. QED
  BY <1>1, <1>3, <1>4, AmountAssumption DEF AmountInit, AmountInvariant

\* deposit_collateral adds to both balances, within the width.
LEMMA DepositPreserves ==
  ASSUME AmountInvariant, NEW amount \in AmountInputs, Deposit(amount)
  PROVE  AmountInvariant'
<1>1. amount \in Nat
  BY AmountAssumption DEF Deposit, ValidCollateralAmount
<1>2. Exposure' = Exposure
  BY DEF Deposit, Exposure
<1>3. (Saturated(Exposure) \div BASIS_POINTS)' = Saturated(Exposure) \div BASIS_POINTS
  BY <1>2 DEF Saturated
<1>. HIDE DEF Saturated, Exposure
<1>. QED
  BY <1>1, <1>3, AmountAssumption DEF AmountInvariant, AmountTypes, Deposit

\* withdraw_unused_collateral takes no more than is unlocked, from both balances.
LEMMA WithdrawPreserves ==
  ASSUME AmountInvariant,
         NEW amount \in AmountInputs, NEW rate \in RateInputs, Withdraw(amount, rate)
  PROVE  AmountInvariant'
<1>1. amount \in Nat /\ rate \in Nat
  BY AmountAssumption DEF Withdraw, ValidCollateralAmount
<1>2. Fee(amount, rate) \in Nat
  BY <1>1, ProductIsNat, QuotientIsNat, AmountAssumption DEF Fee
<1>3. Exposure' = Exposure
  BY DEF Withdraw, Exposure
<1>4. (Saturated(Exposure) \div BASIS_POINTS)' = Saturated(Exposure) \div BASIS_POINTS
  BY <1>3 DEF Saturated
<1>. HIDE DEF Saturated, Exposure, Fee
<1>5. Elsewhere \in Nat /\ I128_MAX \in Nat
  BY AmountAssumption
<1>6. /\ deposited' \in Nat /\ collateral' \in Nat
      /\ locked + Elsewhere <= collateral'
      /\ deposited' + Elsewhere = collateral'
      /\ collateral' <= I128_MAX
  BY <1>1, <1>2, <1>5 DEF AmountInvariant, AmountTypes, Withdraw
<1>. QED
  BY <1>4, <1>6 DEF AmountInvariant, AmountTypes, Withdraw

\* update_position replaces the lock by that of the new shares, and asks for cover
\* only if it grows.
LEMMA TradePreserves ==
  ASSUME AmountInvariant,
         NEW yes_delta \in DeltaInputs, NEW no_delta \in DeltaInputs,
         NEW p \in PriceInputs, Trade(yes_delta, no_delta, p)
  PROVE  AmountInvariant'
<1>1. yes' \in Nat /\ no' \in Nat /\ price' \in 0 .. BASIS_POINTS
  BY AmountAssumption DEF AmountInvariant, AmountTypes, Trade
<1>2. locked' = (Saturated(Exposure) \div BASIS_POINTS)'
  BY DEF Trade, LockedCollateral, ScaleByBps, Exposure
<1>3. Exposure' \in Nat
  BY <1>1, ExposureIsNat, AmountAssumption DEF Exposure
<1>4. locked' \in Nat /\ locked' <= I128_MAX \div BASIS_POINTS
  BY <1>2, <1>3, LockIsBounded DEF Saturated
<1>5. I128_MAX \div BASIS_POINTS \in Nat
  BY QuotientIsNat, AmountAssumption
<1>6. locked' + Elsewhere <= collateral
  <2>1. CASE locked' > locked
    BY <2>1, <1>4, <1>5, AmountAssumption DEF Trade, CoversLock, Saturated
  <2>2. CASE ~(locked' > locked)
    <3>1. locked \in Nat /\ collateral \in Nat /\ Elsewhere \in Nat
      BY AmountAssumption DEF AmountInvariant, AmountTypes
    <3>2. locked + Elsewhere <= collateral
      BY DEF AmountInvariant
    <3>3. locked' \in Nat
      BY <1>4
    <3>4. locked' <= locked
      BY <2>2, <3>1, <3>3
    <3>. QED
      BY <3>1, <3>2, <3>3, <3>4, SmallerIsCovered
  <2>. QED
    BY <2>1, <2>2
<1>7. deposited' = deposited /\ collateral' = collateral
  BY DEF Trade
<1>. HIDE DEF Saturated, Exposure
<1>. QED
  BY <1>1, <1>2, <1>4, <1>6, <1>7 DEF AmountInvariant, AmountTypes

\* The invariant says what the property says.
LEMMA AmountInvariantImplies ==
  ASSUME AmountInvariant
  PROVE  LocksWithinWidth
<1>1. Exposure \in Nat
  BY ExposureIsNat, AmountAssumption DEF AmountInvariant, AmountTypes, Exposure
<1>2. Exposure <= I128_MAX => locked = Exposure \div BASIS_POINTS
  BY <1>1, AmountAssumption DEF AmountInvariant, Saturated
<1>3. Exposure > I128_MAX => locked = I128_MAX \div BASIS_POINTS
  BY <1>1, AmountAssumption DEF AmountInvariant, Saturated
<1>4. locked <= deposited
  BY AmountAssumption DEF AmountInvariant, AmountTypes
<1>. HIDE DEF Exposure
<1>. QED
  BY <1>2, <1>3, <1>4 DEF AmountInvariant, LocksWithinWidth

\* Whatever the width of the integers is, an operation that would leave it costs
\* nobody anything: the lock of a position is exact or at its largest, and covered
\* (positions.rs, deposit.rs, withdraw.rs).
THEOREM LocksAlwaysCovered ==
  AmountSpec => []LocksWithinWidth
<1>1. AmountInit => AmountInvariant
  BY AmountInitEstablishes
<1>2. AmountInvariant /\ [AmountStep]_amountVars => AmountInvariant'
  <2>. SUFFICES ASSUME AmountInvariant, [AmountStep]_amountVars
                PROVE  AmountInvariant'
    OBVIOUS
  <2>1. CASE UNCHANGED amountVars
    BY <2>1 DEF AmountInvariant, AmountTypes, Exposure, Saturated, amountVars
  <2>2. ASSUME NEW amount \in AmountInputs, Deposit(amount)
        PROVE  AmountInvariant'
    BY <2>2, DepositPreserves
  <2>3. ASSUME NEW amount \in AmountInputs, NEW rate \in RateInputs, Withdraw(amount, rate)
        PROVE  AmountInvariant'
    BY <2>3, WithdrawPreserves
  <2>4. ASSUME NEW yes_delta \in DeltaInputs, NEW no_delta \in DeltaInputs,
               NEW p \in PriceInputs, Trade(yes_delta, no_delta, p)
        PROVE  AmountInvariant'
    BY <2>4, TradePreserves
  <2>. QED
    BY <2>1, <2>2, <2>3, <2>4 DEF AmountStep
<1>3. AmountInvariant => LocksWithinWidth
  BY AmountInvariantImplies
<1>. QED
  BY <1>1, <1>2, <1>3, PTL DEF AmountSpec

-------------------------------------------------------------------------------
\* The metadata of an outcome token.

TokenInvariant ==
  /\ admin \in Accounts \cup {Unset}
  /\ MetadataWithinCaps

\* Whoever initializes the token, and however often, and whatever its admin sets: a
\* reader finds texts that keep the caps, and finds them once there is an admin
\* (outcome-token/src/lib.rs, initialize and set_metadata).
THEOREM MetadataAlwaysWithinCaps == TokenSpec => []MetadataWithinCaps
<1>1. TokenInit => TokenInvariant
  BY DEF TokenInit, TokenInvariant, MetadataWithinCaps, Answers
<1>2. TokenInvariant /\ [TokenStep]_tokenVars => TokenInvariant'
  <2> SUFFICES ASSUME TokenInvariant, [TokenStep]_tokenVars PROVE TokenInvariant'
    OBVIOUS
  <2>1. ASSUME NEW symbol \in LengthInputs, NEW name \in LengthInputs,
               ValidateMetadata(symbol, name),
               metadata' = [symbol |-> symbol, name |-> name],
               admin' \in Accounts
        PROVE  TokenInvariant'
    <3>1. symbol \in Nat /\ name \in Nat /\ MAX_SYMBOL_LEN \in Nat /\ MAX_NAME_LEN \in Nat
      BY TokenAssumption
    <3>2. /\ symbol # 0 /\ symbol <= MAX_SYMBOL_LEN
          /\ name # 0 /\ name <= MAX_NAME_LEN
      BY <2>1, <3>1 DEF ValidateMetadata
    <3>3. metadata' \in OutcomeMetadata
      BY <2>1, <3>1 DEF OutcomeMetadata
    <3>4. metadata' # Unset /\ admin' # Unset
      BY <2>1, <3>3, TokenAssumption
    <3>5. metadata'.symbol = symbol /\ metadata'.name = name
      BY <2>1
    <3> QED
      BY <2>1, <3>2, <3>3, <3>4, <3>5 DEF TokenInvariant, MetadataWithinCaps, Answers
  <2>2. ASSUME NEW caller \in Accounts, NEW symbol \in LengthInputs,
               NEW name \in LengthInputs, Initialize(caller, symbol, name)
        PROVE  TokenInvariant'
    BY <2>1, <2>2 DEF Initialize
  <2>3. ASSUME NEW caller \in Accounts, NEW symbol \in LengthInputs,
               NEW name \in LengthInputs, SetMetadata(caller, symbol, name)
        PROVE  TokenInvariant'
    <3>1. admin' \in Accounts
      BY <2>3 DEF SetMetadata, RequireAdmin
    <3> QED
      BY <2>1, <2>3, <3>1 DEF SetMetadata
  <2>4. CASE UNCHANGED tokenVars
    BY <2>4 DEF tokenVars, TokenInvariant, MetadataWithinCaps, Answers
  <2> QED
    BY <2>2, <2>3, <2>4 DEF TokenStep
<1>3. TokenInvariant => MetadataWithinCaps
  BY DEF TokenInvariant
<1> QED
  BY <1>1, <1>2, <1>3, PTL DEF TokenSpec

-------------------------------------------------------------------------------
\* The reading of a market id.

\* f is what the loop has after each of the first k characters of t.
Runs(f, t, k) ==
  /\ f \in [0 .. k -> Nat]
  /\ f[0] = 0
  /\ \A i \in 1 .. k : f[i] = f[i - 1] * Base + t[i]

\* What the loop has read: k characters, all of them digits, that denote m.
HasRead(t, k, m) ==
  /\ \A i \in 1 .. k : t[i] \in Digits
  /\ \E f : Runs(f, t, k) /\ f[k] = m

Characters == Digits \cup {NoDigit}

\* Why a text is refused.
Refusable(t) ==
  \/ ~IsDecimal(t)
  \/ Value(t) > U32_MAX
  \/ t[1] = 0 /\ Len(t) > MaxLength

IdsInvariant ==
  /\ text \in Seq(Characters)
  /\ verdict \in {"idle", "reading", "parsed", "refused"}
  /\ verdict = "reading" =>
       /\ text # <<>>
       /\ read \in 0 .. Len(text)
       /\ HasRead(text, read, n)
  /\ verdict = "parsed" => text # <<>> /\ HasRead(text, Len(text), n)
  /\ verdict = "refused" => Refusable(text)

LEMMA DigitsAreNats ==
  /\ Base \in Nat /\ U32_MAX \in Nat /\ MaxLength \in Nat
  /\ Digits \subseteq Nat
  BY IdsAssumption DEF Digits

\* One more digit.
LEMMA OneMoreDigit ==
  ASSUME NEW m \in Nat, NEW c \in Digits
  PROVE  m * Base + c \in Nat /\ m * Base + c >= m
<1>1. c \in Nat /\ Base \in Nat /\ Base >= 1
  BY IdsAssumption DEF Digits
<1>2. m * Base \in Nat
  BY <1>1, ProductIsNat
<1>3. m * Base >= m
  BY <1>1
<1> QED
  BY <1>1, <1>2, <1>3

\* Two runs agree as far as both go.
LEMMA RunsAgree ==
  ASSUME NEW f, NEW g, NEW t, NEW k \in Nat, NEW l \in Nat, l <= k,
         Runs(f, t, k), Runs(g, t, l)
  PROVE  \A i \in 0 .. l : f[i] = g[i]
<1> DEFINE Q == {i \in 0 .. l : f[i] = g[i]}
<1>1. 0 \in Q
  BY DEF Runs
<1>2. ASSUME NEW i \in 0 .. l, i < l, i \in Q PROVE i + 1 \in Q
  <2>1. i + 1 \in 1 .. k /\ i + 1 \in 1 .. l /\ (i + 1) - 1 = i /\ i + 1 \in 0 .. l
    BY <1>2
  <2>2. f[i + 1] = f[i] * Base + t[i + 1] /\ g[i + 1] = g[i] * Base + t[i + 1]
    BY <2>1 DEF Runs
  <2>3. f[i] = g[i]
    BY <1>2
  <2> QED
    BY <2>1, <2>2, <2>3
<1> HIDE DEF Q
<1>3. \A i \in 0 .. l : i \in Q
  BY <1>1, <1>2, CountingUp
<1> QED
  BY <1>3 DEF Q

\* The value of a decimal text is what a run over all of it ends with.
LEMMA ValueIsRun ==
  ASSUME NEW t \in Seq(Characters), IsDecimal(t)
  PROVE  \E f : Runs(f, t, Len(t)) /\ Value(t) = f[Len(t)]
<1> DEFINE k == Len(t)
           Step(i, m) == m * Base + t[i]
           next == [p \in (1 .. k) \X Nat |-> Step(p[1], p[2])]
           Is(f) == f = [i \in 0 .. k |-> IF i = 0 THEN 0 ELSE f[i - 1] * Base + t[i]]
           h == CHOOSE f : Is(f)
<1>1. k \in Nat /\ \A i \in 1 .. k : t[i] \in Digits
  BY DEF IsDecimal
<1>2. \A i \in 1 .. k, m \in Nat : Step(i, m) \in Nat
  BY <1>1, OneMoreDigit
<1>3. Steps(next, k, Nat)
  <2> HIDE DEF Step, k
  <2> QED
    BY <1>2 DEF Steps
<1>4. PICK f : Unrolls(f, k, Nat, 0, next)
  <2> HIDE DEF next, k
  <2> QED
    BY <1>1, <1>3, RecursionUpTo
<1>5. Runs(f, t, k)
  <2>1. /\ f \in [0 .. k -> Nat] /\ f[0] = 0
        /\ \A i \in 1 .. k : f[i] = next[<<i, f[i - 1]>>]
    <3> HIDE DEF next, k
    <3> QED
      BY <1>4 DEF Unrolls
  <2>2. ASSUME NEW i \in 1 .. k PROVE f[i] = f[i - 1] * Base + t[i]
    <3>1. i - 1 \in 0 .. k
      BY <1>1
    <3>2. f[i - 1] \in Nat
      BY <2>1, <3>1
    <3>3. next[<<i, f[i - 1]>>] = Step(i, f[i - 1])
      <4> HIDE DEF Step, k
      <4> QED
        BY <3>2
    <3>4. f[i] = next[<<i, f[i - 1]>>]
      <4> HIDE DEF next
      <4> QED
        BY <2>1
    <3> QED
      BY <3>3, <3>4
  <2> HIDE DEF k
  <2> QED
    BY <2>1, <2>2 DEF Runs
<1>6. Is(f)
  <2> HIDE DEF k
  <2>1. \A i \in 0 .. k : i = 0 \/ i \in 1 .. k
    BY <1>1
  <2>2. f = [i \in 0 .. k |-> f[i]]
    BY <1>5 DEF Runs
  <2>3. \A i \in 0 .. k : f[i] = IF i = 0 THEN 0 ELSE f[i - 1] * Base + t[i]
    BY <1>5, <2>1 DEF Runs
  <2> QED
    BY <2>2, <2>3, Zenon
<1>7. Is(h)
  <2> HIDE DEF Is
  <2> QED
    BY <1>6
<1>8. Runs(h, t, k)
  <2> DEFINE Q == {i \in 0 .. k : h[i] \in Nat /\ h[i] = f[i]}
  <2> HIDE DEF h, k
  <2>1. 0 \in Q
    BY <1>1, <1>7, <1>5 DEF Runs
  <2>2. ASSUME NEW i \in 0 .. k, i < k, i \in Q PROVE i + 1 \in Q
    <3>1. i + 1 \in 1 .. k /\ i + 1 \in 0 .. k /\ (i + 1) - 1 = i /\ i + 1 # 0
      BY <1>1, <2>2
    <3>2. h[i + 1] = h[i] * Base + t[i + 1]
      BY <1>7, <3>1
    <3>3. f[i + 1] = f[i] * Base + t[i + 1] /\ f[i + 1] \in Nat
      BY <1>5, <3>1 DEF Runs
    <3>4. h[i] = f[i]
      BY <2>2
    <3> QED
      BY <3>1, <3>2, <3>3, <3>4
  <2> HIDE DEF Q
  <2>3. \A i \in 0 .. k : i \in Q
    BY <1>1, <2>1, <2>2, CountingUp
  <2>4. \A i \in 0 .. k : h[i] = f[i]
    BY <2>3 DEF Q
  <2>5. DOMAIN h = 0 .. k /\ h = [i \in DOMAIN h |-> h[i]]
    BY <1>7
  <2>6. h = f
    <3> HIDE DEF Is
    <3>1. f = [i \in 0 .. k |-> f[i]]
      BY <1>5 DEF Runs
    <3>2. h = [i \in 0 .. k |-> h[i]]
      BY <2>5
    <3> QED
      BY <2>4, <3>1, <3>2
  <2> QED
    BY <1>5, <2>6
<1>9. Value(t) = h[k]
  BY DEF Value
<1> HIDE DEF h, k
<1>10. \E g : Runs(g, t, k) /\ Value(t) = g[k]
  BY <1>8, <1>9
<1> QED
  BY <1>10 DEF k

\* A number never gets smaller as its digits are read ...
LEMMA RunsGrow ==
  ASSUME NEW f, NEW t, NEW k \in Nat, Runs(f, t, k), \A i \in 1 .. k : t[i] \in Digits,
         NEW l \in 0 .. k
  PROVE  f[l] \in Nat /\ f[l] <= f[k]
<1> DEFINE Q == {i \in 0 .. k : i >= l => f[l] <= f[i]}
<1>1. \A i \in 0 .. k : f[i] \in Nat
  BY DEF Runs
<1>2. 0 \in Q
  BY <1>1
<1>3. ASSUME NEW i \in 0 .. k, i < k, i \in Q PROVE i + 1 \in Q
  <2>1. i + 1 \in 1 .. k /\ i + 1 \in 0 .. k /\ (i + 1) - 1 = i /\ i \in Nat
    BY <1>3
  <2>2. f[i + 1] = f[i] * Base + t[i + 1]
    BY <2>1 DEF Runs
  <2>3. t[i + 1] \in Digits /\ f[i] \in Nat /\ f[i + 1] \in Nat /\ f[l] \in Nat
    BY <1>1, <2>1
  <2>4. f[i + 1] >= f[i]
    BY <2>2, <2>3, OneMoreDigit
  <2>5. CASE i >= l
    <3>1. f[l] <= f[i]
      BY <1>3, <2>5
    <3> QED
      BY <2>1, <2>3, <2>4, <3>1
  <2>6. CASE ~(i >= l)
    <3>1. i + 1 >= l => i + 1 = l
      BY <2>1, <2>6
    <3> QED
      BY <2>1, <2>3, <3>1
  <2> QED
    BY <2>5, <2>6
<1> HIDE DEF Q
<1>4. \A i \in 0 .. k : i \in Q
  BY <1>2, <1>3, CountingUp
<1>5. k \in 0 .. k /\ k >= l
  OBVIOUS
<1> QED
  BY <1>1, <1>4, <1>5 DEF Q

\* The powers of the base have their equations.
LEMMA PowersUnroll ==
  /\ Powers[0] = 1
  /\ \A i \in 1 .. MaxLength : Powers[i] = Powers[i - 1] * Base
  /\ Powers \in [0 .. MaxLength -> Nat]
<1> DEFINE next == [p \in (1 .. MaxLength) \X Nat |-> p[2] * Base]
           Is(f) == f = [k \in 0 .. MaxLength |-> IF k = 0 THEN 1 ELSE f[k - 1] * Base]
<1>1. Base \in Nat /\ MaxLength \in Nat
  BY IdsAssumption
<1>2. Steps(next, MaxLength, Nat)
  <2>1. \A p \in (1 .. MaxLength) \X Nat : p[2] * Base \in Nat
    BY <1>1, ProductIsNat
  <2> QED
    BY <2>1 DEF Steps
<1>3. PICK f : Unrolls(f, MaxLength, Nat, 1, next)
  <2> HIDE DEF next
  <2> QED
    BY <1>1, <1>2, RecursionUpTo
<1>4. /\ f \in [0 .. MaxLength -> Nat] /\ f[0] = 1
      /\ \A i \in 1 .. MaxLength : f[i] = f[i - 1] * Base
  <2>1. /\ f \in [0 .. MaxLength -> Nat] /\ f[0] = 1
        /\ \A i \in 1 .. MaxLength : f[i] = next[<<i, f[i - 1]>>]
    <3> HIDE DEF next
    <3> QED
      BY <1>3 DEF Unrolls
  <2>2. ASSUME NEW i \in 1 .. MaxLength PROVE f[i] = f[i - 1] * Base
    <3>1. i - 1 \in 0 .. MaxLength
      BY <1>1
    <3>2. f[i - 1] \in Nat
      BY <2>1, <3>1
    <3>3. next[<<i, f[i - 1]>>] = f[i - 1] * Base
      BY <3>2
    <3>4. f[i] = next[<<i, f[i - 1]>>]
      <4> HIDE DEF next
      <4> QED
        BY <2>1
    <3> QED
      BY <3>3, <3>4
  <2> QED
    BY <2>1, <2>2
<1>5. Is(f)
  <2>1. \A i \in 0 .. MaxLength : i = 0 \/ i \in 1 .. MaxLength
    BY <1>1
  <2>2. f = [i \in 0 .. MaxLength |-> f[i]]
    BY <1>4
  <2>3. \A i \in 0 .. MaxLength : f[i] = IF i = 0 THEN 1 ELSE f[i - 1] * Base
    BY <1>4, <2>1
  <2> QED
    BY <2>2, <2>3, Zenon
<1>6. Is(Powers)
  <2>1. Powers = CHOOSE g : Is(g)
    BY DEF Powers
  <2> HIDE DEF Is
  <2> QED
    BY <1>5, <2>1
<1> DEFINE Q == {i \in 0 .. MaxLength : Powers[i] = f[i]}
<1>7. \A i \in 0 .. MaxLength : Powers[i] = IF i = 0 THEN 1 ELSE Powers[i - 1] * Base
  BY <1>6
<1>8. 0 \in Q
  BY <1>1, <1>4, <1>7
<1>9. ASSUME NEW i \in 0 .. MaxLength, i < MaxLength, i \in Q PROVE i + 1 \in Q
  <2>1. i + 1 \in 1 .. MaxLength /\ i + 1 \in 0 .. MaxLength /\ (i + 1) - 1 = i /\ i + 1 # 0
    BY <1>1, <1>9
  <2>2. Powers[i + 1] = Powers[i] * Base
    BY <1>7, <2>1
  <2>3. f[i + 1] = f[i] * Base
    BY <1>4, <2>1
  <2>4. Powers[i] = f[i]
    BY <1>9
  <2> QED
    BY <2>1, <2>2, <2>3, <2>4
<1> HIDE DEF Q
<1>10. \A i \in 0 .. MaxLength : i \in Q
  BY <1>1, <1>8, <1>9, CountingUp
<1>11. \A i \in 0 .. MaxLength : Powers[i] = f[i]
  BY <1>10 DEF Q
<1>12. Powers = f
  <2>1. Powers = [i \in 0 .. MaxLength |-> Powers[i]]
    BY <1>6
  <2>2. f = [i \in 0 .. MaxLength |-> f[i]]
    BY <1>4
  <2> QED
    BY <1>11, <2>1, <2>2
<1> QED
  BY <1>4, <1>12

\* ... and with every digit after the first it outgrows the next power of the base.
LEMMA LongNumbersAreLarge ==
  ASSUME NEW f, NEW t, NEW k \in Nat, Runs(f, t, k), \A i \in 1 .. k : t[i] \in Digits,
         k > MaxLength, t[1] # 0
  PROVE  f[k] > U32_MAX
<1> DEFINE Q == {i \in 0 .. MaxLength : f[i + 1] >= Powers[i]}
<1>1. /\ Base \in Nat /\ MaxLength \in Nat /\ U32_MAX \in Nat
      /\ \A i \in 0 .. k : f[i] \in Nat
      /\ \A i \in 0 .. MaxLength : Powers[i] \in Nat
  BY IdsAssumption, PowersUnroll DEF Runs
<1>2. 0 \in Q
  <2>1. 1 \in 1 .. k /\ 1 - 1 = 0 /\ 0 + 1 = 1 /\ 1 \in 0 .. k
    BY <1>1
  <2>2. f[1] = f[0] * Base + t[1] /\ f[0] = 0 /\ t[1] \in Digits
    BY <2>1 DEF Runs
  <2>3. t[1] \in Nat /\ t[1] >= 1
    BY <2>2 DEF Digits
  <2>4. f[1] = t[1]
    BY <1>1, <2>2, <2>3
  <2> QED
    BY <1>1, <2>1, <2>3, <2>4, PowersUnroll
<1>3. ASSUME NEW i \in 0 .. MaxLength, i < MaxLength, i \in Q PROVE i + 1 \in Q
  <2>1. /\ i + 1 \in 1 .. MaxLength /\ (i + 1) - 1 = i /\ i + 1 \in 0 .. MaxLength
        /\ (i + 1) + 1 \in 1 .. k /\ ((i + 1) + 1) - 1 = i + 1
        /\ i + 1 \in 0 .. k /\ (i + 1) + 1 \in 0 .. k
    BY <1>1, <1>3
  <2>2. f[(i + 1) + 1] = f[i + 1] * Base + t[(i + 1) + 1]
    BY <2>1 DEF Runs
  <2>3. Powers[i + 1] = Powers[i] * Base
    BY <2>1, PowersUnroll
  <2>4. f[i + 1] >= Powers[i]
    BY <1>3
  <2>5. t[(i + 1) + 1] \in Digits
    BY <2>1
  <2>6. f[i + 1] \in Nat /\ Powers[i] \in Nat /\ t[(i + 1) + 1] \in Nat
    BY <1>1, <2>1, <2>5 DEF Digits
  <2>7. f[i + 1] * Base >= Powers[i] * Base
    BY <1>1, <2>4, <2>6
  <2>8. f[i + 1] * Base \in Nat /\ Powers[i] * Base \in Nat
    BY <1>1, <2>6, ProductIsNat
  <2> QED
    BY <2>1, <2>2, <2>3, <2>6, <2>7, <2>8
<1> HIDE DEF Q
<1>4. \A i \in 0 .. MaxLength : i \in Q
  BY <1>1, <1>2, <1>3, CountingUp
<1>5. f[MaxLength + 1] >= Powers[MaxLength]
  BY <1>1, <1>4 DEF Q
<1>6. MaxLength + 1 \in 0 .. k
  BY <1>1
<1>7. f[MaxLength + 1] <= f[k]
  BY <1>6, RunsGrow
<1>8. MaxLength \in 0 .. MaxLength /\ k \in 0 .. k
  BY <1>1
<1>9. f[k] \in Nat /\ f[MaxLength + 1] \in Nat /\ Powers[MaxLength] \in Nat
  BY <1>1, <1>6, <1>8
<1> QED
  BY <1>1, <1>5, <1>7, <1>9, IdsAssumption

\* What has been read denotes what the text denotes so far.
LEMMA ReadIsValueSoFar ==
  ASSUME NEW t \in Seq(Characters), IsDecimal(t), NEW k \in 0 .. Len(t), NEW m,
         HasRead(t, k, m)
  PROVE  \E f : Runs(f, t, Len(t)) /\ Value(t) = f[Len(t)] /\ f[k] = m
<1>1. PICK f : Runs(f, t, Len(t)) /\ Value(t) = f[Len(t)]
  BY ValueIsRun
<1>2. PICK g : Runs(g, t, k) /\ g[k] = m
  BY DEF HasRead
<1>3. Len(t) \in Nat /\ k \in Nat /\ k <= Len(t) /\ k \in 0 .. k
  OBVIOUS
<1>4. f[k] = g[k]
  BY <1>1, <1>2, <1>3, RunsAgree
<1> QED
  BY <1>1, <1>2, <1>4

\* A call refuses a text by its length alone, before it looks at a character.
LEMMA CallPreserves ==
  ASSUME IdsInvariant, NEW t \in Texts, Call(t)
  PROVE  IdsInvariant'
<1>1. text' = t /\ t \in Seq(Characters) /\ read' = 0 /\ n' = 0
  BY IdsAssumption DEF Call, Characters
<1>2. Len(t) \in Nat /\ (t = <<>> <=> Len(t) = 0)
  BY <1>1, EmptySeq
<1>3. CASE Len(t) = 0 \/ Len(t) > MaxLength
  <2>1. verdict' = "refused"
    BY <1>3 DEF Call
  <2>2. Refusable(t)
    <3>1. CASE ~IsDecimal(t) \/ t[1] = 0
      BY <1>2, <1>3, <3>1 DEF Refusable, IsDecimal
    <3>2. CASE IsDecimal(t) /\ t[1] # 0
      <4>1. Len(t) > MaxLength
        BY <1>2, <1>3, <3>2 DEF IsDecimal
      <4>2. PICK f : Runs(f, t, Len(t)) /\ Value(t) = f[Len(t)]
        BY <1>1, <3>2, ValueIsRun
      <4>3. \A i \in 1 .. Len(t) : t[i] \in Digits
        BY <1>1, <3>2 DEF IsDecimal
      <4>4. f[Len(t)] > U32_MAX
        BY <1>2, <3>2, <4>1, <4>2, <4>3, LongNumbersAreLarge
      <4> QED
        BY <4>2, <4>4 DEF Refusable
    <3> QED
      BY <3>1, <3>2
  <2>3. Refusable(text)'
    BY <1>1, <2>2 DEF Refusable, IsDecimal, Value
  <2> QED
    BY <1>1, <2>1, <2>3 DEF IdsInvariant
<1>4. CASE ~(Len(t) = 0 \/ Len(t) > MaxLength)
  <2>1. verdict' = "reading"
    BY <1>4 DEF Call
  <2>2. HasRead(t, 0, 0)
    <3>1. Runs([i \in 0 .. 0 |-> 0], t, 0)
      BY DEF Runs
    <3>2. [i \in 0 .. 0 |-> 0][0] = 0
      OBVIOUS
    <3>3. \A i \in 1 .. 0 : t[i] \in Digits
      OBVIOUS
    <3> QED
      BY <3>1, <3>2, <3>3 DEF HasRead
  <2>3. HasRead(text', read', n')
    BY <1>1, <2>2
  <2>4. 0 \in 0 .. Len(t)
    BY <1>2
  <2> QED
    BY <1>1, <1>2, <1>4, <2>1, <2>3, <2>4 DEF IdsInvariant
<1> QED
  BY <1>3, <1>4

\* A turn of the loop reads one more digit, or gives up: over a character that is none,
\* or over a number that only gets larger.
LEMMA ReadCharacterPreserves ==
  ASSUME IdsInvariant, ReadCharacter
  PROVE  IdsInvariant'
<1> DEFINE c == text[read + 1]
<1>1. /\ text \in Seq(Characters) /\ text # <<>> /\ read \in 0 .. Len(text)
      /\ HasRead(text, read, n) /\ read < Len(text) /\ Len(text) \in Nat
  BY DEF IdsInvariant, ReadCharacter
<1>2. read + 1 \in 1 .. Len(text) /\ (read + 1) - 1 = read /\ read \in Nat
  BY <1>1
<1>3. c \in Characters
  BY <1>1, <1>2
<1>4. CASE c = NoDigit \/ TimesTenPlus(n, c) > U32_MAX
  <2>1. verdict' = "refused" /\ text' = text
    BY <1>4 DEF ReadCharacter, Refuse
  <2>2. Refusable(text)
    <3>1. CASE ~IsDecimal(text)
      BY <3>1 DEF Refusable
    <3>2. CASE IsDecimal(text)
      <4>1. \A i \in 1 .. Len(text) : text[i] \in Digits
        BY <1>1, <3>2 DEF IsDecimal
      <4>2. n * Base + c > U32_MAX
        BY <1>2, <1>4, <4>1, IdsAssumption DEF TimesTenPlus
      <4>3. PICK f : Runs(f, text, Len(text)) /\ Value(text) = f[Len(text)] /\ f[read] = n
        BY <1>1, <3>2, ReadIsValueSoFar
      <4>4. f[read + 1] = n * Base + c
        BY <1>2, <4>3 DEF Runs
      <4>5. read + 1 \in 0 .. Len(text) /\ Len(text) \in 0 .. Len(text)
        BY <1>1, <1>2
      <4>6. f[read + 1] <= f[Len(text)] /\ f[read + 1] \in Nat
        BY <1>1, <4>1, <4>3, <4>5, RunsGrow
      <4>7. f[Len(text)] \in Nat /\ U32_MAX \in Nat
        BY <4>3, <4>5, DigitsAreNats DEF Runs
      <4>8. Value(text) > U32_MAX
        BY <4>2, <4>3, <4>4, <4>6, <4>7
      <4> QED
        BY <4>8 DEF Refusable
    <3> QED
      BY <3>1, <3>2
  <2>3. Refusable(text)'
    BY <2>1, <2>2 DEF Refusable, IsDecimal, Value
  <2> QED
    BY <1>1, <2>1, <2>3 DEF IdsInvariant
<1>5. CASE ~(c = NoDigit \/ TimesTenPlus(n, c) > U32_MAX)
  <2>1. /\ n' = n * Base + c /\ read' = read + 1
        /\ text' = text /\ verdict' = verdict /\ verdict = "reading"
    BY <1>5 DEF ReadCharacter, TimesTenPlus
  <2>2. c \in Digits
    BY <1>3, <1>5 DEF Characters
  <2>3. PICK f : Runs(f, text, read) /\ f[read] = n
    BY <1>1 DEF HasRead
  <2> DEFINE k == read + 1
             g == [i \in 0 .. k |-> IF i = k THEN n * Base + c ELSE f[i]]
  <2>4. n \in Nat
    BY <1>2, <2>3 DEF Runs
  <2>5. n * Base + c \in Nat
    BY <2>2, <2>4, OneMoreDigit
  <2>6. Runs(g, text, k)
    <3>1. /\ f \in [0 .. read -> Nat] /\ f[0] = 0
          /\ \A i \in 1 .. read : f[i] = f[i - 1] * Base + text[i]
      BY <2>3 DEF Runs
    <3>2. g \in [0 .. k -> Nat]
      <4>1. \A i \in 0 .. k : i = k \/ i \in 0 .. read
        BY <1>2
      <4> QED
        BY <2>5, <3>1, <4>1
    <3>3. g[0] = 0
      BY <1>2, <3>1
    <3>4. ASSUME NEW i \in 1 .. k PROVE g[i] = g[i - 1] * Base + text[i]
      <4>1. CASE i = k
        <5>1. i - 1 = read /\ read \in 0 .. k /\ read # k /\ i \in 0 .. k
          BY <1>2, <4>1
        <5>2. g[i] = n * Base + c /\ g[i - 1] = f[read]
          BY <4>1, <5>1
        <5> QED
          BY <2>3, <4>1, <5>2
      <4>2. CASE i # k
        <5>1. i \in 1 .. read /\ i \in 0 .. k /\ i - 1 \in 0 .. k /\ i - 1 # k
          BY <1>2, <4>2
        <5>2. g[i] = f[i] /\ g[i - 1] = f[i - 1]
          BY <4>2, <5>1
        <5> QED
          BY <3>1, <5>1, <5>2
      <4> QED
        BY <4>1, <4>2
    <3> HIDE DEF g, k
    <3> QED
      BY <3>2, <3>3, <3>4 DEF Runs
  <2>7. g[k] = n * Base + c
    BY <1>2
  <2>8. \A i \in 1 .. k : text[i] \in Digits
    <3>1. \A i \in 1 .. read : text[i] \in Digits
      BY <1>1 DEF HasRead
    <3>2. \A i \in 1 .. k : i = k \/ i \in 1 .. read
      BY <1>2
    <3> QED
      BY <2>2, <3>1, <3>2
  <2>9. HasRead(text, k, n * Base + c)
    <3> HIDE DEF g, k
    <3> QED
      BY <2>6, <2>7, <2>8 DEF HasRead
  <2>10. HasRead(text', read', n')
    BY <2>1, <2>9
  <2>11. read' \in 0 .. Len(text')
    BY <1>1, <1>2, <2>1
  <2> QED
    BY <1>1, <2>1, <2>10, <2>11 DEF IdsInvariant
<1> QED
  BY <1>4, <1>5

\* A text is taken for a market exactly if it denotes one, and for that one: for every
\* base and width, and texts of every length (market/src/validation.rs,
\* parse_market_id).
THEOREM IdsAlwaysParsedForWhatTheySay == IdsSpec => []ParsedForWhatItSays
<1>1. IdsInit => IdsInvariant
  BY DEF IdsInit, IdsInvariant
<1>2. IdsInvariant /\ [IdsStep]_idVars => IdsInvariant'
  <2> SUFFICES ASSUME IdsInvariant, [IdsStep]_idVars PROVE IdsInvariant'
    OBVIOUS
  <2>1. CASE Return
    <3>1. /\ text' = text /\ read' = read /\ n' = n /\ verdict' = "parsed"
          /\ HasRead(text, Len(text), n) /\ text # <<>> /\ text \in Seq(Characters)
      BY <2>1 DEF Return, IdsInvariant
    <3>2. HasRead(text', Len(text'), n')
      BY <3>1
    <3> QED
      BY <3>1, <3>2 DEF IdsInvariant
  <2>2. CASE UNCHANGED idVars
    <3>1. text' = text /\ read' = read /\ n' = n /\ verdict' = verdict
      BY <2>2 DEF idVars
    <3> QED
      BY <3>1 DEF IdsInvariant, HasRead, Refusable, IsDecimal, Value
  <2> QED
    BY <2>1, <2>2, CallPreserves, ReadCharacterPreserves DEF IdsStep
<1>3. IdsInvariant => ParsedForWhatItSays
  <2> SUFFICES ASSUME IdsInvariant PROVE ParsedForWhatItSays
    OBVIOUS
  <2>1. CASE verdict = "parsed"
    <3>1. text # <<>> /\ HasRead(text, Len(text), n) /\ text \in Seq(Characters)
      BY <2>1 DEF IdsInvariant
    <3>2. IsDecimal(text)
      BY <3>1 DEF IsDecimal, HasRead
    <3>3. Len(text) \in 0 .. Len(text)
      BY <3>1
    <3>4. n = Value(text)
      BY <3>1, <3>2, <3>3, ReadIsValueSoFar
    <3> QED
      BY <2>1, <3>2, <3>4 DEF ParsedForWhatItSays
  <2>2. CASE verdict = "refused"
    BY <2>2 DEF IdsInvariant, Refusable, ParsedForWhatItSays
  <2> QED
    BY <2>1, <2>2 DEF ParsedForWhatItSays
<1> QED
  BY <1>1, <1>2, <1>3, PTL DEF IdsSpec
===============================================================================
