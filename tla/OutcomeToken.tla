------------------------------ MODULE OutcomeToken ------------------------------
(***************************************************************************)
(* The outcome-token contract (outcome-token/src/lib.rs): the metadata of  *)
(* a token and the admin who may change it.  Of a text only its length     *)
(* matters.                                                                *)
(***************************************************************************)
EXTENDS Naturals

CONSTANTS
  Accounts,             \* who may call
  Unset,                \* an absent storage entry
  LengthInputs,         \* lengths of the texts callers pass
  MAX_SYMBOL_LEN,
  MAX_NAME_LEN

VARIABLES
  admin,                \* DataKey::Admin
  metadata              \* DataKey::Metadata

tokenVars == <<admin, metadata>>

OutcomeMetadata == [symbol : Nat, name : Nat]

ASSUME TokenAssumption ==
  /\ LengthInputs \subseteq Nat
  /\ MAX_SYMBOL_LEN \in Nat /\ MAX_NAME_LEN \in Nat
  /\ Unset \notin Accounts \cup OutcomeMetadata

\* Fault: only the caps are checked.
CapsOnly(symbol, name) == symbol <= MAX_SYMBOL_LEN /\ name <= MAX_NAME_LEN

ValidateMetadata(symbol, name) ==
  /\ symbol \in 1 .. MAX_SYMBOL_LEN
  /\ name \in 1 .. MAX_NAME_LEN

RequireAdmin(caller) == admin # Unset /\ caller = admin

\* Whoever signs for it becomes admin, at any time.
Initialize(new_admin, symbol, name) ==
  /\ ValidateMetadata(symbol, name)
  /\ admin' = new_admin
  /\ metadata' = [symbol |-> symbol, name |-> name]

SetMetadata(caller, symbol, name) ==
  /\ RequireAdmin(caller)
  /\ ValidateMetadata(symbol, name)
  /\ metadata' = [symbol |-> symbol, name |-> name]
  /\ UNCHANGED admin

\* metadata, symbol and name answer as soon as something is stored.
Answers == metadata # Unset

TokenInit == admin = Unset /\ metadata = Unset

TokenStep ==
  \E caller \in Accounts, symbol, name \in LengthInputs :
    \/ Initialize(caller, symbol, name)
    \/ SetMetadata(caller, symbol, name)

TokenSpec == TokenInit /\ [][TokenStep]_tokenVars

-------------------------------------------------------------------------------
\* Properties.

\* A reader of the token's metadata always finds texts that are not empty and keep
\* the caps, from the moment the token has an admin, whichever of the two calls
\* wrote them and however many were refused.
MetadataWithinCaps ==
  /\ Answers <=> admin # Unset
  /\ Answers => /\ metadata \in OutcomeMetadata
                /\ metadata.symbol # 0 /\ metadata.symbol <= MAX_SYMBOL_LEN
                /\ metadata.name # 0 /\ metadata.name <= MAX_NAME_LEN
===============================================================================
