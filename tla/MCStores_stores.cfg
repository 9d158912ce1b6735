SPECIFICATION MCSpec
CONSTANTS
  A = A  B = B  T = T
  Accounts = {A, B, T}
  Unset = Absent
  LengthInputs = {0, 1, 2, 3}
  MAX_SYMBOL_LEN = 1
  MAX_NAME_LEN = 2
  Base = 3
  U32_MAX = 16
  MaxLength = 3
  NoDigit = 3
  Texts <- MCTexts
  Addresses = {A, B, T}
  Absent = Absent
  AdminInputs = {A, Absent}
  PausedInputs = {TRUE, FALSE, Absent}
  InstanceKeys = {"Admin", "Paused", "FeeAccrued", "OraclePrice", "OutcomeToken"}
  Numbers = {1, 2}
  Edges <- MCEdges
  Keys <- MCKeys
  Values = {1, 2}
  PAYLOAD_WIDTH = 2
  I128_MAX = 15
  BASIS_POINTS = 4
  Elsewhere = 1
  AmountInputs = {0, 1, 2, 3, 4, 5, 6, 7, 8}
  DeltaInputs <- MCDeltas
  PriceInputs = {0, 1, 2, 3, 4, 5}
  RateInputs = {0, 1, 4, 5}
INVARIANTS
  MintedOnce
  
  MetadataWithinCaps
  ParsedForWhatItSays
  LocksWithinWidth
PROPERTIES
  PauseHolds
CHECK_DEADLOCK FALSE
