SPECIFICATION EventsSpec
CONSTANTS
  Alice = Alice  Bob = Bob  M1 = M1  M2 = M2
  Users = {Alice, Bob}
  Markets = {M1}
  Unset = Unset
  Funds = 2
  AmountInputs = {2}
  DeltaInputs <- Deltas
  PriceInputs = {1}
  FeeInputs = {}
  ResultInputs = {TRUE, FALSE, Unset}
  ModeInputs = {}
  AdminCalls = {}
  RequestIds = {1}
  RepairIds = {}
  TokenMoves = FALSE
  OneName = TRUE
  BASIS_POINTS = 2
  MAX_FEE_WAIVERS = 0
  MAX_BATCH_SETTLE_SIZE = 2
  WITHDRAW_COOLDOWN_SECONDS = 1
  EndTime = 1
  MaxShares = 1
  MaxCollateral = 4
  MaxTime = 0
SYMMETRY UserSymmetry
INVARIANT
  ClaimsConserved
CHECK_DEADLOCK FALSE
