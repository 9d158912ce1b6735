SPECIFICATION EventsSpec
CONSTANTS
  Alice = Alice  Bob = Bob  M1 = M1  M2 = M2
  Users = {Alice, Bob}
  Markets = {M1}
  Unset = Unset
  Funds = 2
  AmountInputs = {2}
  DeltaInputs = {0, 1}
  PriceInputs = {1}
  FeeInputs = {}
  ResultInputs = {TRUE, FALSE, Unset}
  ModeInputs = {}
  AdminCalls = {"set_outcome_token"}
  RequestIds = {1}
  RepairIds = {1}
  TokenMoves = TRUE
  OneName = FALSE
  BASIS_POINTS = 2
  MAX_FEE_WAIVERS = 0
  MAX_BATCH_SETTLE_SIZE = 2
  WITHDRAW_COOLDOWN_SECONDS = 1
  EndTime = 1
  MaxShares = 1
  MaxCollateral = 4
  MaxTime = 0
SYMMETRY UserSymmetry
INVARIANTS
  CustodyMatchesBooks
  IndexFollows
  ClaimsConserved
  SettledHoldNoTokens
PROPERTIES
  SettledForGood
CHECK_DEADLOCK FALSE
