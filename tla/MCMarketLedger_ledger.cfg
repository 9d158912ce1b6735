SPECIFICATION EventsSpec
CONSTANTS
  Alice = Alice  Bob = Bob  M1 = M1  M2 = M2
  Users = {Alice}
  Markets = {M1, M2}
  Unset = Unset
  Funds = 2
  AmountInputs = {1, 2}
  DeltaInputs <- Deltas
  PriceInputs = {1}
  FeeInputs = {2}
  ResultInputs = {Unset}
  ModeInputs = {"SettleOnly"}
  AdminCalls = {"set_treasury", "cancel_market", "close_market"}
  RequestIds = {}
  RepairIds = {}
  TokenMoves = FALSE
  OneName = FALSE
  BASIS_POINTS = 2
  MAX_FEE_WAIVERS = 1
  MAX_BATCH_SETTLE_SIZE = 1
  WITHDRAW_COOLDOWN_SECONDS = 1
  EndTime = 1
  MaxShares = 1
  MaxCollateral = 3
  MaxTime = 1
SYMMETRY MarketSymmetry
INVARIANTS
  TypeOK
  CustodyMatchesBooks
  IndexFollows
CHECK_DEADLOCK FALSE
