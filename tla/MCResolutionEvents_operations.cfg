SPECIFICATION EventsSpec
CONSTANTS
  Alice = Alice  Bob = Bob  M1 = M1  M2 = M2  K1 = K1  K2 = K2  X = X  Y = Y
  Markets = {M1}
  MarketContracts = {K1, K2}
  Factories = {F1}
  Treasuries = {T1}
  Tokens = {X}
  Users = {Alice}
  This = This
  Unset = Unset
  CollateralToken <- OneToken
  OracleSigned <- TrueSigned
  Funds = 12
  BondInputs = {3, 4}
  WindowInputs = {0, 1, 2}
  CollateralInputs = {0, 4}
  DepositTokens = {X}
  ExpiryInputs = {2}
  ModeInputs = {"Normal", "SettleOnly"}
  PauseInputs = {TRUE, FALSE}
  FactoryInputs = {F1}
  MarketContractInputs = {K2}
  TreasuryInputs = {T1}
  GateInputs = {"V2Only"}
  OutOfBand = {"Cancel", "Reopen", "Resolve"}
  MIN_BOND_AMOUNT = 4
  MIN_CHALLENGE_BOND_AMOUNT = 4
  MIN_CHALLENGE_WINDOW_SECONDS = 1
  MAX_CHALLENGE_WINDOW_SECONDS = 1
  MAX_APPEAL_ROUNDS = 1
  ARBITRATION_TIMELOCK_SECONDS = 1
  ADDRESS_TIMELOCK_SECONDS = 1
  MaxTime = 2
ACTION_CONSTRAINT OneRegisterPending
INVARIANTS
  TypeOK
  IndexFollows
  MarketAgrees
CHECK_DEADLOCK FALSE
