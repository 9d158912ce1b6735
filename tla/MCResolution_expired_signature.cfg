SPECIFICATION FairSpec
CONSTANTS
  Alice = Alice  Bob = Bob  M1 = M1  M2 = M2  K1 = K1  K2 = K2  X = X  Y = Y
  Markets = {M1}
  MarketContracts = {K1}
  Factories = {F1}
  Treasuries = {T1}
  Tokens = {X}
  Users = {Alice, Bob}
  This = This
  Unset = Unset
  CollateralToken <- OneToken
  OracleSigned <- TrueSigned
  Funds = 12
  BondInputs = {3, 4}
  WindowInputs = {0, 1, 2, 3}
  CollateralInputs = {}
  DepositTokens = {}
  ExpiryInputs = {1, 7}
  ModeInputs = {}
  PauseInputs = {TRUE, FALSE}
  FactoryInputs = {}
  MarketContractInputs = {}
  TreasuryInputs = {}
  GateInputs = {}
  OutOfBand = {}
  MIN_BOND_AMOUNT = 4
  MIN_CHALLENGE_BOND_AMOUNT = 4
  MIN_CHALLENGE_WINDOW_SECONDS = 1
  MAX_CHALLENGE_WINDOW_SECONDS = 2
  MAX_APPEAL_ROUNDS = 2
  ARBITRATION_TIMELOCK_SECONDS = 1
  ADDRESS_TIMELOCK_SECONDS = 1
  MaxTime = 7
PROPERTIES
  EveryDisputeConcludes
CHECK_DEADLOCK FALSE
