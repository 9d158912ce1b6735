SPECIFICATION Spec
CONSTANTS
  Alice = Alice  Bob = Bob  M1 = M1  M2 = M2  K1 = K1  K2 = K2  X = X  Y = Y
  Markets = {M1}
  MarketContracts = {K1, K2}
  Factories = {F1}
  Treasuries = {T1}
  Tokens = {X}
  Users = {Alice}
  This = This
  Unset = Unset
  CollateralToken <- OneToken
  OracleSigned <- TrueSigned
  Funds = 8
  BondInputs = {3, 4}
  WindowInputs = {0, 1, 2}
  CollateralInputs = {}
  DepositTokens = {}
  ExpiryInputs = {2, 3}
  ModeInputs = {}
  PauseInputs = {}
  FactoryInputs = {}
  MarketContractInputs = {}
  TreasuryInputs = {}
  GateInputs = {}
  OutOfBand = {}
  MIN_BOND_AMOUNT = 4
  MIN_CHALLENGE_BOND_AMOUNT = 4
  MIN_CHALLENGE_WINDOW_SECONDS = 1
  MAX_CHALLENGE_WINDOW_SECONDS = 1
  MAX_APPEAL_ROUNDS = 1
  ARBITRATION_TIMELOCK_SECONDS = 1
  ADDRESS_TIMELOCK_SECONDS = 1
  MaxTime = 3
INVARIANTS
  V2CandidateCanBeUpheld
CHECK_DEADLOCK FALSE
