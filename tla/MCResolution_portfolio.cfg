SPECIFICATION Spec
CONSTANTS
  Alice = Alice  Bob = Bob  M1 = M1  M2 = M2  K1 = K1  K2 = K2  X = X  Y = Y
  Markets = {M1, M2}
  MarketContracts = {K1}
  Factories = {F1}
  Treasuries = {T1}
  Tokens = {X, Y}
  Users = {Alice, Bob}
  This = This
  Unset = Unset
  CollateralToken <- TokenPerMarket
  OracleSigned <- TrueSigned
  Funds = 8
  BondInputs = {3, 4}
  WindowInputs = {0, 1, 2}
  CollateralInputs = {0, 4}
  DepositTokens = {X}
  ExpiryInputs = {5}
  ModeInputs = {}
  PauseInputs = {}
  FactoryInputs = {}
  MarketContractInputs = {}
  TreasuryInputs = {}
  GateInputs = {}
  OutOfBand = {}
  MIN_BOND_AMOUNT = 4
  MIN_CHALLENGE_BOND_AMOUNT = 4
  MIN_CHALLENGE_WINDOW_SECONDS = 1
  MAX_CHALLENGE_WINDOW_SECONDS = 1
  MAX_APPEAL_ROUNDS = 1
  ARBITRATION_TIMELOCK_SECONDS = 1
  ADDRESS_TIMELOCK_SECONDS = 2
  MaxTime = 3
SYMMETRY UserSymmetry
INVARIANTS
  OneCandidatePerMarket
  
PROPERTIES
  ImplementsEscrow
CHECK_DEADLOCK FALSE
