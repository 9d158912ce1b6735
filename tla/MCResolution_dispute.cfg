SPECIFICATION Spec
CONSTANTS
  Alice = Alice  Bob = Bob  M1 = M1  M2 = M2  K1 = K1  K2 = K2  X = X  Y = Y
  Markets = {M1}
  MarketContracts = {K1}
  Factories = {F1}
  Treasuries = {T1}
  Tokens = {X}
  Users = {Alice, Bob}
  This = This
  Unset = Unset
  CollateralToken <- OneToken
  OracleSigned <- BothSigned
  Funds = 24
  BondInputs = {4, 5, 6}
  WindowInputs = {0, 1, 2, 3}
  CollateralInputs = {}
  DepositTokens = {}
  ExpiryInputs = {1, 9}
  ModeInputs = {}
  PauseInputs = {}
  FactoryInputs = {}
  MarketContractInputs = {}
  TreasuryInputs = {T1}
  GateInputs = {}
  OutOfBand = {}
  MIN_BOND_AMOUNT = 5
  MIN_CHALLENGE_BOND_AMOUNT = 5
  MIN_CHALLENGE_WINDOW_SECONDS = 1
  MAX_CHALLENGE_WINDOW_SECONDS = 2
  MAX_APPEAL_ROUNDS = 2
  ARBITRATION_TIMELOCK_SECONDS = 2
  ADDRESS_TIMELOCK_SECONDS = 2
  MaxTime = 5
SYMMETRY UserSymmetry
INVARIANTS
  ChallengersInStep
  WindowsHold
  SettledAfterItsWindow
  
PROPERTIES
  ImplementsEscrow
  TreasuryIsTimelocked
CHECK_DEADLOCK FALSE
