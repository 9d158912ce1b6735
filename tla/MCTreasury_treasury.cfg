SPECIFICATION EventsSpec
CONSTANTS
  A = A  B = B  K1 = K1  K2 = K2  X = X  Y = Y  S1 = S1  S2 = S2  S3 = S3
  Admins = {A, B}
  MarketContracts = {K1, K2}
  Tokens = {X, Y}
  Recipients = {S1, S2, S3}
  Unset = Unset
  Supply <- ScarceSupply
  FeeInputs = {0, 1, 2}
  AmountInputs = {0, 1, 3}
  ListInputs <- Lists
  ModeInputs = {"Normal", "GlobalFreeze"}
  PauseInputs = {TRUE, FALSE}
  AdminInputs = {B}
  MarketInputs = {K1}
  SlashInputs = {1}
  MAX = 5
  BPS_DENOMINATOR = 4
  ADDRESS_TIMELOCK_SECONDS = 1
  MaxTime = 1
ACTION_CONSTRAINT OneKindPending
INVARIANTS
  TypeOK
  LedgerBacked
  BooksBalance
  DustBound
  IndexFollows
PROPERTIES
  SplitIsTimelocked
CHECK_DEADLOCK FALSE
