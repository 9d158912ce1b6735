SPECIFICATION Spec
CONSTANTS
  A = A  B = B  C = C  Feed = Feed
  Keys = {A, B, C}
  Faulty = {C}
  Markets = {1}
  Networks = {1, 2}
  CurrentNetwork = 1
  Reports <- MCReports
  Lookalikes <- MCLookalikes
  Feeds = {Feed}
  Prices = {1, 2}
  SignerLists <- MCSignerLists
  AdapterTypeInputs = {"Ed25519", "Reflector", "Pyth"}
  Builds = {TRUE, FALSE}
  Absent = Absent
  RADIX = 2
  ID_WIDTH = 2
  TIME_WIDTH = 2
  EPOCH_WIDTH = 1
  MAX_PRICE_AGE_SECONDS = 0
  SIGNERS_TIMELOCK_SECONDS = 1
  MaxTime = 1
  MaxSignatures = 3
  MaxBatch = 3
CONSTRAINT
  Explored
ACTION_CONSTRAINT
  StillOpen
INVARIANTS
  TypeOK
  BackedByItsSigners
  
  PriceBehindOutcome
  LoopAgrees
  MessagesAreDistinct
PROPERTIES
  ClosedAfterLock
CHECK_DEADLOCK FALSE
