SPECIFICATION MCSpec
CONSTANTS
  FIXED_POINT_SCALE = 4
  BPS_DENOMINATOR = 10
  U64_MAX = 9
  NumReserves = 1
  NumOwners = 1
  NumWallets = 2
  Suppliers <- LastWallet
  Liquidators <- LastWallet
  Config <- OneConfig
  ConfigChanges <- OneRepriced
  Risk <- OneRisk
  TokenUnit <- OneTokenUnit
  OracleReports <- OneSteadyReport
  Amounts = {3}
  OutsideAmounts = {3}
  OutsideShares <- SentShares
  MAX_OBLIGATION_RESERVES = 2
  FULL_CLOSE_HEALTH_FACTOR_BPS = 7
  MaxSlot = 2
  WithAdmin = TRUE
  Pool <- OnePool
  Opening = 4
  InitialRate <- OneInitialRate
INVARIANTS
  TypeOK
  VaultBacksBooks
  MirrorCoversShares
  CollateralInCustody
  RepayStaysOpen
PROPERTIES
  SharePriceNeverFalls
  FeesStayCovered
  IndexNeverFalls
CHECK_DEADLOCK FALSE
