SPECIFICATION MCSpec
CONSTANTS
  FIXED_POINT_SCALE = 4
  BPS_DENOMINATOR = 10
  U64_MAX = 16
  NumReserves = 2
  NumOwners = 1
  NumWallets = 2
  Suppliers = {}
  Liquidators <- LastWallet
  Config <- ModestFees
  ConfigChanges <- NoChanges
  Risk <- MCRisk
  TokenUnit <- MCTokenUnit
  OracleReports <- CollapsingReports
  Amounts = {1, 4}
  OutsideAmounts = {}
  OutsideShares <- NoShares
  MAX_OBLIGATION_RESERVES = 2
  FULL_CLOSE_HEALTH_FACTOR_BPS = 7
  MaxSlot = 2
  WithAdmin = FALSE
  Pool <- SmallPool
  Opening = 1
  InitialRate <- HighInitialRate
INVARIANTS
  ShareRateStaysReadable
CHECK_DEADLOCK FALSE
