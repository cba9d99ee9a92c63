SPECIFICATION MCSpec
CONSTANTS
  FIXED_POINT_SCALE = 4
  BPS_DENOMINATOR = 10
  U64_MAX = 16
  NumReserves = 1
  NumOwners = 2
  NumWallets = 3
  Suppliers = {}
  Liquidators = {}
  Config <- NoBorrowFee
  ConfigChanges <- DownAndUp
  Risk <- OneRisk
  TokenUnit <- OneTokenUnit
  OracleReports <- OneFallingReport
  Amounts = {3}
  OutsideAmounts = {}
  OutsideShares <- NoShares
  MAX_OBLIGATION_RESERVES = 2
  FULL_CLOSE_HEALTH_FACTOR_BPS = 7
  MaxSlot = 1
  WithAdmin = FALSE
  Pool <- SharedPool
  Opening = 3
  InitialRate <- OneHighRate
INVARIANTS
  PoolIsSolvent
PROPERTIES
  CachedValuesHold
  OthersEndangerNobody
CHECK_DEADLOCK FALSE
