SPECIFICATION MCSpec
CONSTANTS
  FIXED_POINT_SCALE = 4
  BPS_DENOMINATOR = 10
  U64_MAX = 16
  NumReserves = 2
  NumOwners = 1
  NumWallets = 2
  Suppliers = {}
  Liquidators <- LastWallet
  Config <- MCConfig
  ConfigChanges <- NoChanges
  Risk <- MCRisk
  TokenUnit <- MCTokenUnit
  OracleReports <- FallingReports
  Amounts = {1, 3}
  OutsideAmounts = {}
  OutsideShares <- NoShares
  MAX_OBLIGATION_RESERVES = 2
  FULL_CLOSE_HEALTH_FACTOR_BPS = 7
  MaxSlot = 1
  WithAdmin = FALSE
  Pool <- MCPool
  Opening = 3
  InitialRate <- MCInitialRate
INVARIANTS
  PrincipalMatches
PROPERTIES
  DebtsArePaid
  FullPaymentClears
  WithdrawalStaysInLimit
  BorrowStaysInLimit
  SeizureBounded
  LiquidationHeals
  LossIsTheDebt
CHECK_DEADLOCK FALSE
