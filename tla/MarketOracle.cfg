SPECIFICATION Spec
CONSTANTS
  FIXED_POINT_SCALE = 4
  BPS_DENOMINATOR = 10
  U64_MAX = 100
  Configs <- MCConfigs
  Pools <- MCPools
  COLLATERAL_UNIT = 1
  QUOTE_UNIT = 1
  OBSERVATION_CAPACITY = 3
  MAX_DEVIATION_BPS = 5
  MAX_AGE_SECONDS = 4
  MAX_RISE_BPS = 5
  MIN_SPAN_SECONDS = 2
  MAX_TWAP_WINDOW_SECONDS = 4
  PARAM_TIMELOCK_SECONDS = 2
  MaxDeploy = 2
  MaxTime = 4
  SamplePrices = {0, 4, 6, 8}
  SampleAges = {0, 2, 3}
INVARIANTS
  RingInOrder
  NeverAboveWhatWasSeen
  NewRiskRestsOnHistory
PROPERTIES
  KeepsContract
  RisesAreRationed
  JudgementFollowsTheRule
  BootstrapIsKept
