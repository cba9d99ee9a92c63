SPECIFICATION Spec
CONSTANTS
  FIXED_POINT_SCALE = 10
  BPS_DENOMINATOR = 10
  U64_MAX = 100
  Configs <- MCConfigs
  Caps = {0, 2, 4}
  Shares = {0, 1, 2}
  MAX_PARAM_TIMELOCK_SECONDS = 2
  MAX_PROTOCOL_LIQUIDATION_SHARE_BPS = 1
  MaxTime = 4
  Amounts = {0, 1, 2, 3, 4, 5, 6, 7, 8, 9, 20, 100}
INVARIANTS
  QueuedChangesLoosen
PROPERTIES
  ParamsFollowTheRule
  RiskFollowsTheRule
