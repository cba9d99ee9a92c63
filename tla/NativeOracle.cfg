SPECIFICATION Spec
CONSTANTS
  FIXED_POINT_SCALE = 10
  BPS_DENOMINATOR = 10
  U64_MAX = 100
  Configs <- MCConfigs
  Rates = {10, 12, 13}
  Fees = {0, 2}
  Authorities <- MCAuthorities
  NO_UPGRADE_AUTHORITY = "none"
  ProgramDataPassed = {TRUE, FALSE}
  STALE_EPOCHS_WARNING = 3
  MaxEpoch = 3
  MaxDeploy = 2
  MaxSlot = 2
INVARIANTS
  NewRiskIsBounded
PROPERTIES
  KeepsContract
  RatesComeFromTheSource
  JumpsNeedTheAdmin
  CrankingBuysNothing
