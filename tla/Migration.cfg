SPECIFICATION FairSpec
CONSTANTS
  cook = cook
  bcook = bcook
  Reserves = {cook, bcook}
  Obligations = {alice}
  Kinds <- MCKinds
  Rates <- MCRates
  FIXED_POINT_SCALE = 1
  EmergencyDeviation = 2
  MaxAmount = 1
INVARIANTS
  OneSource
PROPERTIES
  RiskNeedsBothGates
  NeverReanchored
  Completes
