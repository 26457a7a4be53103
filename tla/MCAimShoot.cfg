SPECIFICATION BothSpec
CONSTANTS
  Turn = 20
  Window = 3
  Coming = 10
  Leaving = 0
  SpeedLimit = 1
  HighDelay = 2
  LowDelay = 1
  Ages <- AgeValues
  FlyTimes <- FlyValues
  Targets <- TargetValues
  MaxIter = 3
  Yaws <- YawValues
  Offsets <- OffsetValues
  Tolerances <- ToleranceValues
  AutoFire = TRUE
INVARIANT AimsAtFacingPlate
PROPERTIES KeepsItsPlate ImplementsContract EveryAimReturns FiresOnTarget SteadyAimFires
