SPECIFICATION Spec
CONSTANTS
  Turn = 20
  Window = 3
  Coming = 10
  Leaving = 0
  SpeedLimit = 1
  HighDelay = 2
  LowDelay = 1
  Ages <- AgeValues
  FlyTimes <- FlyValues
  Targets <- TargetValues
  MaxIter = 3
INVARIANT SpinningIsLed
