SPECIFICATION LoopFairSpec
CONSTANTS
  p1 = p1
  Port = p1
  Ports <- OnePort
  FrameLen = 3
  MaxSent = 9
  MaxCallbacks = 2
  Faults <- AllFaults
INVARIANTS LoopTypeOK OpenIsHeld BytesInOrder NeverBothWaiting
PROPERTIES LastFrameArrives ExchangeGoesOn
CHECK_DEADLOCK FALSE
