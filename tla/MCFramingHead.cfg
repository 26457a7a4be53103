SPECIFICATION MCFairSpec
CONSTANTS
  T = T
  G = G
  x = x
  Byte <- HeadOnly
  N = 4
  FrameLen = 4
  Head0 = T
  Head1 = G
  Payload <- HeadOnly
PROPERTY SynchronisesEventually
