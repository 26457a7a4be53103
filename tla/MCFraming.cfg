SPECIFICATION MCSpec
CONSTANTS
  T = T
  G = G
  x = x
  Byte <- ByteValues
  N = 5
  FrameLen = 4
  Head0 = T
  Head1 = G
  Payload <- NoHeadPayload
INVARIANTS RingNeverFills ResyncWithinTwoFrames
