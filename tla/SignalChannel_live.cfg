SPECIFICATION FairSpec
CONSTANTS
  Side <- MCSide
  Other <- MCOther
  Conn = {"a", "b", "x"}
  Unbound = Unbound
  Nobody = Nobody
  Strays <- NoStrays
  MaxSends <- ThreeZero
  MaxWire = 3
  MaxAttempt = 1
  BufferLimit = 1
  Interleave = FALSE
  Acts = {}
INVARIANTS AppliedInOrder PassedWasReceived
PROPERTIES Delivered QueueDrains
CHECK_DEADLOCK FALSE
