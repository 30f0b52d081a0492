SPECIFICATION Spec
CONSTANTS
  Side <- MCSide
  Other <- MCOther
  Conn = {"a", "b", "x"}
  Unbound = Unbound
  Nobody = Nobody
  Strays <- NoStrays
  MaxSends <- ThreeZero
  MaxWire = 2
  MaxAttempt = 1
  BufferLimit = 1
  Interleave = TRUE
  Acts = {}
INVARIANTS PassedWasReceived
CHECK_DEADLOCK FALSE
