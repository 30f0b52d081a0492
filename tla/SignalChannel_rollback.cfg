SPECIFICATION Spec
CONSTANTS
  Side <- MCSide
  Other <- MCOther
  Conn = {"a", "b", "x"}
  Unbound = Unbound
  Nobody = Nobody
  Strays <- NoStrays
  MaxSends <- TwoThree
  MaxWire = 1
  MaxAttempt = 1
  BufferLimit = 1
  Interleave = FALSE
  Acts = {"drop"}
INVARIANTS HoleIsRetransmitted
CHECK_DEADLOCK FALSE
