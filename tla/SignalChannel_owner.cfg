SPECIFICATION Spec
CONSTANTS
  Side <- MCSide
  Other <- MCOther
  Conn = {"a", "b", "x"}
  Unbound = Unbound
  Nobody = Nobody
  Strays <- FourStrays
  MaxSends <- TwoTwo
  MaxWire = 1
  MaxAttempt = 1
  BufferLimit = 1
  Interleave = TRUE
  Acts = {"health", "drop", "reconnect", "close"}
INVARIANTS TypeOK AckSound RetryArmed AckOwed
PROPERTIES AnswersTheLastOffer
CHECK_DEADLOCK FALSE
