SPECIFICATION Spec
CONSTANTS
  Device <- MCDevice
  Polite <- MCPolite
  NoSession = NoSession
  NoSignal = NoSignal
  Asks = {"disconnect"}
  MaxAsks = 1
  Candidates = {}
  Backlog = 1
PROPERTIES CopiesAreIdempotent
CHECK_DEADLOCK FALSE
