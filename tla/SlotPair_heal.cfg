SPECIFICATION Spec
CONSTANTS
  Device <- MCDevice
  Polite <- MCPolite
  NoSession = NoSession
  NoSignal = NoSignal
  Asks = {"heal"}
  MaxAsks = 1
  Candidates = {}
  Backlog = 1
INVARIANTS FourLinesEver
CHECK_DEADLOCK FALSE
