SPECIFICATION Spec
CONSTANTS
  Device <- MCDevice
  Polite <- MCPolite
  NoSession = NoSession
  NoSignal = NoSignal
  Asks = {"rebuild"}
  MaxAsks = 1
  Candidates = {}
  Backlog = 2
INVARIANTS SessionOfThisGeneration
CHECK_DEADLOCK FALSE
