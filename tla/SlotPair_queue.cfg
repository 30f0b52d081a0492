SPECIFICATION Spec
CONSTANTS
  Device <- MCDevice
  Polite <- MCPolite
  NoSession = NoSession
  NoSignal = NoSignal
  Asks = {"rebuild"}
  MaxAsks = 1
  Candidates = {}
  Backlog = 2
INVARIANTS NoSilentWedge FourLines
PROPERTIES ImpoliteKeepsItsConnection
CHECK_DEADLOCK FALSE
