SPECIFICATION FairSpec
CONSTANTS
  Device <- MCDevice
  Polite <- MCPolite
  NoSession = NoSession
  NoSignal = NoSignal
  Asks = {"rebuild"}
  MaxAsks = 2
  Candidates = {}
  Backlog = 1
INVARIANTS NoSilentWedge FourLines
PROPERTIES ImpoliteKeepsItsConnection Settles
CHECK_DEADLOCK FALSE
