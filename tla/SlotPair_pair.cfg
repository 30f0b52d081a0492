SPECIFICATION FairSpec
CONSTANTS
  Device <- MCDevice
  Polite <- MCPolite
  NoSession = NoSession
  NoSignal = NoSignal
  Asks = {"rebuild", "heal", "disconnect"}
  MaxAsks = 1
  Candidates <- EarlyCandidate
  Backlog = 1
INVARIANTS NoSilentWedge FourLines
PROPERTIES ImpoliteKeepsItsConnection Settles
CHECK_DEADLOCK FALSE
