SPECIFICATION LogSpec
CONSTANTS
  Device = {"c", "a"}
  Creator = "c"
  Executor = {"x"}
  Nobody = Nobody
  Tried <- ClaimOrHandoff
  Caller = {1}
  Fragile = {"a"}
  NoTask = NoTask
  NoCall = NoCall
  NoImage = NoImage
  MaxOps = 2
  MaxEpoch = 1
  MaxCrash = 1
  MaxFault = 1
PROPERTIES FailedSendsRemain
CHECK_DEADLOCK FALSE
