SPECIFICATION Spec
CONSTANTS
  Keeper = {"k1", "k2", "k3", "k4"}
  Host = {"h1", "h2"}
  HostOf <- TwoHosts
  PidOf <- Pids
  BootIds = {"h1"}
  Squatters <- OneSquatter
  NoFile = NoFile
  Unreadable = Unreadable
  MaxBoot = 1
  Overlap = FALSE
  Stalls = TRUE
INVARIANTS TypeOK OneKeeper
PROPERTIES ForeignLockUntouched
CHECK_DEADLOCK FALSE
