SPECIFICATION Spec
CONSTANTS
  Keeper = {"k1", "k2", "k3"}
  Host = {"h1", "h2"}
  HostOf <- TwoHosts
  PidOf <- Pids
  BootIds = {"h1"}
  Squatters <- NoSquatters
  NoFile = NoFile
  Unreadable = Unreadable
  MaxBoot = 0
  Overlap = TRUE
  Stalls = FALSE
INVARIANTS OneKeeper
CHECK_DEADLOCK FALSE
