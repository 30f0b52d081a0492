SPECIFICATION FairSpec
CONSTANTS
  Grace = 1
  Dead = 1
  RestartFor <- RestartBySixth
  RebuildFor <- RebuildBySixth
  Window = 10
  MaxRebuilds = 3
  MaxOthers = 1
  MaxForwarders = 1
INVARIANT RestIsArmed
PROPERTY JudgedByItsOwnSilence NeverGivesUp
