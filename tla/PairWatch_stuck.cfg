SPECIFICATION FairSpec
CONSTANTS
  Grace = 3
  Dead = 3
  RestartFor <- RestartBySecond
  RebuildFor <- RebuildBySecond
  Window = 30
  MaxRebuilds = 3
  MaxOthers = 0
  MaxForwarders = 0
PROPERTY MovesOn
