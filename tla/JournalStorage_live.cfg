SPECIFICATION FairSpec
CONSTANTS
  Text <- MCText
  Delta <- MCDelta
  Empty = ""
  NoText = NoText
  Unread = Unread
  Bytes <- MCBytes
  s1 = s1
  s2 = s2
  d1 = d1
  d2 = d2
  MaxCalls = 4
  MaxBytes = 4
  MaxDepth = 3
  CanRemove = TRUE
  Mishaps = {}
CHECK_DEADLOCK FALSE
INVARIANT Tidy
PROPERTY EveryCallSettles
