SPECIFICATION FairSpec
CONSTANTS
  Text <- MCShortText
  Delta <- MCDelta
  Empty = ""
  NoText = NoText
  Unread = Unread
  Bytes <- MCBytes
  s1 = s1
  s2 = s2
  d1 = d1
  d2 = d2
  MaxCalls = 3
  MaxBytes = 2
  MaxDepth = 2
  CanRemove = FALSE
  Mishaps = {"reject", "crash", "damage"}
CHECK_DEADLOCK FALSE
INVARIANTS TypeOK CacheIsTrue Recoverable
PROPERTY EveryCallSettles ImplementsDurableJournal
