SPECIFICATION FairSpec
CONSTANTS
  live = live
  key1 = key1
  key2 = key2
  SPY = SPY
  None = None
  Pairs <- AskedFor
  Accepted <- LetIn
  Modes = {live}
  Keys = {key2}
  FirstValues <- Starts
  MaxChanges = 2
  MaxFaults = 1
  MaxSubs = 2
  MaxFetches = 1
INVARIANTS
  NeverStale
  PromiseKept
PROPERTIES
  Recovers
CHECK_DEADLOCK FALSE
