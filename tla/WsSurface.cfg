SPECIFICATION FairSpec
CONSTANTS
  Conns = {c1}
  MaxConnections = 1
  Depth = 1
  WireCap = 1
  EventBuffer = 1
  Feed <- Stream
  Asks <- Requests
  MaxCalls = 2
  MaxPushes = 1
  MaxBreaks = 1
  Drains = TRUE
CHECK_DEADLOCK FALSE
INVARIANTS
  NoSilentDrop
PROPERTIES
  RequestsResolve
  TornDown
