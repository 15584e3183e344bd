SPECIFICATION FairSpec
CONSTANTS
  i1 = i1
  i2 = i2
  i3 = i3
  Instruments = {i1, i2, i3}
  TooLong = {i3}
  Feeds <- Streams
  DataHistory = 2
  DataBuffer = 3
  AnnHistory = 1
  AnnBuffer = 2
  Interval = 3
  EventBuffer = 1
  MaxFaults = 1
CHECK_DEADLOCK FALSE
INVARIANTS
  PerSymbolOrder
PROPERTIES
  HeldResolves
  LetGo
