CONSTANTS
    Pairs <- OnePair
    Times = {1}
    RingCap = 1
    OutCap = 1
    MaxRouted = 3
    MaxFlips = 2
    MaxOpens = 1
    MaxTakes = 2
SPECIFICATION FairSpec
INVARIANTS
    NoSilentHole
PROPERTIES
    CloseCompletes
CHECK_DEADLOCK FALSE
