CONSTANTS
    h1 = h1
    h2 = h2
    l = l
    None = None
    Historical = {h1, h2}
    Stitched = {l}
    Ticks = 3
    Beginnings <- All
    Ranges <- OneRange
    Froms = {0}
    Modes <- Writing
    OutCap = 1
    RingCap = 1
    MaxFaults = 1
SPECIFICATION Spec
INVARIANTS
    SingleFlight
    NothingMissing
    SourceOrder
    CoverageExact
    SeamComplete
CHECK_DEADLOCK FALSE
SYMMETRY Symmetry
