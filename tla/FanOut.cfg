CONSTANTS
    r1 = r1
    r2 = r2
    Referrers = {r1, r2}
    Cap = 2
    Synthetic = 5
    Times = {1}
    Unserved = 1
    Controls = {"sub"}
    Toggles = {TRUE}
SPECIFICATION Spec
INVARIANTS
    NoSilentHole
    TapReplaysStream
    SameAcrossReferrers
PROPERTIES
    ImplementsLossyStream
CHECK_DEADLOCK FALSE
