CONSTANTS
    a = a
    b = b
    u = u
    Control = Control
    Streams = {a, b}
    Untaggable = {u}
    Files = {0, 10}
    Requests <- Window
    Stamp <- Backwards
    MaxSent = 2
    MaxFlushes = 2
    MaxFaults = 1
    MaxCrashes = 1
    MaxReplays = 1
SPECIFICATION Spec
INVARIANTS
    FlushKeepsPromise
    ReplayFaithful
    LossReported
CHECK_DEADLOCK FALSE
