CONSTANTS
    c1 = c1
    c2 = c2
    Calls = {c1, c2}
    None = None
    ProviderCap = 2
    MaxEvents = 1
SPECIFICATION FairSpec
INVARIANTS
    OneSource
    AttachedServed
PROPERTIES
    OpenReturns
    OnlyStallHoldsUp
CHECK_DEADLOCK FALSE
