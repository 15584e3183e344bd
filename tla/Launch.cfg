CONSTANTS
    a1 = a1
    a2 = a2
    d1 = d1
    d2 = d2
    d3 = d3
    Nothing = Nothing
    Apps = {a1, a2}
    Daemons = {d1, d2, d3}
    Version <- TwoReleases
    Paths = {"absent", "dead", "file", "foreign"}
    Impatient = {a2}
    MaxFaults = 1
    MaxEnsures = 3
SPECIFICATION LaunchFairSpec
INVARIANTS
    ServesAlone
    OwnService
PROPERTIES
    EnsureSucceeds
CHECK_DEADLOCK FALSE
