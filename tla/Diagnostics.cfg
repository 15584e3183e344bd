CONSTANTS
    s1 = s1
    s2 = s2
    Streams = {s1, s2}
    Traded = {s1}
    Backfilled = {s1}
    Surfaces = {"health", "none"}
    Causes = {"unauth", "disabled"}
    MaxTime = 2
    UnreadTime = 4
    QuietAfter = 0
    RingCap = 1
SPECIFICATION FairSpec
INVARIANTS
    PhaseFollowsControls
PROPERTIES
    ViewSettles
CHECK_DEADLOCK FALSE
