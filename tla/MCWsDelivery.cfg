CONSTANTS
    e1 = e1
    e2 = e2
    Emitters = {e1, e2}
    MaxEvents = 2
    MaxFaults = 1
    ChanCap = 1
    BufCap = 2
    PageSize = 1
    Attempts = 2
    MaxDrops = 1
    MaxVisits = 2
    OtherInvokes = FALSE
SPECIFICATION FairSpec
INVARIANTS TypeOK NoHole InOrder CheckpointHonest
PROPERTIES CaughtUp
CHECK_DEADLOCK FALSE
