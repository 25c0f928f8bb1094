CONSTANTS
    e1 = e1
    e2 = e2
    Emitters = {e1}
    MaxEvents = 2
    MaxFaults = 1
    ChanCap = 2
    BufCap = 2
    PageSize = 1
    Attempts = 2
    MaxDrops = 0
    MaxVisits = 1
    OtherInvokes = TRUE
SPECIFICATION FairSpec
PROPERTIES CaughtUp
CHECK_DEADLOCK FALSE
