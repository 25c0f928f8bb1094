CONSTANTS
    e1 = e1
    e2 = e2
    Emitters = {e1, e2}
    MaxEvents = 2
    MaxFaults = 0
    ChanCap = 2
    BufCap = 2
    PageSize = 1
    Attempts = 2
    MaxDrops = 0
    MaxVisits = 1
    OtherInvokes = FALSE
SPECIFICATION Spec
SYMMETRY MCSymmetry
INVARIANTS EveryEventShown
CHECK_DEADLOCK FALSE
