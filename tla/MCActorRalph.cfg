CONSTANTS
    t1 = t1
    t2 = t2
    r1 = r1
    r2 = r2
    Ralph = Ralph
    NoTurn = NoTurn
    Tickets = {t1, t2}
    Prompts = {}
    Permissions = {}
    MaxIterations = 2
    MaxFailures = 2
    MaxLoops = 1
    MaxInterrupts = 1
    TimeoutEnabled = TRUE
    CliWithdraws = FALSE
SPECIFICATION Spec
SYMMETRY MCSymmetry
INVARIANTS TypeOK OneTurnInCli NoTicketLost ErrNotRun TurnsInOrder NothingStalled VerdictJustified
CHECK_DEADLOCK FALSE
