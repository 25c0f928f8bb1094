CONSTANTS
    t1 = t1
    t2 = t2
    r1 = r1
    r2 = r2
    Ralph = Ralph
    NoTurn = NoTurn
    Tickets = {t1}
    Prompts = {r1, r2}
    Permissions = {r1, r2}
    MaxIterations = 2
    MaxFailures = 2
    MaxLoops = 0
    MaxInterrupts = 1
    TimeoutEnabled = TRUE
    CliWithdraws = TRUE
SPECIFICATION Spec
SYMMETRY MCSymmetry
INVARIANTS SpinnerHonest OneAnswer PromptReachable
CHECK_DEADLOCK FALSE
