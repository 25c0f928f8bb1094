CONSTANTS
    t1 = t1
    t2 = t2
    r1 = r1
    r2 = r2
    Ralph = Ralph
    NoTurn = NoTurn
    Tickets = {t1, t2}
    Prompts = {r1}
    Permissions = {r1}
    MaxIterations = 2
    MaxFailures = 2
    MaxLoops = 0
    MaxInterrupts = 0
    TimeoutEnabled = TRUE
    CliWithdraws = TRUE
SPECIFICATION FairSpec
PROPERTY TicketAnswered
CHECK_DEADLOCK FALSE
