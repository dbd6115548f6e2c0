SPECIFICATION MCSpec
CONSTANTS
    Callers = {c1, c2}
    None = None
    MaxTasks = 2
    Listed <- MCListed
    MaxFailures = 2
INVARIANTS
    WaitersOnlyWait
CHECK_DEADLOCK FALSE
