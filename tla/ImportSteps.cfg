SPECIFICATION MCSpec
CONSTANTS
    Callers = {c1, c2}
    None = None
    MaxTasks = 2
    Listed <- MCListed
    MaxFailures = 2
INVARIANTS
    AllOrNothing
    SuccessIsThere
    PointersFound
PROPERTIES
    NameFreed
    CallerReturns
    SearchReturns
CHECK_DEADLOCK FALSE
