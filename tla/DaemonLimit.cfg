SPECIFICATION Spec
CONSTANTS
    Clients = {c1, c2, c3}
    Closers = {}
    Shutters = {}
    MaxConnections = 2
INVARIANTS
    LimitIsKept
CHECK_DEADLOCK FALSE
