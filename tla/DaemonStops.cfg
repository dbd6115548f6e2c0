SPECIFICATION Spec
CONSTANTS
    Clients = {c1, c2}
    Closers = {s1}
    Shutters = {s2}
    MaxConnections = 2
INVARIANTS
    TypeOK
    ShutdownIsGraceful
    PlacesAreFreed
PROPERTIES
    SilentClientsEnd
    ServeReturns
    ScannersEnd
CHECK_DEADLOCK FALSE
