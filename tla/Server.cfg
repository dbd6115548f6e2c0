SPECIFICATION Spec
CONSTANTS
    o1 = o1
    o2 = o2
    Objects = {o1, o2}
    Fronts = {"ssh", "http", "grpc"}
    Guarded = {"http"}
    MaxRollbacks = 3
    MaxCrashes = 2
    MaxSignals = 2
    StartDB <- FoundDatabases
INVARIANTS
    UpgradeKeepsData
PROPERTIES
    StopsWhenTold
