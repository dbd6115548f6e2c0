SPECIFICATION Spec
CONSTANTS
    Procs = {p1, p2}
    Names = {n1, n2}
    None = None
    MaxRepos = 2
    MaxFaults = 0
SYMMETRY Symmetry
INVARIANTS
    TypeOK
    InStep
    DamageBounded
    CacheFromPast
    UniqueIds
PROPERTIES
    RegistrySpec
