SPECIFICATION Spec
CONSTANTS
    Procs = {p1}
    Names = {n1, n2}
    None = None
    MaxRepos = 3
    MaxFaults = 2
SYMMETRY Symmetry
INVARIANTS
    SequentialCoherence
    DamageBounded
    ExportFollowsPrivate
