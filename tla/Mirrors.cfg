SPECIFICATION JobSpec
CONSTANTS
    Mirrors = {m1, m2}
    Ticks = {t1, t2}
    Workers = 1
    MaxRemote = 1
SYMMETRY Symmetry
INVARIANTS
    MirrorsVisited
