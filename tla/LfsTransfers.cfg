SPECIFICATION MCSpec
CONSTANTS
    big = big
    empty = empty
    Oids = {big, empty}
    Size <- MCSize
    Handlers = {h1, h2}
    Mirrors = {m1, m2}
    Casts = {{h1, h2, big, empty}, {h1, m1, big, empty}, {m1, m2, big, empty},
             {h1, h2, m1, big}}
    BatchLimit = 1
    Absent = Absent
    None = None
INVARIANTS
    StoredIsWhole
    AnswersAreKept
PROPERTIES
    MirrorReturns
