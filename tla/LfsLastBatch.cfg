SPECIFICATION MCSpec
CONSTANTS
    big = big
    empty = empty
    Oids = {big, empty}
    Size <- MCSize
    Handlers = {h1}
    Mirrors = {m1}
    Casts = {{h1, m1, big, empty}}
    BatchLimit = 3
    Absent = Absent
    None = None
PROPERTIES
    MissingAreStored
