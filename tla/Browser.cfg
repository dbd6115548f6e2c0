CONSTANTS
    None = None
    r1 = r1
    r2 = r2
    empty = empty
    main = main
    dev = dev
    Repos = {r1, r2, empty}
    BranchesOf <- MCBranchesOf
    Directories <- MCDirectories
    Files <- MCFiles
    Binary <- MCBinary
    Count <- MCCount
    Stashes = {0, 1}
    Layouts <- MCLayouts
    MaxFaults = 1
SPECIFICATION Spec
INVARIANTS ShownIsCurrent
