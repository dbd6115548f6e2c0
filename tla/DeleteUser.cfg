SPECIFICATION Spec
CONSTANTS
    ua = ua
    ub = ub
    r1 = r1
    r2 = r2
    ka = ka
    kb = kb
    kc = kc
    p1 = p1
    p2 = p2
    x = x
    y = y
    UserNames = {ua, ub}
    RepoNames = {r1, r2}
    Keys = {ka, kb, kc}
    AdminKeys = {kc}
    Paths = {x, y}
    None = None
    Procs = {p1}
    MaxUserId = 3
    MaxTokenId = 1
    MaxRepoId = 2
    MaxLockId = 3
    MaxRequests <- MCMaxRequests
    PageLimit = 1
    Second <- MCSecond
    Scenes = {"accounts"}
    Start <- MCStart
CHECK_DEADLOCK FALSE
PROPERTIES
    UserDeletionWorks
