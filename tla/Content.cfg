CONSTANTS
    None = None
    main = main
    dev = dev
    readme = readme
    src = src
    code = code
    Names = {main, dev}
    Preferred = {main}
    RefNames <- MCRefNames
    MaxChanges = 4
    MaxHookId = 3
    Urls = {"a", "b"}
    HookRows <- MCHookRows
    p1 = p1
    p2 = p2
    Procs = {p1, p2}
    Scenes = {"refs", "hooks"}
    MaxRequests <- MCMaxRequests
    Paths = {readme, src, code}
    FileOf <- MCFileOf
    DirectoryOf <- MCDirectoryOf
    PageSize = 1
    StartRefs <- MCStartRefs
    StartHooks <- MCStartHooks
SPECIFICATION Spec
CHECK_DEADLOCK FALSE
INVARIANTS TypeOK
PROPERTIES PushesKept HeadStands Announced HookAsAsked HistoryComplete
