CONSTANTS
    Folders = {d1}
    Files = {1}
    Root = Root
    Names = {n1}
    Tasks = {t1, t2}
    Calls = {"folder", "edit", "upload", "flush", "load"}
    FlushLimit = 2
    MaxCalls = 4
    MaxCrashes = 0
    Faults = {}
    ScanReach = 1
    LoadAlone = TRUE

SPECIFICATION Spec
CHECK_DEADLOCK FALSE
INVARIANTS
    TreeAndCacheAgree
