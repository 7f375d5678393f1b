CONSTANTS
    Folders = {d1}
    Files = {1}
    Root = Root
    Names = {n1}
    Tasks = {t1, t2}
    Calls = {"folder", "mkcol", "edit", "delete", "upload", "flush", "load"}
    FlushLimit = 2
    MaxCalls = 4
    MaxCrashes = 1
    Faults = {}
    ScanReach = 0
    LoadAlone = TRUE

SPECIFICATION Spec
CHECK_DEADLOCK FALSE
SYMMETRY TaskSymmetry
PROPERTIES
    VersionsGrow
