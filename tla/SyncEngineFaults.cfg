CONSTANTS
    Folders = {d1}
    Files = {1}
    Root = Root
    Names = {n1}
    Tasks = {t1, t2}
    Calls = {"folder", "mkcol", "edit", "pin", "delete", "davdelete", "empty", "upload", "flush", "load", "touch", "unload", "davmove"}
    FlushLimit = 2
    MaxCalls = 3
    MaxCrashes = 0
    Faults = {"upload", "caption", "delete", "flush", "fetch", "scan", "publish"}
    ScanReach = 0
    LoadAlone = FALSE

SPECIFICATION FairSpec
CHECK_DEADLOCK FALSE
INVARIANTS
    TypeOK
    NoFileWithoutDocument
PROPERTIES
    CallsEnd
