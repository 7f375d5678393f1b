CONSTANTS
    Folders = {d1, d2}
    Files = {1}
    Root = Root
    Names = {n1}
    Tasks = {t1}
    Calls = {"folder", "mkcol", "edit", "delete", "davdelete", "empty", "upload", "flush", "load", "touch"}
    FlushLimit = 2
    MaxCalls = 5
    MaxCrashes = 1
    Faults = {"fetch", "flush"}
    ScanReach = 1
    LoadAlone = TRUE

SPECIFICATION Spec
CHECK_DEADLOCK FALSE
INVARIANTS
    TreeAndCacheAgree
    ManifestUpToDate
    CaptionsAgree
PROPERTIES
    PublishedFilesStay
