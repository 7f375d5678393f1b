CONSTANTS
    Folders = {d1, d2}
    Files = {1}
    Root = Root
    Names = {n1}
    Tasks = {t1}
    Calls = {"mkcol", "davdelete"}
    FlushLimit = 3
    MaxCalls = 4
    MaxCrashes = 0
    Faults = {}
    ScanReach = 1
    LoadAlone = FALSE

SPECIFICATION FairSpec
CHECK_DEADLOCK FALSE
PROPERTIES
    IdleChangesArePublished
