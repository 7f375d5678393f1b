CONSTANTS
    Folders = {d1}
    Files = {1, 2}
    Root = Root
    Names = {n1}
    Tasks = {t1}
    Calls = {"upload", "flush", "load"}
    FlushLimit = 2
    MaxCalls = 6
    MaxCrashes = 1
    Faults = {"fetch"}
    ScanReach = 1
    LoadAlone = TRUE

SPECIFICATION Spec
CHECK_DEADLOCK FALSE
PROPERTIES
    PublishedFilesStay
