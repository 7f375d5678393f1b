CONSTANTS
    First <- FirstTwo
    MaxId = 4
    Early = 1
    Recent = 1
    PinLimit = 2
    TagLimit = 2
    Updates = 2
    Reads = 1
    Crashes = 1
    Faults = {"upload", "fetch", "edit", "send", "pin", "unpin", "delete"}

SPECIFICATION Spec
CHECK_DEADLOCK FALSE
CONSTRAINT
    ReaderBounds
INVARIANTS
    TypeOK
    AckedIsKept
    OnePinned
    ReadIsFresh
PROPERTIES
    ManifestSurvives
    ActsAsRegister
