CONSTANTS
    u1 = u1
    u2 = u2
    d = d
    None = None
    Uploads = {u1, u2}
    Downloads = {d}
    Worlds <- ThreeWorlds
    ByPath = {u1}
    MaxConcurrency = 1
    Permits = 1
    Retries = 1
    MaxPauses = 1

SPECIFICATION Spec
CHECK_DEADLOCK FALSE
INVARIANTS
    TypeOK
    TableIsExact
    CancelTakesEffect
    PauseHolds
    OneDocumentPerUpload
    LimitHolds
    BatchIsPublished
PROPERTIES
    TransfersEnd
    QueueDrains
