CONSTANTS
    None = None
    Users = {a, b}
    Channels = {c1}
    Tasks = {t1, t2}
    Commands = {"drives", "switch"}

SPECIFICATION AccountSpec
CHECK_DEADLOCK FALSE
INVARIANTS
    DriveListIsSaved
