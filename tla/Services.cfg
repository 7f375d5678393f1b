CONSTANTS
    None = None
    Users = {a, b}
    Channels = {c1}
    Tasks = {t1, t2}
    Commands = {"login", "status", "switch", "remove", "logout", "check", "reconnect",
                "drives", "create", "link", "adopt", "delete", "prune"}
    Callers = {l1}
    Budget = 2
    Profiles = {p, q}
    Versions = {1}
    Settlers = {s1, s2}
    ClientShapes <- ClientFrames
    ServerShapes <- ServerFrames
    FramesEach = 1
    MaxRecord = 4
    Documents = {d1, d2, d3, d4}
    MaxHistory = 2
    MaxRestores = 2
    PlainChunk = 2
    Tag = 1
    Part = 4
    Slack = 3
    MaxSize = 5
    Names = {n1}
    Contents = {h1, h2}
    Triggers = {g1, g2}
    Openers = {o1, o2}
    Listeners = {1, 2}
    Ports = {1, 2}
    Span = 1
    MaxForeign = 1
    Keys = {k1, k2}

SPECIFICATION NamedSpec
CHECK_DEADLOCK FALSE
INVARIANTS
    TypeOK
    SessionIsConsistent
    ProxyFollowsSettings
    HistoryKeepsTen
    ReadsWhatWasWritten
    SyncIsExact
    ListenerIsShown
PROPERTIES
    DriveKept
    CommandsEnd
