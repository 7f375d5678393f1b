CONSTANTS
    Folders = {d1, d2, d3}
    Files = {f1}
    Root = Root
    Names = {n1, n2}
    FolderPins = FALSE
    MoveUnderSelf = FALSE
    Keys = {k1, k2}
    Askers = {v1, v2}
    None = None
    ClientShapes <- ClientFrames
    ServerShapes <- ServerFrames
    FramesEach = 2
    MaxRecord = 4

SPECIFICATION PartsSpec
SYMMETRY FolderSymmetry
CHECK_DEADLOCK FALSE
INVARIANTS
    TypeOK
    IndexIsSound
    IndexIsComplete
    NoOrphan
    NoFolderInsideItself
    KeysAgree
PROPERTIES
    DeleteTakesTheSubtree
    TunnelKeepsFrames
