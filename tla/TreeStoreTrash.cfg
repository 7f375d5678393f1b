CONSTANTS
    Folders = {d1, d2, d3}
    Files = {f1}
    Root = Root
    Names = {n1, n2}
    FolderPins = TRUE
    MoveUnderSelf = FALSE

SPECIFICATION Spec
SYMMETRY FolderSymmetry
CHECK_DEADLOCK FALSE
PROPERTIES
    TrashKeepsTheNode
