CONSTANTS
    Ids = {a, b}
    Teams = {t1}
    TeamSize = 1
    Asked = {"pending", "completed"}
    Edits <- OneEdge
    StoreFails = TRUE
SYMMETRY Symmetry
SPECIFICATION Spec
INVARIANTS
    GraphSound
PROPERTIES
    StatusForward
    EdgesKept
CHECK_DEADLOCK FALSE
