CONSTANTS
    qa = qa
    qb = qb
    qc = qc
    fileAB = fileAB
    fileC = fileC
    Keys = {qb}
    Values = {qb}
    Paths = {fileAB}
    NoValue = NoValue
    PathOf <- MCPathOf
    Parts <- MCParts
    WritesFail = TRUE
    Callers = {p1, p2}
    Engines = 2
    MaxResults = 1
    PerEngine = 1
    MaxAttempts = 2
SPECIFICATION SearchFairSpec
INVARIANTS
    ShelfSound
    PiercedIsTrue
PROPERTIES
    SearchEnds
CHECK_DEADLOCK FALSE
