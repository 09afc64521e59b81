CONSTANTS
    b1 = b1
    p1 = p1
    p2 = p2
    r1 = r1
    Calls = {b1, p1, p2}
    Roots = {r1}
    RootOf <- MCRootOf
    Tool <- MCTool
    Together <- MCTogether
    MaxBytes <- MCMaxBytes
    Leaves <- MCLeaves
    CapBytes = 6
    MaxRunes = 1
    MaxRuns = 1
    MaxEdits = 1
    MaxRemovals = 1
    MaxRestarts = 1
SPECIFICATION FairSpec
INVARIANTS
    OutputSound
    ProcessesSound
    EnvironmentSound
PROPERTIES
    NobodyHangs
CHECK_DEADLOCK FALSE
