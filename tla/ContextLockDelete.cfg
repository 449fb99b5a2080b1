SPECIFICATION Spec
CONSTANTS
    c1 = c1
    c2 = c2
    g1 = g1
    g2 = g2
    Audio = audio
    NOBODY = NOBODY
    Controls <- MCControls
    Graphs <- MCGraphs
    OwnerOf <- MCOwnerOf
    HostCalls = {"attach", "delete", "edit", "control", "create"}
    MaxDepth = 2
    MaxNested = 1
    MaxListed = 3
INVARIANT DeletedIsRemoved
