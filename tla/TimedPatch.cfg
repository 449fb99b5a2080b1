SPECIFICATION Spec
CONSTANTS
    d1 = d1
    k1 = k1
    l1 = l1
    p1 = p1
    p2 = p2
    t1 = t1
    a1 = a1
    a2 = a2
    controller = controller
    m1 = m1
    m2 = m2
    m3 = m3
    m4 = m4
    Objects <- MCObjects
    DelayObjects <- MCDelayObjects
    DelayTimes = {0, 3}
    Metros <- MCMetros
    Intervals = {0, 3}
    Lines <- MCLines
    Values = {0, 3}
    RampDurations = {1, 3}
    Grains = {1, 2}
    Pipes <- MCPipes
    PipeDelays = {0, 2}
    Echo = TRUE
    MaxListed = 2
    Players <- MCPlayers
    Tables <- MCTables
    Starts = {0, 3}
    PlayDurations <- MCPlayDurations
    Lengths = {2, 4}
    Patches <- MCPatches
    SendController = controller
    Messages <- MCMessages
    NULL = NULL
    Outlets = {0, 1}
    BlockDuration = 2
    DirectTimes <- MCDirectTimes
    MaxBlocks = 2
    MaxExternal = 1
SYMMETRY MCSymmetry
INVARIANTS DueAfterLastBang OneTickAhead RampEndsAtTarget FirstInFirstOut BangWhenPlayed
PROPERTIES IsTimed ReadsInsideTable
