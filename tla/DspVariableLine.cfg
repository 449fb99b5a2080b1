SPECIFICATION Spec
CONSTANTS
    Objects = {v1, v2, controller}
    VLines = {v1, v2}
    LineDelays = {0, 1, 3}
    SendController = controller
    Messages = {m1, m2, m3}
    NULL = NULL
    Outlets = {0}
    BlockDuration = 2
    DirectTimes = {0, 1, 2}
    MaxBlocks = 2
    MaxExternal = 1
    MaxRequests = 3
INVARIANT ListIsItsCourse
