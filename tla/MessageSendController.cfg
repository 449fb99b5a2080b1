SPECIFICATION Spec
CONSTANTS
    r1 = r1
    r2 = r2
    r3 = r3
    a = a
    b = b
    pd = pd
    Receivers <- MCReceivers
    NameOf <- MCNameOf
    Names <- MCNames
    Pd = pd
    Lapsed = {}
    NOBODY = NOBODY
    MaxQueued = 2
    MaxDepth = 2
INVARIANT NamesOnce
PROPERTIES IndexIsConstant ReachesReceiversOfName
