SPECIFICATION FairSpec
CONSTANTS
    delay = delay
    pipe = pipe
    controller = controller
    m1 = m1
    m2 = m2
    m3 = m3
    Objects <- MCObjects
    Trackers <- MCTrackers
    SendController = controller
    Messages <- MCMessages
    NULL = NULL
    Outlets = {0, 1}
    TimedOutlet <- MCTimedOutlet
    BlockDuration = 2
    Delays = {0, 1, 3}
    DirectTimes <- MCDirectTimes
    MaxBlocks = 2
    MaxExternal = 2
INVARIANTS TypeOK HeapIsQueuePlusInFlight HeldIsQueued QueueOrdered DeliveredInOrder DispatchedFirst
PROPERTIES NothingDueIsLeft LoopEnds
