SPECIFICATION FairSpec
CONSTANTS
    p1 = p1
    p2 = p2
    worker = worker
    c1 = c1
    e1 = e1
    e2 = e2
    e3 = e3
    e4 = e4
    Pushers <- MCPushers
    Poppers <- MCPoppers
    Events <- MCEvents
    MaxPush = 2
    MaxPop = 1
    Capacity = 2
INVARIANTS
    WaitsExact
    PopperSleepsOnEmpty
    PusherSleepsNearFull
    OvershootBounded
PROPERTIES
    ImplementsBoundedQueue
