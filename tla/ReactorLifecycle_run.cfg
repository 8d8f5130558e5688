SPECIFICATION FairSpec
CONSTANTS
    e1 = e1
    e2 = e2
    e3 = e3
    w1 = w1
    w2 = w2
    Listener = Listener
    None = None
    Posted <- ThreeEvents
    Cpu = {e3}
    Workers <- TwoWorkers
INVARIANTS
    PostsAreKept
PROPERTIES
    ListenerIsServed
CHECK_DEADLOCK FALSE
