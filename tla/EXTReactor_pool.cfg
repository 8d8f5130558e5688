SPECIFICATION FairSpec
CONSTANTS
    w1 = w1
    w2 = w2
    p1 = p1
    e1 = e1
    e2 = e2
    e3 = e3
    e4 = e4
    Main = Main
    None = None
    Workers <- TwoWorkers
    Producers <- MainAndProducer
    Events <- FourEvents
    Reusable <- TwoEvents
    Cancelable <- OneEvent
    Capacity = 2
INVARIANTS
    EventHeldOnce
    RepostsBlockOnlyWhenOverfull
    StopsWhenEmpty
PROPERTIES
    JoinReturnsOrStarves
    EventsAreRun
CHECK_DEADLOCK FALSE
