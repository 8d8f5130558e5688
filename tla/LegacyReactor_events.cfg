SPECIFICATION Spec
CONSTANTS
    fd1 = fd1
    w1 = w1
    w2 = w2
    Acceptor = Acceptor
    Main = Main
    NULL = NULL
    Fds <- OneFd
    Workers <- TwoWorkers
    Losable <- OneFd
    Events <- MCEvents
SYMMETRY Symmetry
CHECK_DEADLOCK FALSE
INVARIANTS
    OneTaskEach
    InterestAgrees
    CountMatches
    ActiveIsHeld
