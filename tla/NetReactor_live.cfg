SPECIFICATION FairSpec
CONSTANTS
    c1 = c1
    c2 = c2
    w1 = w1
    w2 = w2
    Listener = Listener
    Disp = Disp
    None = None
    Conns <- TwoConns
    Cancelable = {}
    Losable <- OneConn
    Workers = {w1}
    QueueCap = 1
    MaxBacklog = 1
    MaxInbox = 2
    SndBuf = 1
PROPERTIES
    ImplementsLineServer
CHECK_DEADLOCK FALSE
