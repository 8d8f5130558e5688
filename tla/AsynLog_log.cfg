SPECIFICATION LogFairSpec
CONSTANTS
    t1 = t1
    t2 = t2
    a = a
    b = b
    Loggers <- TwoLoggers
    Lines <- TwoLines
    MaxLines = 3
INVARIANTS
    LinesInOrder
    WriterSleepsOnEmpty
    MutexLostOnlyByStop
PROPERTIES
    LinesAreWritten
    LoggersReturn
CHECK_DEADLOCK FALSE
