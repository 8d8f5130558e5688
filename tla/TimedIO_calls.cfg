SPECIFICATION FairSpec
CONSTANTS
    reader = reader
    writer = writer
    Readers <- OneReader
    Writers <- OneWriter
    Waits <- MCWaits
    Forever = 3
    Sizes <- TwoBytes
    Room = 1
    Data = 1
    MaxSignals = 1
INVARIANTS
    SettingsComeBack
    TimeoutNotEarly
    DeadlineBound
    ResultsAreTrue
PROPERTIES
    CallsReturn
