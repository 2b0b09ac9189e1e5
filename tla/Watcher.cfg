SPECIFICATION FairSpec
CONSTANTS
    Stopper = {s1, s2}
    Cap = 2
    MaxLines = 4
INVARIANTS
    TypeOK
    NoSendToClosed
PROPERTIES
    StopReturns
    WatcherEnds
    ImplementsStream
