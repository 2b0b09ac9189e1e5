SPECIFICATION FairSpec
CONSTANTS
    Item = {a1, a2}
    Consumer = {c1, c2, c3}
    None = None
    MaxTimers = 2
INVARIANTS
    TypeOK
    QueueIsDirtyAndFree
    NoLostWakeup
PROPERTIES
    AddedIsTaken
    DelayedIsAdded
    ConsumersExit
    ImplementsPool
