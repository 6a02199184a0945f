CONSTANTS
    BootIds <- MCBootIds
    Sequences <- MCSequences
    HOUR_NS = 2
    MaxClock = 4
    MaxEvents = 3
    MaxWriters = 2
    MaxFailures = 1
SPECIFICATION Spec
INVARIANTS
    TypeOK
    ListedIsIntact
    ReplayIsFaithful
    RefusalIsExplained
CHECK_DEADLOCK FALSE
