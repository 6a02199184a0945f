CONSTANTS
    a = a
    b = b
    NoOne = NoOne
    Instances = {a, b}
    max_gap = 1
    interval = 1
    MaxDelay = 1
    MaxFiles = 2
    MaxEpoch = 2
SPECIFICATION Spec
INVARIANTS
    TypeOK
    SilenceIsNoticed
PROPERTIES
    HealthyIsSpared
    AbandonedIsCancelled
CHECK_DEADLOCK FALSE
