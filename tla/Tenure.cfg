CONSTANTS
    Size <- MCSize
    interval_ms = 1
    HL_SCHEDULE_MIN_LEAD_MS = 1
    horizon_ms = 2
    MaxSends = 1
SPECIFICATION Spec
INVARIANTS
    TypeOK
    
    StoppedIsFlat
    AbandonedIsCancelled
CHECK_DEADLOCK FALSE
