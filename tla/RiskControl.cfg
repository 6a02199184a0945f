CONSTANTS
    max_naked_ns = 1
    max_outstanding_ns = 1
    streak_threshold = 2
    MaxNow = 3
SPECIFICATION Spec
INVARIANTS
    TypeOK
    ClocksAreExact
    StreakIsExact
    ContinueIsSafe
    RiskIsAdmitted
CHECK_DEADLOCK FALSE
