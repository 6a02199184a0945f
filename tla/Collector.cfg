CONSTANTS
    bbo = bbo
    book = book
    trades = trades
    Streams <- MCStreams
    Books = {book}
    window_start_ns = 2
    window_end_ns = 4
    MAX_EXPLAINED_GAP_NS = 1
    MAX_EXPLAINED_GAP_PERCENT = 2
    max_reconnects = 1
    MaxClock = 3
    MaxFaults = 2
SPECIFICATION Spec
INVARIANTS
    TypeOK
    VerifiedIsCurrent
    ReplayedIsCurrent
    LiveIsReplayed
    OutageIsAccounted
CHECK_DEADLOCK FALSE
