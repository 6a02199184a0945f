CONSTANTS
    a = a
    b = b
    c = c
    shared = shared
    own = own
    first = first
    second = second
    third = third
    NoOne = NoOne
    NoOrder = NoOrder
    Instances = {a, b, c}
    Wallets = {shared, own}
    wallet_fingerprint <- MCWallets
    Orders = {first, second, third}
    leg <- MCLegs
    reduce_only <- MCThirdReduces
    replaces <- MCSecondReplaces
    max_signal_age_ns = 2
    max_reconcile_attempts = 1
    MaxEpoch = 2
    MaxNonce = 2
    MaxClock = 3
    MaxClockOfPair = 2
SPECIFICATION PlanSpec
INVARIANTS
    TypeOK
    AtMostOnce
    OneLiveOrder
    FirstRetryIsReconciled
    SentIsRecorded
    OnlyEpochsConflict
SYMMETRY Symmetry
CHECK_DEADLOCK FALSE
