CONSTANTS
    a = a
    b = b
    shared = shared
    NoOne = NoOne
    Instances = {a, b}
    Wallets = {a, b}
    wallet_fingerprint <- MCOwnWallets
    Actions <- MCActions
    MaxFiles = 2
    MaxEpoch = 2
    MaxFaults = 2
SPECIFICATION Spec
INVARIANTS
    SoleRiskWriter
SYMMETRY Symmetry
CHECK_DEADLOCK FALSE
