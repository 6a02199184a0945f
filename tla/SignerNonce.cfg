CONSTANTS
    a = a
    b = b
    NoOne = NoOne
    Instances = {a, b}
    DAY = 3
    MaxFiles = 2
    MaxNow = 2
    MaxFaults = 2
SPECIFICATION Spec
INVARIANTS
    TypeOK
    NoncesAscend
    ForkIsDetected
    NoFalseConflict
PROPERTIES
    FreezeIsFinal
SYMMETRY Symmetry
CHECK_DEADLOCK FALSE
