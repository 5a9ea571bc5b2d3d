SPECIFICATION Spec
CONSTANTS
    Burns = {b1}
    Operators = {o1, o2, o3}
    Threshold = 2
    FirstSequence = 0
    NoTx = NoTx
    WriteIds = {1, 2}
    TimerIds = {1, 2}
    Sequences = {0}
    FaultKinds = {"crash", "evict", "cli", "mark", "db"}
    MaxFaults = 3
SYMMETRY Symmetry
INVARIANTS MintedOnce MintedByThreshold
CHECK_DEADLOCK FALSE
