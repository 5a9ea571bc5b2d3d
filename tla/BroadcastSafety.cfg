SPECIFICATION Spec
CONSTANTS
    Burns = {b1, b2}
    Operators = {o1, o2}
    Threshold = 2
    FirstSequence = 0
    NoTx = NoTx
    WriteIds = {1, 2}
    TimerIds = {1}
    Sequences = {0, 1}
    FaultKinds = {"crash", "run", "db", "cli", "evict", "stop"}
    MaxFaults = 2
SYMMETRY Symmetry
INVARIANTS TypeOK IInv ConfirmedIsMinted RecordedHashIsOwn
PROPERTY ImplementsQueue
CHECK_DEADLOCK FALSE
