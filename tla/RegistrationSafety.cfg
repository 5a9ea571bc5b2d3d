SPECIFICATION Spec
CONSTANTS
    Burns = {b1, b2, bad}
    Operators = {o1}
    Threshold = 1
    Leader = leader
    NoBurn = NoBurn
    NoTx = NoTx
    Invalid = {bad}
    FirstSequence = 0
    WriteIds = {1}
    StartHeight = 1
    MaxHeight = 4
    MaxReorgDepth = 1
    NbConfirmations = 1
    FromBlock = 1
    FaultKinds = {"reorg", "crash", "db", "cli", "run", "stop"}
    MaxFaults = 1
SYMMETRY Symmetry
INVARIANTS TypeOK IInv SignedIsFinal UniqueSequences NoGaps
