SPECIFICATION FairSpec
CONSTANTS
    Burns = {b1, bad}
    Operators = {o1, o2}
    Threshold = 2
    Leader = leader
    NoBurn = NoBurn
    NoTx = NoTx
    Invalid = {bad}
    FirstSequence = 0
    WriteIds = {1}
    StartHeight = 1
    MaxHeight = 3
    MaxReorgDepth = 0
    NbConfirmations = 1
    FromBlock = 1
    FaultKinds = {"crash", "run"}
    MaxFaults = 1
INVARIANT NoBurnPassedOver
PROPERTY EventuallySigned
