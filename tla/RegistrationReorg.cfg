SPECIFICATION FairSpec
CONSTANTS
    Burns = {b1, b2}
    Operators = {o1}
    Threshold = 1
    Leader = leader
    NoBurn = NoBurn
    NoTx = NoTx
    Invalid = {}
    FirstSequence = 0
    WriteIds = {1}
    StartHeight = 1
    MaxHeight = 4
    MaxReorgDepth = 1
    NbConfirmations = 1
    FromBlock = 1
    FaultKinds = {"reorg"}
    MaxFaults = 1
PROPERTY YieldsEachEvent
