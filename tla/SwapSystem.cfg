SPECIFICATION SwapFairSpec
CONSTANTS
    Burns = {b1}
    Operators = {o1}
    Threshold = 1
    Leader = leader
    NoBurn = NoBurn
    NoTx = NoTx
    Invalid = {}
    FirstSequence = 0
    WriteIds = {1}
    TimerIds = {1}
    Sequences = {0, 1, 2}
    StartHeight = 1
    MaxHeight = 3
    MaxReorgDepth = 0
    NbConfirmations = 1
    FromBlock = 1
    FaultKinds = {"crash", "run", "stop"}
    BroadcastFaultKinds = {"crash", "run", "cli", "db", "evict"}
    MaxFaults = 1
INVARIANTS MintedIsBurnt SwapIInv NoBurnPassedOver
PROPERTIES ImplementsBridge ImplementsBroadcast ImplementsRegistration EventuallyMinted
CHECK_DEADLOCK FALSE
