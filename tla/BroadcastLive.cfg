SPECIFICATION FairSpec
CONSTANTS
    Burns = {b1, b2}
    Operators = {o1}
    Threshold = 1
    FirstSequence = 0
    NoTx = NoTx
    WriteIds = {1, 2}
    TimerIds = {1}
    Sequences = {0, 1}
    FaultKinds = {"crash", "evict"}
    MaxFaults = 2
PROPERTY EventuallyConfirmed
