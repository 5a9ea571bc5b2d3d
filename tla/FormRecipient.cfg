SPECIFICATION Spec
CONSTANTS
    Accounts = {a1}
    BurningAddress = dead
    Recipients = {r1, bad, NoRecipient}
    ValidRecipients = {r1}
    NoRecipient = NoRecipient
    InitialSupply = 1
    Width = 2
    Amounts = {1}
    MinAmount = 1
    MaxSubmissions = 1
    MaxQueries = 1
    FaultKinds = {}
    MaxFaults = 0
INVARIANT BurnsNameAnAddress
