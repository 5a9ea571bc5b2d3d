SPECIFICATION FairSpec
CONSTANTS
    Accounts = {a1}
    BurningAddress = dead
    Recipients = {r1, NoRecipient}
    ValidRecipients = {r1}
    NoRecipient = NoRecipient
    InitialSupply = 2
    Width = 2
    Amounts = {1}
    MinAmount = 1
    MaxSubmissions = 2
    MaxQueries = 1
    FaultKinds = {"burn", "deny"}
    MaxFaults = 2
INVARIANTS NoncesInTurn TokensAccounted LoadingIsOwed
PROPERTY FormFreed
