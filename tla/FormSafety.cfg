SPECIFICATION Spec
CONSTANTS
    Accounts = {a1, a2}
    BurningAddress = dead
    Recipients = {r1, NoRecipient}
    ValidRecipients = {r1}
    NoRecipient = NoRecipient
    InitialSupply = 2
    Width = 2
    Amounts = {1}
    MinAmount = 1
    MaxSubmissions = 2
    MaxQueries = 1
    FaultKinds = {"deny", "balance", "pause", "allowance", "transfer"}
    MaxFaults = 1
SYMMETRY Symmetry
INVARIANTS TypeOK BurntAsSubmitted AllowanceSubmitted
