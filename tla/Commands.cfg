SPECIFICATION FairSpec
CONSTANTS
    Burns = {b1, b2}
    MaxCalls = 2
    MaxPrompts = 1
    FaultKinds = {"cli", "file", "crash"}
    MaxFaults = 2
INVARIANTS TypeOK ReadsOwnOutput ExitsAreDue
PROPERTIES CallsEnd ShellsEnd
CHECK_DEADLOCK FALSE
