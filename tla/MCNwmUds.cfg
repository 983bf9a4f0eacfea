CONSTANTS
    Consoles = {h, a, b}
    Hosts = {h, a}
    MaxNodes = 3
    MaxCalls = 4
SPECIFICATION Spec
INVARIANTS
    HostBooksAgree
    SlotHasOwner
    ClientsKnowAllNodes
SYMMETRY ConsoleSymmetry
CHECK_DEADLOCK FALSE
