CONSTANTS
    Consoles = {h, a, b}
    Hosts = {h}
    MaxNodes = 2
    MaxCalls = 3
SPECIFICATION Spec
INVARIANT FullNetworkRefuses
CHECK_DEADLOCK FALSE
