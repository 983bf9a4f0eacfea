CONSTANTS
    Refusals = {"WrongPassword"}
    Evictions = {}
    Denials = {}
    RoomSizes = {1}
    MaxMembers = 1
SPECIFICATION Spec
INVARIANT LeavingEndsWithCleanup
