CONSTANTS
    Refusals = {"WrongPassword"}
    Evictions = {}
    Denials = {}
    RoomSizes = {1}
    MaxMembers = 1
SPECIFICATION FairSpec
PROPERTY LeaveFreesThread
