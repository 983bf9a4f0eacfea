CONSTANTS
    Refusals = {"WrongPassword"}
    Evictions = {"HostKicked"}
    Denials = {"PermissionDenied"}
    RoomSizes = {2}
    MaxMembers = 1
SPECIFICATION FairSpec
INVARIANTS
    TypeOK
    SnapshotIsTrue
    EveryFailureExplained
    ThreadsAreOwned
    SocketIsSafe
PROPERTIES
    ImplementsApi
    CancelEndsSession
    JoiningResolves
