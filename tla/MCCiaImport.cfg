SPECIFICATION ImportSpec
CONSTANTS
    Callers = {v, w}
    Worker = w
    MaxConfirms = 2
INVARIANTS
    LiveTitleWhole
    ResultIsTrue
    SettingsRestored
    ImportExcludesGame
PROPERTIES
    PriorKept
    CancelSticks
    ImportEnds
