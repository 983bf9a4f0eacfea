SPECIFICATION LoopSpec
CONSTANTS
    KeySets = {{}, {"pause"}, {"start"}, {"advance"}, {"rewind"}, {"ff"}, {"ffhold"}, {"pause", "ffhold"}, {"rewind", "ff"}, {"slow"}, {"slowhold"}, {"plus"}, {"minus"}, {"menu"}, {"quit"}}
    LastSlot = 1
    MaxEvents = 3
INVARIANTS
    SpeedEnds
PROPERTIES
    CoreRests
    ShutdownIsTaken
CHECK_DEADLOCK FALSE
