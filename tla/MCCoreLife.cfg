CONSTANTS
    Experiments = {FALSE, TRUE}
    Renderers = {"OpenGL", "Vulkan", "Software"}
    MaxDialogs = 2
SPECIFICATION KeyboardSpec
INVARIANTS
    RoomNeedsCore
    FrameNeedsSystem
    FramesKeepTime
    JoiningIsWatched
    RequestHasDialog
PROPERTIES
    AnswerIsForRequest
