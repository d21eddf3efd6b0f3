\* An orderly exit right after the last message.
SPECIFICATION MCSpec
CONSTANTS
    Writers = {}
    Calls = {}
    MaxMessages = 2
    MaxStray = 0
    MaxStderr = 0
    MaxCalls = 0
    MaxBufferSize = 1
    MsgCap = 1
    ErrCap = 1
    PipeCap = 2
    StdinCap = 1
    MaxActivity = 2
INVARIANT OutputOutlivesProcess
CHECK_DEADLOCK FALSE
