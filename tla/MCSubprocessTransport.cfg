\* What the CLI prints, how it ends, and all the calls of the client, with a client
\* that reads.
SPECIFICATION MCServedSpec
CONSTANTS
    Writers = {w}
    Calls = {"closer", "ender"}
    MaxMessages = 2
    MaxStray = 1
    MaxStderr = 1
    MaxCalls = 3
    MaxBufferSize = 1
    MsgCap = 1
    ErrCap = 1
    PipeCap = 2
    StdinCap = 1
    MaxActivity = 3
INVARIANTS TypeOK NothingLost ExitRecordedFirst
PROPERTIES ImplementsMessageStream CloseEndsProcess ExitClosesChannels
CHECK_DEADLOCK FALSE
