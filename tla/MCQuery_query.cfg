\* One Query, whatever the CLI prints and however it or the context ends.
SPECIFICATION FairSpec
CONSTANTS
    MaxMessages = 2
    MaxStray = 0
    MaxStderr = 0
    MaxBufferSize = 1
    MsgCap = 1
    ErrCap = 1
    PipeCap = 1
    Cancels = TRUE
INVARIANTS ResultComplete NoProcessLeft
PROPERTY QueryReturns
CHECK_DEADLOCK FALSE
