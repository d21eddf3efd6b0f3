\* Close while the receive loop is handling a message.
SPECIFICATION Spec
CONSTANTS
    Callers = {a}
    MaxRequests = 2
    MaxEmit = 1
    MaxCallbacks = 0
    MsgCap = 1
    PipeCap = 1
    TimersFire = TRUE
    MaxOps = 2
    MaxErrors = 0
    ErrCap = 1
    Sessions = {s}
    Methods = {"connect", "close"}
    CanUseTool = FALSE
    Loop = loop
INVARIANT CloseIsClean
CHECK_DEADLOCK FALSE
