\* A callback that calls methods, a CLI that may say nothing, session ids in the
\* answer and in messages, Errors() unread.
SPECIFICATION MCFairSpec
CONSTANTS
    Callers = {a, loop}
    MaxRequests = 2
    MaxEmit = 1
    MaxCallbacks = 1
    MsgCap = 1
    PipeCap = 1
    TimersFire = TRUE
    MaxOps = 2
    MaxErrors = 1
    ErrCap = 1
    Sessions = {s, t}
    Methods = {"connect", "interrupt", "send", "close"}
    CanUseTool = TRUE
    Loop = loop
PROPERTIES SessionIDStable MethodsReturn ConnectCompletes
CHECK_DEADLOCK FALSE
