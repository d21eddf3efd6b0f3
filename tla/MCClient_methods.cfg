\* Connect, Interrupt, Send, SendToolResult and Close of two goroutines, answers and errors of
\* every kind.
SPECIFICATION MCSpec
CONSTANTS
    Callers = {a, b}
    MaxRequests = 3
    MaxEmit = 0
    MaxCallbacks = 0
    MsgCap = 1
    PipeCap = 1
    TimersFire = TRUE
    MaxOps = 3
    MaxErrors = 2
    ErrCap = 1
    Sessions = {s, t}
    Methods = {"connect", "interrupt", "send", "tool_result", "close"}
    CanUseTool = FALSE
    Loop = loop
SYMMETRY CallerSymmetry
INVARIANTS TypeOK InitializeAlone CloseIsLast
CHECK_DEADLOCK FALSE
