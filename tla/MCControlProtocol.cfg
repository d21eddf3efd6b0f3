\* Concurrent calls, answers late, repeated and out of order, and messages and
\* control requests of the CLI between them.
SPECIFICATION MCSpec
CONSTANTS
    Callers = {a, b}
    MaxRequests = 3
    MaxEmit = 3
    MaxCallbacks = 2
    MaxTraffic = 3
    MsgCap = 2
    PipeCap = 1
    TimersFire = TRUE
SYMMETRY CallerSymmetry
INVARIANTS TypeOK OwnAnswer PendingExact PushNeverBlocks QueueKeepsNewest RepliedOnce
PROPERTY ImplementsRequestReply
CHECK_DEADLOCK FALSE
