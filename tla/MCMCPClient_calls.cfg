\* Two goroutines call tools, one of them closes; a server that may do anything, behind
\* each of the transports.
SPECIFICATION FairSpec
CONSTANTS
    Callers = {a, b}
    MaxRequests = 3
    MaxStreamRequests = 2
    MaxStray = 1
    PipeCap = 1
    Types = {"stdio", "http", "sse"}
    Sessions = {s}
    MsgCap = 1
    MaxCloses = 1
INVARIANTS TypeOK PendingExact NoServerLeft SessionCarried
PROPERTIES ImplementsRequestReply ImplementsConnection CallsReturn StreamEnds
CHECK_DEADLOCK FALSE
