\* A close while answers are on their way.
SPECIFICATION FairSpec
CONSTANTS
    Callers = {a, b}
    MaxRequests = 2
    MaxStreamRequests = 2
    MaxStray = 2
    PipeCap = 1
    Types = {"stdio"}
    Sessions = {s}
    MsgCap = 1
    MaxCloses = 1
PROPERTY CloseDisconnects
CHECK_DEADLOCK FALSE
