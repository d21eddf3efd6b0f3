\* Two clients, and enough calls to connect, reconnect and disconnect.
SPECIFICATION ManagerSpec
CONSTANTS
    Threads = {t1}
    Names = {n1, n2}
    Clients = {c1, c2}
    SDKServers = {s1}
    Handlers = {h1}
    MaxChanges = 3
INVARIANT AllDisconnected
CHECK_DEADLOCK FALSE
