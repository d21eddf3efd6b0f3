------------------------------- MODULE MCPManager -------------------------------
(***************************************************************************)
(* internal/mcp/external.go (Manager) and internal/mcp/server.go (the      *)
(* in-process SDKMCPServer): the maps of configured servers, SDK servers   *)
(* and connected clients, and the tools of each SDK server, used by any    *)
(* number of goroutines.  A client is what Connection says of it, which    *)
(* MCPClient implements.                                                   *)
(*                                                                         *)
(* Sections under Manager.mu or SDKMCPServer.mu are short: each is one     *)
(* step.  AddExternalServer and AddSDKServer write a map without the lock, *)
(* and the readers of these maps do not need it either: the Go runtime may *)
(* end the program when it notices a reader or writer during a write.      *)
(***************************************************************************)
EXTENDS Naturals, FiniteSets

CONSTANTS
    Threads,        \* goroutines that use the manager
    Names,          \* server names
    Clients,        \* bound: the MCPClients ConnectServer may make
    SDKServers,
    Handlers,       \* handlers of a tool; all tools of one name
    MaxChanges      \* bound: calls that change the manager or a server's tools

None == "none"
NilHandler == "nil handler"
NilServer == "nil server"

ManagerAssumption ==
    /\ {None, NilHandler, NilServer} \cap (Names \cup Clients \cup SDKServers \cup Handlers) = {}
    /\ MaxChanges \in Nat

VARIABLES
    conn,           \* of Connection
    servers,        \* Manager.servers: what each configuration is to ConnectServer
    sdkServers,     \* Manager.sdkServers
    clients,        \* Manager.clients
    tools,          \* SDKMCPServer.tools: the handler of the tool; NilServer for a nil one
    thread,         \* each goroutine: its call and where it is
    todo,           \* clients each goroutine has taken out and not closed yet
    took,           \* all that it has taken out in its call: a history
    seen,           \* what it could have seen during its call: a history
    replaced,       \* clients another one was stored over: a history
    changes,
    crashed

C == INSTANCE Connection

histories == <<took, seen, replaced>>
managerVars == <<conn, servers, sdkServers, clients, tools, thread, todo, histories, changes, crashed>>

Idle == [op |-> "none", pc |-> "idle", name |-> None, client |-> None, sdk |-> None, tool |-> None]
ServerTypes == {None, "supported", "nil"}    \* None: no configuration, or of no known type
ToolStates == Handlers \cup {NilHandler, None, NilServer}

\* The servers are configured before the goroutines start, or later.
ManagerInit ==
    /\ C!Init
    /\ servers \in [Names -> ServerTypes]
    /\ sdkServers \in [Names -> SDKServers \cup {None}]
    /\ clients = [n \in Names |-> None]
    /\ tools \in [SDKServers -> ToolStates]
    /\ thread = [t \in Threads |-> Idle]
    /\ todo = [t \in Threads |-> {}]
    /\ took = [t \in Threads |-> {}]
    /\ seen = [t \in Threads |-> {}]
    /\ replaced = {}
    /\ changes = 0
    /\ crashed = FALSE

-----------------------------------------------------------------------------
At(t, op, pc) == thread[t].op = op /\ thread[t].pc = pc
Become(t, r) == thread' = [thread EXCEPT ![t] = r]
Goto(t, pc) == Become(t, [thread[t] EXCEPT !.pc = pc])

\* What a caller asking for server n can see at one moment.
View(n) == [sdk |-> sdkServers[n], client |-> clients[n], tools |-> tools]

\* A change is seen by the calls of CallTool in progress.
Seen ==
    seen' = [t \in Threads |->
                IF thread[t].op = "call" THEN seen[t] \cup {View(thread[t].name)'} ELSE seen[t]]

Change ==
    /\ changes < MaxChanges
    /\ changes' = changes + 1

\* An access to a map that another goroutine is writing without the lock.
Access(t, adder) ==
    \/ crashed' = FALSE
    \/ crashed' = TRUE /\ \E u \in Threads \ {t} : At(u, adder, "write")

-----------------------------------------------------------------------------
(* AddExternalServer and AddSDKServer: the write of the map takes time *)

Add(t, adder, n, s) ==
    /\ At(t, "none", "idle") /\ Change
    /\ Access(t, adder)
    /\ Become(t, [Idle EXCEPT !.op = adder, !.pc = "write", !.name = n, !.sdk = s])
    /\ UNCHANGED <<conn, servers, sdkServers, clients, tools, todo, histories>>

AddExternalServer(t) ==
    /\ At(t, "addServer", "write")
    /\ servers' \in {[servers EXCEPT ![thread[t].name] = c] : c \in ServerTypes}
    /\ Become(t, Idle)
    /\ UNCHANGED <<conn, sdkServers, clients, tools, todo, histories, changes, crashed>>

AddSDKServer(t) ==
    /\ At(t, "addSDK", "write")
    /\ sdkServers' = [sdkServers EXCEPT ![thread[t].name] = thread[t].sdk]
    /\ Become(t, Idle)
    /\ UNCHANGED <<conn, servers, clients, tools, todo, took, replaced, changes, crashed>>
    /\ Seen

-----------------------------------------------------------------------------
(* ConnectServer *)

Fresh == {c \in Clients : conn[c] = "new" /\ \A t \in Threads : thread[t].client # c}

\* The configuration is looked up; the client is made and connected without
\* the lock.  For any other name or type the call returns its error.
LookUpServer(t, n) ==
    /\ At(t, "none", "idle") /\ Change
    /\ Access(t, "addServer")
    /\ servers[n] = "supported"
    /\ Fresh # {}
    /\ Become(t, [Idle EXCEPT !.op = "connect", !.pc = "begin", !.name = n,
                              !.client = CHOOSE c \in Fresh : TRUE])
    /\ UNCHANGED <<conn, servers, sdkServers, clients, tools, todo, histories>>

\* The type of a configuration that is nil is asked for all the same.
NilConfiguration(t, n) ==
    /\ At(t, "none", "idle") /\ Change
    /\ servers[n] = "nil"
    /\ crashed' = TRUE
    /\ UNCHANGED <<conn, servers, sdkServers, clients, tools, thread, todo, histories>>

onlyClient == <<servers, sdkServers, clients, tools, todo, histories, changes, crashed>>

ConnectBegins(t) ==
    /\ At(t, "connect", "begin")
    /\ C!Begin(thread[t].client)
    /\ Goto(t, "handshake")
    /\ UNCHANGED onlyClient

ConnectSucceeds(t) ==
    /\ At(t, "connect", "handshake")
    /\ C!Succeed(thread[t].client)
    /\ Goto(t, "store")
    /\ UNCHANGED onlyClient

ConnectFails(t) ==
    /\ At(t, "connect", "begin") \/ At(t, "connect", "handshake")
    /\ C!Fail(thread[t].client)
    /\ Become(t, Idle)
    /\ UNCHANGED onlyClient

\* Mutant: a name that has a client keeps it, and the new one is dropped.
StoreClientOnce(t) ==
    /\ At(t, "connect", "store")
    /\ LET n == thread[t].name
       IN  clients' = IF clients[n] = None THEN [clients EXCEPT ![n] = thread[t].client] ELSE clients
    /\ Become(t, Idle)
    /\ UNCHANGED <<conn, servers, sdkServers, tools, todo, took, replaced, changes, crashed>>
    /\ Seen

\* Whatever was stored under the name is forgotten.
StoreClient(t) ==
    /\ At(t, "connect", "store")
    /\ clients' = [clients EXCEPT ![thread[t].name] = thread[t].client]
    /\ replaced' = replaced \cup ({clients[thread[t].name]} \ {None})
    /\ Become(t, Idle)
    /\ UNCHANGED <<conn, servers, sdkServers, tools, todo, took, changes, crashed>>
    /\ Seen

-----------------------------------------------------------------------------
(* DisconnectServer, DisconnectAll, and Close on a client from GetClient *)

Take(t, op, taken) ==
    /\ Become(t, [Idle EXCEPT !.op = op, !.pc = "next"])
    /\ todo' = [todo EXCEPT ![t] = taken]
    /\ took' = [took EXCEPT ![t] = taken]

\* For a name without a client the call returns its error.
DisconnectServer(t, n) ==
    /\ At(t, "none", "idle") /\ Change
    /\ clients[n] # None
    /\ clients' = [clients EXCEPT ![n] = None]
    /\ Take(t, "disconnect", {clients[n]})
    /\ UNCHANGED <<conn, servers, sdkServers, tools, replaced, crashed>>
    /\ Seen

DisconnectAll(t) ==
    /\ At(t, "none", "idle") /\ Change
    /\ clients' = [n \in Names |-> None]
    /\ Take(t, "disconnectAll", {clients[n] : n \in Names} \ {None})
    /\ UNCHANGED <<conn, servers, sdkServers, tools, replaced, crashed>>
    /\ Seen

GetClientAndClose(t, n) ==
    /\ At(t, "none", "idle") /\ Change
    /\ clients[n] # None
    /\ Take(t, "user", {clients[n]})
    /\ UNCHANGED <<conn, servers, sdkServers, clients, tools, seen, replaced, crashed>>

CloseBegins(t, c) ==
    /\ thread[t].pc = "next" /\ c \in todo[t]
    /\ C!CloseBegins(c)
    /\ Become(t, [thread[t] EXCEPT !.pc = "closing", !.client = c])
    /\ UNCHANGED <<servers, sdkServers, clients, tools, todo, histories, changes, crashed>>

\* Close of a client that is not connected; while another goroutine closes it,
\* it waits for the client's mutex.
CloseSkipped(t, c) ==
    /\ thread[t].pc = "next" /\ c \in todo[t]
    /\ conn[c] \in {"failed", "closed"}
    /\ todo' = [todo EXCEPT ![t] = @ \ {c}]
    /\ UNCHANGED <<conn, servers, sdkServers, clients, tools, thread, histories, changes, crashed>>

\* Mutant: the first Close that fails is the last.
CloseEndsAtError(t) ==
    /\ thread[t].pc = "closing"
    /\ C!CloseEnds(thread[t].client)
    /\ todo' \in {[todo EXCEPT ![t] = @ \ {thread[t].client}], [todo EXCEPT ![t] = {}]}
    /\ Become(t, [thread[t] EXCEPT !.pc = "next", !.client = None])
    /\ UNCHANGED <<servers, sdkServers, clients, tools, histories, changes, crashed>>

\* An error of Close is kept for the caller, and the loop goes on.
CloseEnds(t) ==
    /\ thread[t].pc = "closing"
    /\ C!CloseEnds(thread[t].client)
    /\ todo' = [todo EXCEPT ![t] = @ \ {thread[t].client}]
    /\ Become(t, [thread[t] EXCEPT !.pc = "next", !.client = None])
    /\ UNCHANGED <<servers, sdkServers, clients, tools, histories, changes, crashed>>

ClosingReturns(t) ==
    /\ thread[t].pc = "next" /\ todo[t] = {}
    /\ Goto(t, "returned")
    /\ UNCHANGED <<conn, servers, sdkServers, clients, tools, todo, histories, changes, crashed>>

-----------------------------------------------------------------------------
(* CallTool, HandleMCPMessage, and the SDK server *)

CallTool(t, n) ==
    /\ At(t, "none", "idle")
    /\ Become(t, [Idle EXCEPT !.op = "call", !.pc = "look up", !.name = n])
    /\ seen' = [seen EXCEPT ![t] = {View(n)}]
    /\ UNCHANGED <<conn, servers, sdkServers, clients, tools, todo, took, replaced, changes, crashed>>

\* Mutant: the map of clients is read in a section of its own.
LookUpLater(t) ==
    /\ Access(t, "addSDK")
    /\ LET n == thread[t].name
       IN  \/ /\ At(t, "call", "look up")
              /\ Become(t, IF sdkServers[n] # None
                           THEN [thread[t] EXCEPT !.pc = "tool", !.sdk = sdkServers[n]]
                           ELSE [thread[t] EXCEPT !.pc = "client"])
           \/ /\ At(t, "call", "client")
              /\ Become(t, IF clients[n] # None
                           THEN [thread[t] EXCEPT !.pc = "returned", !.client = clients[n]]
                           ELSE [thread[t] EXCEPT !.pc = "returned"])
    /\ UNCHANGED <<conn, servers, sdkServers, clients, tools, todo, histories, changes>>

\* Both maps are read under mu; the SDK server goes first.  A call that goes to a
\* client ends as MCPClient says: here it is the client that matters.
LookUp(t) ==
    /\ At(t, "call", "look up")
    /\ Access(t, "addSDK")
    /\ LET n == thread[t].name
       IN  Become(t, IF sdkServers[n] # None
                     THEN [thread[t] EXCEPT !.pc = "tool", !.sdk = sdkServers[n]]
                     ELSE [thread[t] EXCEPT !.pc = "returned", !.client = clients[n]])
    /\ UNCHANGED <<conn, servers, sdkServers, clients, tools, todo, histories, changes>>

\* HandleMCPMessage with tools/call; every other message is answered at once,
\* with the tools or with an error.
HandleMCPMessage(t, n) ==
    /\ At(t, "none", "idle")
    /\ Access(t, "addSDK")
    /\ Become(t, IF sdkServers[n] # None
                 THEN [Idle EXCEPT !.op = "message", !.pc = "tool", !.name = n, !.sdk = sdkServers[n]]
                 ELSE thread[t])
    /\ UNCHANGED <<conn, servers, sdkServers, clients, tools, todo, histories, changes>>

\* HandleCall reads the tool under the lock of the server, which nil has not ...
HandleCall(t) ==
    /\ thread[t].pc = "tool"
    /\ LET h == tools[thread[t].sdk]
       IN  Become(t, [thread[t] EXCEPT !.pc = IF h \in Handlers THEN "handler" ELSE "returned",
                                       !.tool = h])
          /\ crashed' = (h = NilServer)
    /\ UNCHANGED <<conn, servers, sdkServers, clients, tools, todo, histories, changes>>

\* ... and calls its handler without it.  HandleMessage dereferences a result
\* that may be nil when the error is nil too.
HandlerReturns(t) ==
    /\ thread[t].pc = "handler"
    /\ crashed' = FALSE \/ (crashed' = TRUE /\ thread[t].op = "message")
    /\ Goto(t, "returned")
    /\ UNCHANGED <<conn, servers, sdkServers, clients, tools, todo, histories, changes>>

\* AddTool and RemoveTool, by anybody, a running handler included.
ChangeTool(s, h) ==
    /\ Change /\ tools[s] # NilServer
    /\ tools' = [tools EXCEPT ![s] = h]
    /\ UNCHANGED <<conn, servers, sdkServers, clients, thread, todo, took, replaced, crashed>>
    /\ Seen

Return(t) ==
    /\ thread[t].pc = "returned"
    /\ Become(t, Idle)
    /\ took' = [took EXCEPT ![t] = {}]
    /\ seen' = [seen EXCEPT ![t] = {}]
    /\ UNCHANGED <<conn, servers, sdkServers, clients, tools, todo, replaced, changes, crashed>>

-----------------------------------------------------------------------------
ManagerCall(t) ==
    \/ \E n \in Names :
          \/ Add(t, "addServer", n, None)
          \/ \E s \in SDKServers : Add(t, "addSDK", n, s)
          \/ LookUpServer(t, n) \/ NilConfiguration(t, n)
          \/ DisconnectServer(t, n) \/ GetClientAndClose(t, n)
          \/ CallTool(t, n) \/ HandleMCPMessage(t, n)
    \/ DisconnectAll(t)

ManagerStep(t) ==
    \/ AddExternalServer(t) \/ AddSDKServer(t) \/ StoreClient(t)
    \/ ConnectBegins(t) \/ ConnectSucceeds(t) \/ ConnectFails(t)
    \/ \E c \in Clients : CloseBegins(t, c) \/ CloseSkipped(t, c)
    \/ CloseEnds(t) \/ ClosingReturns(t) \/ LookUp(t) \/ HandleCall(t) \/ HandlerReturns(t)
    \/ Return(t)

ManagerNext ==
    /\ ~crashed
    /\ \/ \E t \in Threads : ManagerCall(t) \/ ManagerStep(t)
       \/ \E s \in SDKServers, h \in Handlers \cup {NilHandler, None} : ChangeTool(s, h)

ManagerSpec == ManagerInit /\ [][ManagerNext]_managerVars

-----------------------------------------------------------------------------
(* Properties *)

Ops == {"none", "addServer", "addSDK", "connect", "disconnect", "disconnectAll", "user",
        "call", "message"}
PCs == {"idle", "write", "begin", "handshake", "store", "next", "closing", "look up", "client",
        "tool", "handler", "returned"}
Calls == [op : Ops, pc : PCs, name : Names \cup {None}, client : Clients \cup {None},
          sdk : SDKServers \cup {None}, tool : ToolStates]
Views == [sdk : SDKServers \cup {None}, client : Clients \cup {None},
          tools : [SDKServers -> ToolStates]]

ManagerTypeOK ==
    /\ conn \in [Clients -> C!States]
    /\ servers \in [Names -> ServerTypes]
    /\ sdkServers \in [Names -> SDKServers \cup {None}]
    /\ clients \in [Names -> Clients \cup {None}]
    /\ tools \in [SDKServers -> ToolStates]
    /\ thread \in [Threads -> Calls]
    /\ todo \in [Threads -> SUBSET Clients] /\ took \in [Threads -> SUBSET Clients]
    /\ seen \in [Threads -> SUBSET Views]
    /\ replaced \subseteq Clients
    /\ changes \in 0 .. MaxChanges
    /\ crashed \in BOOLEAN

InMap(c) == \E n \in Names : clients[n] = c
InHand(c) ==
    \E t \in Threads : c \in todo[t] \/ (thread[t].op = "connect" /\ thread[t].client = c)

(* A client that is being connected, or is connected, can still be reached *)
(* and closed: it is in the map, or a goroutine is about to put it there   *)
(* or to close it.  The only other ones are those that a ConnectServer of  *)
(* the same name has been stored over.                                     *)
NoClientLost ==
    \A c \in Clients :
        conn[c] \in {"connecting", "connected"} => InMap(c) \/ InHand(c) \/ c \in replaced

(* When DisconnectServer or DisconnectAll returns, every client that it    *)
(* took out of the map is closed, though one Close has failed or another   *)
(* goroutine was closing a client at the same time.                        *)
TakenAreClosed ==
    \A t \in Threads :
        thread[t].op \in {"disconnect", "disconnectAll", "user"} /\ thread[t].pc = "returned"
            => \A c \in took[t] : conn[c] = "closed"

(* CallTool answers as the manager and the SDK server stood between its    *)
(* call and its return: "server not found" only when the name was in       *)
(* neither map at one moment, a client only when it was the one of the     *)
(* name while no SDK server was, a handler, or its absence, only when it   *)
(* was the one of a server that the name stood for.                        *)
OutcomeOfItsTime ==
    \A t \in Threads :
        At(t, "call", "returned") =>
            IF thread[t].sdk = None
            THEN \E v \in seen[t] : v.sdk = None /\ v.client = thread[t].client
            ELSE /\ \E v \in seen[t] : v.sdk = thread[t].sdk
                 /\ \E v \in seen[t] : v.tools[thread[t].sdk] = thread[t].tool

-----------------------------------------------------------------------------
(* What the repository says and this code does not do: a run refutes it *)

\* external.go:222: DisconnectAll disconnects all connections, at least when
\* nobody connects at the same time.  Refuted: the ones that were replaced stay.
AllDisconnected ==
    \A t \in Threads :
        At(t, "disconnectAll", "returned") /\ (\A u \in Threads \ {t} : thread[u] = Idle)
            => \A c \in Clients : conn[c] = "connected" => InMap(c)
=============================================================================
