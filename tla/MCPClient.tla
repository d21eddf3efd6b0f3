------------------------------- MODULE MCPClient -------------------------------
(***************************************************************************)
(* internal/mcp/client.go: a client of an external MCP server, on top of   *)
(* MCPTransport.  One goroutine connects it, as Manager.ConnectServer      *)
(* does, and any goroutine may then call tools and close it.  A request is *)
(* its id: ids are never used twice, and each has a channel of its own.    *)
(* ListTools and CallTool differ in what they send and make of the answer, *)
(* not in what they do.                                                    *)
(***************************************************************************)
EXTENDS Naturals, Sequences, FiniteSets

CONSTANTS
    Callers,
    MaxRequests,    \* bound: requests, the one of the handshake included
    MaxStreamRequests,  \* bound: the same for a client with an event stream
    MaxStray, PipeCap, Types, Sessions, MsgCap,
    MaxCloses       \* bound: calls of Close

Loop == "loop"

ASSUME MCPAssumption ==
    /\ {MaxStray, MaxCloses} \subseteq Nat
    /\ {MaxRequests, PipeCap, MsgCap} \subseteq Nat \ {0}
    /\ MaxStreamRequests \in 1 .. MaxRequests
    /\ IsFiniteSet(Callers) /\ Callers \cap {Loop, "nobody"} = {}
    /\ "none" \notin Sessions
    /\ Types \subseteq {"stdio", "http", "sse"}

VARIABLES
    type, closed, read, stray, mu, stdin, stdout, server,
    sessionID, msgChan, posts, stream, assigned, crashed,
    connected,
    stopped,        \* stopChan is closed
    reqID,
    pendingReqs,
    respChan,       \* what each response channel holds
    outcome,        \* how each request stands for its caller
    thread,         \* each goroutine: the call it is in, where, its request
    loop,           \* the receive loop: where, and the answer it handles
    phase,          \* "new", "connecting" or "done": the one call of Connect
    closes          \* calls of Close so far

T == INSTANCE MCPTransport WITH Threads <- Callers

transport == <<type, closed, read, stray, mu, stdin, stdout, server,
               sessionID, msgChan, posts, stream, assigned, crashed>>
requests == <<reqID, pendingReqs, respChan, outcome>>
client == <<requests, connected, stopped, thread, loop, phase, closes>>
vars == <<transport, client>>

Requests == 1 .. MaxRequests
Idle == [op |-> "none", pc |-> "idle", id |-> 0]

Init ==
    /\ T!Init
    /\ connected = FALSE
    /\ stopped = FALSE
    /\ reqID = 0
    /\ pendingReqs = {}
    /\ respChan = [r \in Requests |-> <<>>]
    /\ outcome = [r \in Requests |-> "unmade"]
    /\ thread = [t \in Callers |-> Idle]
    /\ loop = [pc |-> "none", id |-> 0, ok |-> FALSE]
    /\ phase = "new"
    /\ closes = 0

-----------------------------------------------------------------------------
At(t, pc) == thread[t].pc = pc
Goto(t, pc) == thread' = [thread EXCEPT ![t].pc = pc]
Return(t) == thread' = [thread EXCEPT ![t] = Idle]

\* Only Close holds c.mu across a step: until the transport is closed.
MuFree == \A t \in Callers : thread[t].op # "close"

Connect(t) ==
    /\ phase = "new" /\ At(t, "idle")
    /\ T!Connect
    /\ phase' = "connecting"
    /\ loop' = [loop EXCEPT !.pc = "check"]
    /\ thread' = [thread EXCEPT ![t] = [op |-> "connect", pc |-> "request", id |-> 0]]
    /\ UNCHANGED <<requests, connected, stopped, closes>>

ConnectFails ==
    /\ phase = "new"
    /\ T!ConnectFails
    /\ phase' = "done"
    /\ UNCHANGED <<requests, connected, stopped, thread, loop, closes>>

\* CallTool or ListTools; on a client that is not connected it just returns.
CallTool(t) ==
    /\ At(t, "idle") /\ MuFree
    /\ connected
    /\ reqID + Cardinality({u \in Callers : At(u, "request")})
         < IF type = "sse" THEN MaxStreamRequests ELSE MaxRequests
    /\ thread' = [thread EXCEPT ![t] = [op |-> "call", pc |-> "request", id |-> 0]]
    /\ UNCHANGED <<transport, requests, connected, stopped, loop, phase, closes>>

-----------------------------------------------------------------------------
(* request *)

\* Mutant: the id is what the counter was before.
RegisterBefore(t) ==
    /\ At(t, "request") /\ MuFree
    /\ reqID' = reqID + 1
    /\ pendingReqs' = pendingReqs \cup {reqID}
    /\ outcome' = [outcome EXCEPT ![reqID'] = "open"]
    /\ thread' = [thread EXCEPT ![t] = [op |-> @.op, pc |-> "send", id |-> reqID]]
    /\ UNCHANGED <<transport, respChan, connected, stopped, loop, phase, closes>>

Register(t) ==
    /\ At(t, "request") /\ MuFree
    /\ reqID' = reqID + 1
    /\ pendingReqs' = pendingReqs \cup {reqID'}
    /\ outcome' = [outcome EXCEPT ![reqID'] = "open"]
    /\ thread' = [thread EXCEPT ![t] = [op |-> @.op, pc |-> "send", id |-> reqID']]
    /\ UNCHANGED <<transport, respChan, connected, stopped, loop, phase, closes>>

\* Either goroutine that is about to send: a request, or "initialized".
Send(t) ==
    /\ \/ At(t, "send") /\ T!SendBegins(t, thread[t].id) /\ Goto(t, "sending")
       \/ At(t, "notify") /\ T!SendBegins(t, 0) /\ Goto(t, "notifying")
    /\ UNCHANGED <<requests, connected, stopped, loop, phase, closes>>

\* The response of an HTTP server comes to a transport that is closed.
SendPanics(t) ==
    /\ At(t, "sending") \/ At(t, "notifying")
    /\ T!SendPanics(t)
    /\ UNCHANGED client

SendReturns(t) ==
    /\ \/ At(t, "sending") /\ T!SendEnds(t, thread[t].id) /\ Goto(t, "wait")
       \/ At(t, "notifying") /\ T!SendEnds(t, 0) /\ Goto(t, "publish")
    /\ UNCHANGED <<requests, connected, stopped, loop, phase, closes>>

\* The arguments of a tool may be what cannot be marshalled.
SendFails(t) ==
    /\ \/ /\ At(t, "send") /\ (closed \/ thread[t].op = "call")
          /\ T!SendRefused /\ Goto(t, "abandon")
       \/ At(t, "sending") /\ T!SendBreaks(t) /\ Goto(t, "abandon")
       \/ At(t, "notifying") /\ T!SendBreaks(t) /\ Goto(t, "fail")
    /\ UNCHANGED <<requests, connected, stopped, loop, phase, closes>>

\* Mutant: the end of the receive loop is taken for an answer.
TakeClosed(t) ==
    /\ At(t, "wait") /\ loop.pc = "done"
    /\ outcome' = [outcome EXCEPT ![thread[t].id] = "answered"]
    /\ Return(t)
    /\ UNCHANGED <<transport, reqID, pendingReqs, respChan, connected, stopped, loop, phase, closes>>

\* initialize goes on when the answer is a valid result.
TakeResponse(t) ==
    /\ At(t, "wait") /\ respChan[thread[t].id] # <<>>
    /\ LET id == thread[t].id
           ok == Head(respChan[id])
       IN  /\ respChan' = [respChan EXCEPT ![id] = Tail(@)]
           /\ outcome' = [outcome EXCEPT ![id] = "answered"]
           /\ IF thread[t].op = "call" THEN Return(t)
              ELSE Goto(t, IF ok THEN "notify" ELSE "fail")
    /\ UNCHANGED <<transport, reqID, pendingReqs, connected, stopped, loop, phase, closes>>

\* Mutant: the context is looked at before the request is sent, and not after.
ContextLookedAt(t) ==
    /\ At(t, "send")
    /\ Goto(t, "abandon")
    /\ UNCHANGED <<transport, requests, connected, stopped, loop, phase, closes>>

ContextEnds(t) ==
    /\ At(t, "wait")
    /\ Goto(t, "abandon")
    /\ UNCHANGED <<transport, requests, connected, stopped, loop, phase, closes>>

\* Mutant: a request that could not be sent stays in the map.
AbandonUnsent(t) ==
    /\ At(t, "abandon") /\ MuFree
    /\ pendingReqs' = IF closed THEN pendingReqs ELSE pendingReqs \ {thread[t].id}
    /\ outcome' = [outcome EXCEPT ![thread[t].id] = "failed"]
    /\ IF thread[t].op = "call" THEN Return(t) ELSE Goto(t, "fail")
    /\ UNCHANGED <<transport, reqID, respChan, connected, stopped, loop, phase, closes>>

\* Mutant: Connect returns its deadline without closing the transport.
AbandonAll(t) ==
    /\ At(t, "abandon") /\ MuFree
    /\ pendingReqs' = pendingReqs \ {thread[t].id}
    /\ outcome' = [outcome EXCEPT ![thread[t].id] = "failed"]
    /\ Return(t)
    /\ phase' = "done"
    /\ UNCHANGED <<transport, reqID, respChan, connected, stopped, loop, closes>>

Abandon(t) ==
    /\ At(t, "abandon") /\ MuFree
    /\ pendingReqs' = pendingReqs \ {thread[t].id}
    /\ outcome' = [outcome EXCEPT ![thread[t].id] = "failed"]
    /\ IF thread[t].op = "call" THEN Return(t) ELSE Goto(t, "fail")
    /\ UNCHANGED <<transport, reqID, respChan, connected, stopped, loop, phase, closes>>

-----------------------------------------------------------------------------
(* The ends of Connect and of Close *)

Publish(t) ==
    /\ At(t, "publish") /\ MuFree
    /\ connected' = TRUE
    /\ phase' = "done"
    /\ Return(t)
    /\ UNCHANGED <<transport, requests, stopped, loop, closes>>

\* Mutant: Close does not look at connected.
CloseAlways(t) ==
    /\ At(t, "idle") /\ MuFree
    /\ closes < MaxCloses
    /\ connected' = FALSE
    /\ stopped' = TRUE
    /\ closes' = closes + 1
    /\ thread' = [thread EXCEPT ![t] = [op |-> "close", pc |-> "fail", id |-> 0]]
    /\ UNCHANGED <<transport, requests, loop, phase>>

\* On a client that is not connected Close just returns.
Close(t) ==
    /\ At(t, "idle") /\ MuFree
    /\ connected /\ closes < MaxCloses
    /\ connected' = FALSE
    /\ stopped' = TRUE
    /\ closes' = closes + 1
    /\ thread' = [thread EXCEPT ![t] = [op |-> "close", pc |-> "fail", id |-> 0]]
    /\ UNCHANGED <<transport, requests, loop, phase>>

\* transport.Close, of Close and of a Connect that has failed.
CloseTransport(t) ==
    /\ At(t, "fail")
    /\ T!CloseBegins(t)
    /\ Goto(t, "reap")
    /\ UNCHANGED <<requests, connected, stopped, loop, phase, closes>>

TransportClosed(t) ==
    /\ At(t, "reap")
    /\ T!CloseEnds(t)
    /\ Return(t)
    /\ phase' = IF thread[t].op = "connect" THEN "done" ELSE phase
    /\ UNCHANGED <<requests, connected, stopped, loop, closes>>

-----------------------------------------------------------------------------
(* receiveLoop *)

LoopGoto(pc) == loop' = [pc |-> pc, id |-> 0, ok |-> FALSE]

CheckStopped ==
    /\ loop.pc = "check"
    /\ LoopGoto(IF stopped THEN "done" ELSE "receive")
    /\ UNCHANGED <<transport, requests, connected, stopped, thread, phase, closes>>

Receive ==
    /\ loop.pc = "receive"
    /\ \/ T!ReceiveRefused /\ LoopGoto("done")
       \/ T!ReceiveBegins /\ LoopGoto("read")
    /\ UNCHANGED <<requests, connected, stopped, thread, phase, closes>>

\* A notification goes to msgChan, which nobody reads and which drops what it
\* has no room for.  A message without a number for an id counts as one, though
\* it may be an answer by an array or an object, which is taken to the map.
ReadLine ==
    /\ loop.pc = "read"
    /\ T!ReceiveEnds
    /\ LET line == T!Received
       IN  CASE line.kind = "answer" -> loop' = [pc |-> "route", id |-> line.id, ok |-> line.ok]
             [] line.kind = "notification" -> LoopGoto("check") \/ LoopGoto("route")
             [] OTHER -> LoopGoto("done")
    /\ UNCHANGED <<requests, connected, stopped, thread, phase, closes>>

ReadFails ==
    /\ loop.pc = "read"
    /\ T!ReceiveFails
    /\ LoopGoto("done")
    /\ UNCHANGED <<requests, connected, stopped, thread, phase, closes>>

\* An array or an object is no key of a map: the look-up panics.
RoutePanics ==
    /\ loop.pc = "route" /\ MuFree /\ loop.id = 0
    /\ crashed' = TRUE
    /\ UNCHANGED <<type, closed, read, stray, mu, stdin, stdout, server, sessionID, msgChan,
                   posts, stream, assigned, client>>

\* The entry is taken out of the map under the lock (an id that is no integer
\* loses its fraction before) ...
Route ==
    /\ loop.pc = "route" /\ MuFree /\ loop.id # 0
    /\ IF loop.id \in pendingReqs THEN loop' = [loop EXCEPT !.pc = "deliver"]
       ELSE LoopGoto("check")
    /\ pendingReqs' = pendingReqs \ {loop.id}
    /\ UNCHANGED <<transport, reqID, respChan, outcome, connected, stopped, thread, phase, closes>>

\* ... and its channel is written to without it, unless the channel is full.
Deliver ==
    /\ loop.pc = "deliver"
    /\ respChan' = IF respChan[loop.id] = <<>>
                   THEN [respChan EXCEPT ![loop.id] = <<loop.ok>>] ELSE respChan
    /\ LoopGoto("check")
    /\ UNCHANGED <<transport, reqID, pendingReqs, outcome, connected, stopped, thread, phase, closes>>

-----------------------------------------------------------------------------
CallStep(t) ==
    \/ Register(t) \/ Send(t) \/ SendReturns(t) \/ SendFails(t) \/ SendPanics(t)
    \/ TakeResponse(t) \/ ContextEnds(t) \/ Abandon(t)
    \/ Publish(t) \/ CloseTransport(t) \/ TransportClosed(t)

LoopStep == CheckStopped \/ Receive \/ ReadLine \/ ReadFails
            \/ Route \/ RoutePanics \/ Deliver

Stream == T!StreamStep /\ UNCHANGED client
Server == T!ServerStep /\ UNCHANGED client

Next ==
    /\ ~crashed
    /\ \/ ConnectFails
       \/ \E t \in Callers : Connect(t) \/ CallTool(t) \/ Close(t) \/ CallStep(t)
       \/ LoopStep \/ Stream \/ Server

Spec == Init /\ [][Next]_vars

-----------------------------------------------------------------------------
(* Safety *)

ThreadPCs == {"idle", "request", "send", "sending", "wait", "abandon", "notify", "notifying",
              "publish", "fail", "reap"}
LoopPCs == {"none", "check", "receive", "read", "route", "deliver", "done"}

\* The variables of the client and of its transport have their types, and no
\* response channel holds more than its capacity.
TypeOK ==
    /\ T!TypeOK
    /\ {connected, stopped} \subseteq BOOLEAN
    /\ reqID \in 0 .. MaxRequests
    /\ pendingReqs \subseteq 1 .. reqID
    /\ respChan \in [Requests -> {<<>>, <<TRUE>>, <<FALSE>>}]
    /\ outcome \in [Requests -> {"unmade", "open", "answered", "failed"}]
    /\ thread \in [Callers -> [op : {"none", "connect", "call", "close"}, pc : ThreadPCs,
                              id : 0 .. MaxRequests]]
    /\ loop \in [pc : LoopPCs, id : 0 .. MaxRequests, ok : BOOLEAN]
    /\ phase \in {"new", "connecting", "done"}
    /\ closes \in 0 .. MaxCloses

Waiting(r) ==
    \E t \in Callers : thread[t].id = r /\ thread[t].pc \in {"send", "sending", "wait", "abandon"}
InHand(r) == loop.pc = "deliver" /\ loop.id = r

\* The map holds exactly the requests whose caller is still in request and whose
\* answer the receive loop has not taken: whichever of the loop, the caller's
\* context and a failing Send comes first removes the entry, and only it.  And
\* the default case of the delivery is never taken: a server that repeats an
\* answer cannot make the loop drop one.
PendingExact ==
    \A r \in Requests :
        /\ r \in pendingReqs <=> Waiting(r) /\ ~InHand(r) /\ respChan[r] = <<>>
        /\ InHand(r) => respChan[r] = <<>>

\* Outside Connect and Close, a client is connected exactly when its transport
\* is open, and no server runs without one: neither a failed handshake nor
\* Close leaves a process behind.
NoServerLeft ==
    (\A t \in Callers : thread[t].op \notin {"connect", "close"}) =>
        /\ connected <=> ~closed
        /\ server.st = "running" => connected

RR == INSTANCE RequestReply WITH answers <- read

\* A request is made once and ends once: by an error, or by an answer after the
\* server has read it.
ImplementsRequestReply == RR!Spec

State ==
    CASE phase = "new" -> "new"
      [] phase = "connecting" -> "connecting"
      [] phase = "done" /\ connected -> "connected"
      [] phase = "done" /\ ~connected ->
            IF \E t \in Callers : thread[t].op = "close" THEN "closing"
            ELSE IF closes > 0 THEN "closed" ELSE "failed"

Life == INSTANCE Connection WITH Clients <- {"client"}, conn <- [c \in {"client"} |-> State]

\* To its owner the client is what Connection says: a Close that meets a Connect
\* in progress does nothing, and Connect never undoes a Close.
ImplementsConnection == Life!Spec

\* mcp-integration.md:316: once the server has assigned a session id, with its
\* response to initialize, every POST carries it, also those that are on their
\* way at the same time, and whether or not other responses repeat it.
SessionCarried ==
    \A t \in Callers : posts[t].st = "posted" /\ posts[t].n # 1 => posts[t].sid = assigned

-----------------------------------------------------------------------------
(* Liveness *)

\* Goroutines run, contexts end; a server with pipes reads its input, writes
\* what it has to, and ends with its input.  No behaviour has infinitely many
\* steps, so that one condition for all goroutines is as strong as one for each.
\* Nothing is assumed of a server that is reached by HTTP.
Fairness ==
    /\ WF_vars(~crashed /\ (LoopStep \/ Stream \/ \E t \in Callers : CallStep(t)))
    /\ WF_vars(~crashed /\ T!ServerGoesOn /\ UNCHANGED client)

FairSpec == Spec /\ Fairness

\* The server wants to write and its output is full.
Stalled == server.st = "running" /\ server.out # T!S!NoLine /\ Len(stdout.q) = PipeCap

\* Connect, CallTool, ListTools and Close return, unless the server is blocked
\* for ever by its own output: then Send waits for it with the lock, and Close
\* waits for its end.  By HTTP only a caller whose own request is never answered
\* waits for ever, since Send does not look at its context; Close never waits.
\* (Every behaviour stops changing, so "again and again" speaks of its end.)
CallsReturn ==
    \A t \in Callers :
        []<>(thread[t].op = "none" \/ crashed \/ Stalled \/ posts[t].st = "posted")

\* The goroutine of the event stream ends when the transport is closed, also
\* when Close comes before the stream is open and there is no body to close.
StreamEnds ==
    closed /\ stream.pc # "none" ~> stream.pc = "done" \/ crashed

-----------------------------------------------------------------------------
(* What the repository says and this code does not do: a run refutes it *)

\* client_test.go:282-312: after Close the transport is closed, and Close has
\* returned, at least while the receive loop reads what the server still writes.
\* Refuted: Close waits for the server with the mutex the receive loop needs.
CloseDisconnects ==
    \A t \in Callers : thread[t].op = "close" ~> (thread[t].op = "none" \/ loop.pc = "done")
=============================================================================
