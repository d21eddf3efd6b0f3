--------------------------- MODULE ControlProtocol ---------------------------
(***************************************************************************)
(* internal/protocol/control.go: the ProtocolHandler.  Any number of       *)
(* callers are inside SendControlRequestWithTimeout while one goroutine    *)
(* (the client's receive loop) is inside HandleIncoming; they share the    *)
(* map pendingRequests, the response channels and the transport.  One      *)
(* action is what a goroutine does between two points where another can    *)
(* be observed to interleave (a lock, a channel, a write).                 *)
(*                                                                         *)
(* A request is known by the number of the response channel made for it;   *)
(* that number stands for the content of the request, so an answer says    *)
(* both which id it carries and which request the CLI was answering.       *)
(***************************************************************************)
EXTENDS Naturals, Sequences, FiniteSets

CONSTANTS
    Callers,        \* goroutines that call SendControlRequest
    MaxRequests,    \* bound: requests made in a behaviour
    MaxEmit,        \* bound: unsolicited messages the CLI sends in a behaviour
    MaxCallbacks,   \* bound: callbacks registered in a behaviour
    MsgCap,         \* capacity of ProtocolHandler.msgChan (100 in the code)
    PipeCap,        \* bound: messages between the CLI and HandleIncoming
    TimersFire      \* FALSE in runs that ask what happens before any deadline

ASSUME BoundsAssumption ==
    /\ MaxRequests \in Nat /\ MaxEmit \in Nat /\ MaxCallbacks \in Nat
    /\ MsgCap \in Nat \ {0} /\ PipeCap \in Nat \ {0}
    /\ TimersFire \in BOOLEAN

VARIABLES
    requestCounter,     \* ProtocolHandler.requestCounter
    pendingRequests,    \* ProtocolHandler.pendingRequests: id -> channel
    respChan,           \* contents of every response channel made so far
    call,               \* each caller: where it is, its id and its channel
    result,             \* how the call that made each channel ended
    handler,            \* the goroutine in HandleIncoming
    callbacks,          \* canUseToolCallback, hookCallbacks, mcpMessageCallback
    msgChan,            \* ProtocolHandler.msgChan
    seen,               \* last conversation message handled, last message taken
    closed,             \* Close was called
    crashed,            \* a send on, or a close of, a closed channel
    up,                 \* the transport accepts writes
    room,               \* the CLI's stdin pipe has room for one more line
    incoming,           \* raw messages the transport holds for HandleIncoming
    asked,              \* requests the CLI has read
    answered,           \* requests the CLI has answered at least once
    emitted,            \* number of unsolicited messages sent by the CLI
    requests,           \* which of them are control requests
    replies             \* what was written in answer to each of them

callVars == <<requestCounter, pendingRequests, call, result>>
queueVars == <<msgChan, seen>>
userVars == <<callbacks, closed, crashed>>
cliVars == <<up, room, asked, answered, emitted, requests>>
vars == <<callVars, respChan, handler, queueVars, userVars, cliVars, incoming, replies>>

-----------------------------------------------------------------------------
Requests == 1 .. MaxRequests
CallbackKinds == {"can_use_tool", "hook_callback", "mcp_message"}
RequestKinds == CallbackKinds \cup {"other", "invalid"}
StreamKinds == {"conversation", "unknown", "garbage"}

\* A raw message: n is the request id of a response and the serial number of
\* anything else; of is the request a response answers.
Messages == [kind : RequestKinds \cup StreamKinds \cup {"response"}, n : Nat, of : Nat]
Nothing == [kind |-> "garbage", n |-> 0, of |-> 0]

Handlers == [pc : {"idle", "deliver", "callback", "reply", "replying", "push", "full", "send", "failed"},
             msg : Messages, ch : Nat, left : Nat, reply : {"success", "error", "lost"}]
Resting == [pc |-> "idle", msg |-> Nothing, ch |-> 0, left |-> 0, reply |-> "success"]

CallPCs == {"idle", "made", "registered", "writing", "written", "waiting", "leaving"}

Init ==
    /\ requestCounter = 0
    /\ pendingRequests = <<>>
    /\ respChan = <<>>
    /\ call = [c \in Callers |-> [pc |-> "idle", id |-> 0, ch |-> 0]]
    /\ result = [r \in Requests |-> [st |-> "open", of |-> 0]]
    /\ handler = Resting
    /\ callbacks = [k \in CallbackKinds |-> 0]
    /\ msgChan = <<>>
    /\ seen = [handled |-> 0, taken |-> 0]
    /\ closed = FALSE
    /\ crashed = FALSE
    /\ up = TRUE
    /\ room = TRUE
    /\ incoming = <<>>
    /\ asked = {}
    /\ answered = {}
    /\ emitted = 0
    /\ requests = {}
    /\ replies = [n \in 1 .. MaxEmit |-> <<>>]

-----------------------------------------------------------------------------
(* SendControlRequestWithTimeout *)

\* Mutant: numbers ids by the calls in progress.
ReusedID == Cardinality(DOMAIN pendingRequests) + 1
NewID == requestCounter + 1

\* generateRequestID and make(chan *ControlResponse, 1).
Begin(c) ==
    /\ call[c].pc = "idle"
    /\ Len(respChan) < MaxRequests
    /\ requestCounter' = requestCounter + 1
    /\ respChan' = Append(respChan, <<>>)
    /\ call' = [call EXCEPT ![c] = [pc |-> "made", id |-> NewID, ch |-> Len(respChan) + 1]]
    /\ UNCHANGED <<pendingRequests, result, handler, queueVars, userVars, cliVars, incoming, replies>>

Register(c) ==
    /\ call[c].pc = "made"
    /\ pendingRequests' = [i \in DOMAIN pendingRequests \cup {call[c].id} |->
                             IF i = call[c].id THEN call[c].ch ELSE pendingRequests[i]]
    /\ call' = [call EXCEPT ![c].pc = "registered"]
    /\ UNCHANGED <<requestCounter, result, respChan, handler, queueVars, userVars, cliVars, incoming, replies>>

\* transport.Write: a line goes into the pipe, which may be full after it.
WriteLine == up /\ room /\ room' \in BOOLEAN

\* ... and waits inside while there is no room, before any deadline counts.
WriteBlocks(c) ==
    /\ call[c].pc = "registered"
    /\ up /\ ~room
    /\ call' = [call EXCEPT ![c].pc = "writing"]
    /\ UNCHANGED <<requestCounter, pendingRequests, result, respChan, handler, queueVars, userVars, cliVars, incoming, replies>>

WriteRequest(c) ==
    /\ call[c].pc \in {"registered", "writing"}
    /\ WriteLine
    /\ asked' = asked \cup {[id |-> call[c].id, of |-> call[c].ch]}
    /\ call' = [call EXCEPT ![c].pc = "written"]
    /\ UNCHANGED <<requestCounter, pendingRequests, result, respChan, handler, queueVars, userVars, up, answered, emitted, requests, incoming, replies>>

\* context.WithTimeout, then the select: the deadline counts from here.
Wait(c) ==
    /\ call[c].pc = "written"
    /\ call' = [call EXCEPT ![c].pc = "waiting"]
    /\ UNCHANGED <<requestCounter, pendingRequests, result, respChan, handler, queueVars, userVars, cliVars, incoming, replies>>

\* The caller stops waiting; the deferred delete is still to come.
Leave(c, outcome) ==
    /\ call' = [call EXCEPT ![c].pc = "leaving"]
    /\ result' = [result EXCEPT ![call[c].ch] = outcome]
    /\ UNCHANGED <<requestCounter, pendingRequests, handler, queueVars, userVars, cliVars, incoming, replies>>

\* The request cannot be marshalled, or the transport is down.
WriteFails(c) ==
    /\ call[c].pc = "registered" \/ (call[c].pc = "writing" /\ ~up)
    /\ Leave(c, [st |-> "failed", of |-> 0])
    /\ UNCHANGED respChan

TakeResponse(c) ==
    /\ call[c].pc = "waiting"
    /\ respChan[call[c].ch] # <<>>
    /\ Leave(c, [st |-> "answered", of |-> Head(respChan[call[c].ch]).of])
    /\ respChan' = [respChan EXCEPT ![call[c].ch] = Tail(@)]

\* The deadline of the call, or the caller's own context, expires.
TimeOut(c) ==
    /\ TimersFire
    /\ call[c].pc = "waiting"
    /\ Leave(c, [st |-> "failed", of |-> 0])
    /\ UNCHANGED respChan

\* Mutant: the delete is forgotten when the call failed.
UnregisterAnswered(c) ==
    /\ call[c].pc = "leaving"
    /\ pendingRequests' = IF result[call[c].ch].st = "failed" THEN pendingRequests
                          ELSE [i \in DOMAIN pendingRequests \ {call[c].id} |-> pendingRequests[i]]
    /\ call' = [call EXCEPT ![c].pc = "idle"]
    /\ UNCHANGED <<requestCounter, result, respChan, handler, queueVars, userVars, cliVars, incoming, replies>>

Unregister(c) ==
    /\ call[c].pc = "leaving"
    /\ pendingRequests' = [i \in DOMAIN pendingRequests \ {call[c].id} |-> pendingRequests[i]]
    /\ call' = [call EXCEPT ![c].pc = "idle"]
    /\ UNCHANGED <<requestCounter, result, respChan, handler, queueVars, userVars, cliVars, incoming, replies>>

-----------------------------------------------------------------------------
(* HandleIncoming *)

\* The next raw message, taken from the transport.
Arrived(kinds) ==
    /\ handler.pc = "idle"
    /\ incoming # <<>>
    /\ Head(incoming).kind \in kinds
    /\ incoming' = Tail(incoming)
    /\ UNCHANGED <<callVars, respChan, queueVars, userVars, cliVars, replies>>

\* ParseMessage fails.
ReceiveGarbage ==
    /\ Arrived({"garbage"})
    /\ handler' = [Resting EXCEPT !.pc = "failed"]

\* Mutant: an answer goes to the oldest pending call, whatever its id.
ReceiveResponseInOrder ==
    /\ Arrived({"response"})
    /\ LET ids == DOMAIN pendingRequests
           oldest == CHOOSE i \in ids : \A j \in ids : i <= j
       IN  handler' = IF ids = {} THEN Resting
                      ELSE [Resting EXCEPT !.pc = "deliver", !.msg = Head(incoming),
                                !.ch = pendingRequests[oldest]]

\* handleControlResponse looks the id up; an unknown id is ignored.
ReceiveResponse ==
    /\ Arrived({"response"})
    /\ LET m == Head(incoming)
       IN  handler' = IF m.n \in DOMAIN pendingRequests
                      THEN [Resting EXCEPT !.pc = "deliver", !.msg = m, !.ch = pendingRequests[m.n]]
                      ELSE Resting

\* Mutant: the answer is appended whatever the channel holds.
DeliverAlways ==
    /\ handler.pc = "deliver"
    /\ respChan' = [respChan EXCEPT ![handler.ch] = Append(@, handler.msg)]
    /\ handler' = Resting
    /\ UNCHANGED <<callVars, queueVars, userVars, cliVars, incoming, replies>>

\* ... and sends without blocking, holding the channel but no longer the lock.
Deliver ==
    /\ handler.pc = "deliver"
    /\ respChan' = IF Len(respChan[handler.ch]) < 1
                   THEN [respChan EXCEPT ![handler.ch] = Append(@, handler.msg)]
                   ELSE respChan
    /\ handler' = Resting
    /\ UNCHANGED <<callVars, queueVars, userVars, cliVars, incoming, replies>>

\* handleControlRequest and its three handlers: without a callback the answer
\* is fixed by the kind of the request.
ReceiveRequest ==
    /\ Arrived(RequestKinds)
    /\ LET m == Head(incoming)
           count == IF m.kind \in CallbackKinds THEN callbacks[m.kind] ELSE 0
           fixed == IF m.kind \in {"mcp_message", "invalid"} THEN "error" ELSE "success"
       IN  handler' = IF count > 0
                      THEN [Resting EXCEPT !.pc = "callback", !.msg = m, !.left = count]
                      ELSE [Resting EXCEPT !.pc = "reply", !.msg = m, !.reply = fixed]

\* Mutant: an error of a callback is returned instead of sent.
CallbackErrorReturned(verdict) ==
    /\ handler.pc = "callback"
    /\ handler' = IF verdict = "continue" /\ handler.left > 1
                  THEN [handler EXCEPT !.left = @ - 1]
                  ELSE [handler EXCEPT !.pc = IF verdict = "error" THEN "failed" ELSE "reply", !.left = 0]
    /\ UNCHANGED <<callVars, respChan, queueVars, userVars, cliVars, incoming, replies>>

\* A callback returns.  Hook callbacks run in turn until one fails or does not
\* continue; the other kinds have one callback, whose verdict is not looked at.
\* What a callback answers may be a value that json.Marshal refuses.
CallbackReturns(verdict) ==
    /\ handler.pc = "callback"
    /\ handler' = IF verdict = "continue" /\ handler.left > 1
                  THEN [handler EXCEPT !.left = @ - 1]
                  ELSE [handler EXCEPT !.pc = "reply", !.left = 0,
                            !.reply = IF verdict = "error" THEN "error"
                                      ELSE IF verdict = "unsendable" THEN "lost" ELSE "success"]
    /\ UNCHANGED <<callVars, respChan, queueVars, userVars, cliVars, incoming, replies>>

\* A hook callback answers nil without an error, which is dereferenced; the
\* callback the client sets does the same with what the application answers.
CallbackPanics ==
    /\ handler.pc = "callback"
    /\ handler.msg.kind \in {"hook_callback", "can_use_tool"}
    /\ crashed' = TRUE
    /\ UNCHANGED <<callVars, respChan, handler, queueVars, callbacks, closed, cliVars, incoming, replies>>

\* The receive loop waits inside transport.Write.
ReplyBlocks ==
    /\ handler.pc = "reply" /\ handler.reply # "lost"
    /\ up /\ ~room
    /\ handler' = [handler EXCEPT !.pc = "replying"]
    /\ UNCHANGED <<callVars, respChan, queueVars, userVars, cliVars, incoming, replies>>

\* sendControlSuccess and sendControlError; a reply that cannot be marshalled
\* or written is HandleIncoming's error.
Reply ==
    /\ handler.pc \in {"reply", "replying"}
    /\ LET lost == handler.reply = "lost" \/ ~up
       IN  /\ IF lost THEN UNCHANGED room ELSE WriteLine
           /\ replies' = [replies EXCEPT ![handler.msg.n] =
                            Append(@, IF lost THEN "lost" ELSE handler.reply)]
           /\ handler' = IF lost THEN [handler EXCEPT !.pc = "failed"] ELSE Resting
    /\ UNCHANGED <<callVars, respChan, queueVars, userVars, up, asked, answered, emitted, requests, incoming>>

ReceiveStream ==
    /\ Arrived({"conversation", "unknown"})
    /\ handler' = [Resting EXCEPT !.pc = "push", !.msg = Head(incoming)]

\* HandleIncoming is done with a stream message.
Finish ==
    /\ handler' = Resting
    /\ seen' = IF handler.msg.kind = "conversation"
               THEN [seen EXCEPT !.handled = handler.msg.n] ELSE seen

Enqueue == msgChan' = Append(msgChan, handler.msg.n) /\ Finish

\* Mutant: whatever finds the channel full is dropped.
PushOrDrop ==
    /\ handler.pc = "push"
    /\ ~closed
    /\ \/ Len(msgChan) < MsgCap /\ Enqueue
       \/ Len(msgChan) >= MsgCap /\ Finish /\ UNCHANGED msgChan
    /\ UNCHANGED <<callVars, respChan, userVars, cliVars, incoming, replies>>

\* The first, non-blocking, send.  A message of unknown type is dropped when
\* the channel is full; a conversation message makes room for itself.
Push ==
    /\ handler.pc = "push"
    /\ ~closed
    /\ \/ Len(msgChan) < MsgCap /\ Enqueue
       \/ /\ Len(msgChan) >= MsgCap /\ handler.msg.kind = "conversation"
          /\ handler' = [handler EXCEPT !.pc = "full"]
          /\ UNCHANGED queueVars
       \/ Len(msgChan) >= MsgCap /\ handler.msg.kind = "unknown" /\ Finish /\ UNCHANGED msgChan
    /\ UNCHANGED <<callVars, respChan, userVars, cliVars, incoming, replies>>

\* Mutant: goes straight to the blocking send.
DropNothing ==
    /\ handler.pc = "full"
    /\ handler' = [handler EXCEPT !.pc = "send"]
    /\ UNCHANGED <<callVars, respChan, queueVars, userVars, cliVars, incoming, replies>>

DropOldest ==
    /\ handler.pc = "full"
    /\ msgChan' = IF msgChan = <<>> THEN msgChan ELSE Tail(msgChan)
    /\ handler' = [handler EXCEPT !.pc = "send"]
    /\ UNCHANGED <<callVars, respChan, seen, userVars, cliVars, incoming, replies>>

\* The second send, which blocks while the channel is full.
SendAfterDrop ==
    /\ handler.pc = "send"
    /\ ~closed
    /\ Len(msgChan) < MsgCap
    /\ Enqueue
    /\ UNCHANGED <<callVars, respChan, userVars, cliVars, incoming, replies>>

\* Either send panics when Close has closed the channel.
SendOnClosed ==
    /\ handler.pc \in {"push", "send"}
    /\ closed
    /\ crashed' = TRUE
    /\ UNCHANGED <<callVars, respChan, handler, queueVars, callbacks, closed, cliVars, incoming, replies>>

\* The receive loop has taken HandleIncoming's error.
ErrorReturned ==
    /\ handler.pc = "failed"
    /\ handler' = Resting
    /\ UNCHANGED <<callVars, respChan, queueVars, userVars, cliVars, incoming, replies>>

-----------------------------------------------------------------------------
(* Setters, the consumer, the other messages and Close *)

\* SetCanUseToolCallback and SetMCPMessageCallback replace, AddHookCallback appends.
SetCallback(k) ==
    /\ callbacks["can_use_tool"] + callbacks["hook_callback"] + callbacks["mcp_message"] < MaxCallbacks
    /\ callbacks' = [callbacks EXCEPT ![k] = IF k = "hook_callback" THEN @ + 1 ELSE 1]
    /\ UNCHANGED <<callVars, respChan, handler, queueVars, closed, crashed, cliVars, incoming, replies>>

\* The application receives from Messages().
TakeMessage ==
    /\ msgChan # <<>>
    /\ msgChan' = Tail(msgChan)
    /\ seen' = [seen EXCEPT !.taken = Head(msgChan)]
    /\ UNCHANGED <<callVars, respChan, handler, userVars, cliVars, incoming, replies>>

\* The client writes a message of the application's to the same transport.
WriteMessage ==
    /\ WriteLine
    /\ UNCHANGED <<callVars, respChan, handler, queueVars, userVars, up, asked, answered, emitted, requests, incoming, replies>>

Close ==
    /\ IF closed THEN crashed' = TRUE /\ UNCHANGED closed
                 ELSE closed' = TRUE /\ UNCHANGED crashed
    /\ UNCHANGED <<callVars, respChan, handler, queueVars, callbacks, cliVars, incoming, replies>>

-----------------------------------------------------------------------------
(* The CLI and the transport between it and the handler *)

\* The CLI may answer in any order, and more than once.
CLIAnswers(q) ==
    /\ up
    /\ Len(incoming) < PipeCap
    /\ incoming' = Append(incoming, [kind |-> "response", n |-> q.id, of |-> q.of])
    /\ answered' = answered \cup {q.of}
    /\ UNCHANGED <<callVars, respChan, handler, queueVars, userVars, up, room, asked, emitted, requests, replies>>

\* It also sends messages and requests of its own, and responses with an id
\* the SDK never made (request 0).
CLIEmits(kind) ==
    /\ up
    /\ Len(incoming) < PipeCap
    /\ emitted < MaxEmit
    /\ emitted' = emitted + 1
    /\ incoming' = Append(incoming, [kind |-> kind, of |-> 0,
                                     n |-> IF kind = "response" THEN 0 ELSE emitted + 1])
    /\ requests' = IF kind \in RequestKinds THEN requests \cup {emitted + 1} ELSE requests
    /\ UNCHANGED <<callVars, respChan, handler, queueVars, userVars, up, room, asked, answered, replies>>

\* It reads from its stdin, when it comes to it.
CLIReads ==
    /\ up /\ ~room
    /\ room' = TRUE
    /\ UNCHANGED <<callVars, respChan, handler, queueVars, userVars, up, asked, answered, emitted, requests, incoming, replies>>

\* The CLI exits, or the transport is closed: every later write fails.
TransportDown ==
    /\ up
    /\ up' = FALSE
    /\ UNCHANGED <<callVars, respChan, handler, queueVars, userVars, room, asked, answered, emitted, requests, incoming, replies>>

-----------------------------------------------------------------------------
CallerStep(c) ==
    \/ Begin(c) \/ Register(c) \/ WriteBlocks(c) \/ WriteRequest(c) \/ WriteFails(c)
    \/ Wait(c) \/ TakeResponse(c) \/ TimeOut(c) \/ Unregister(c)

Verdicts == {"continue", "stop", "error", "unsendable"}

HandlerStep ==
    \/ ReceiveGarbage \/ ReceiveResponse \/ ReceiveRequest \/ ReceiveStream
    \/ Deliver \/ (\E v \in Verdicts : CallbackReturns(v)) \/ CallbackPanics
    \/ ReplyBlocks \/ Reply
    \/ Push \/ DropOldest \/ SendAfterDrop \/ SendOnClosed \/ ErrorReturned

\* The first answer to request r that the CLI writes.
FirstAnswer(r) == \E q \in asked : q.of = r /\ r \notin answered /\ CLIAnswers(q)

CLIStep ==
    \/ \E q \in asked : CLIAnswers(q)
    \/ \E k \in RequestKinds \cup StreamKinds \cup {"response"} : CLIEmits(k)
    \/ CLIReads \/ TransportDown

UserStep == (\E k \in CallbackKinds : SetCallback(k)) \/ TakeMessage \/ WriteMessage \/ Close

Next ==
    /\ ~crashed
    /\ \/ \E c \in Callers : CallerStep(c)
       \/ HandlerStep \/ CLIStep \/ UserStep

Spec == Init /\ [][Next]_vars

-----------------------------------------------------------------------------
(* Safety *)

CallTypes ==
    /\ requestCounter \in Nat
    /\ DOMAIN pendingRequests \subseteq Requests
    /\ pendingRequests \in [DOMAIN pendingRequests -> Requests]
    /\ respChan \in Seq(Seq(Messages))
    /\ Len(respChan) <= MaxRequests
    /\ call \in [Callers -> [pc : CallPCs, id : Nat, ch : Nat]]
    /\ result \in [Requests -> [st : {"open", "answered", "failed"}, of : Nat]]

\* Every response channel is made with capacity 1.
ChannelsBounded == \A r \in 1 .. Len(respChan) : Len(respChan[r]) <= 1

HandlerTypes ==
    /\ handler \in Handlers
    /\ callbacks \in [CallbackKinds -> Nat]
    /\ msgChan \in Seq(Nat)
    /\ seen \in [handled : Nat, taken : Nat]
    /\ closed \in BOOLEAN /\ crashed \in BOOLEAN

CLITypes ==
    /\ up \in BOOLEAN /\ room \in BOOLEAN
    /\ incoming \in Seq(Messages)
    /\ asked \subseteq [id : Requests, of : Requests]
    /\ answered \subseteq Requests
    /\ emitted \in 0 .. MaxEmit
    /\ requests \subseteq 1 .. emitted
    /\ replies \in [1 .. MaxEmit -> Seq({"success", "error", "lost"})]

\* Every variable has its type, whatever the CLI sends.
TypeOK == CallTypes /\ ChannelsBounded /\ HandlerTypes /\ CLITypes

\* No caller ever gets the answer to another request, however late, repeated or
\* out of order the answers are and whatever the callers do meanwhile
\* (pendingRequests, the buffered response channels and generateRequestID).
OwnAnswer ==
    \A r \in Requests : result[r].st = "answered" => result[r].of = r

\* The calls between their insertion into the map and their deferred delete.
Active == {c \in Callers : call[c].pc \in {"registered", "writing", "written", "waiting", "leaving"}}

\* The pending map holds exactly the calls in progress, each under an id of its
\* own and with its own channel: nothing leaks when a call fails or times out.
PendingExact ==
    /\ DOMAIN pendingRequests = {call[c].id : c \in Active}
    /\ \A c \in Active : pendingRequests[call[c].id] = call[c].ch
    /\ \A c, d \in Active : call[c].id = call[d].id => c = d

\* The blocking second send of HandleIncoming never blocks, with or without a
\* consumer: the receive loop cannot be stopped by a full msgChan.
PushNeverBlocks ==
    handler.pc = "send" => Len(msgChan) < MsgCap

\* What the consumer sees is in the order the CLI sent it and without
\* repetition, and the newest conversation message is never the one dropped.
QueueKeepsNewest ==
    /\ \A i, j \in 1 .. Len(msgChan) : i < j => msgChan[i] < msgChan[j]
    /\ \A i \in 1 .. Len(msgChan) : msgChan[i] > seen.taken
    /\ \/ seen.handled <= seen.taken
       \/ \E i \in 1 .. Len(msgChan) : msgChan[i] = seen.handled
       \/ handler.pc = "send"

\* Every control request of the CLI that HandleIncoming has finished with was
\* answered exactly once, or its answer failed to be marshalled or written; none
\* is answered before its callbacks are done.
RepliedOnce ==
    \A n \in requests :
        LET queued == \E i \in 1 .. Len(incoming) : incoming[i].n = n /\ incoming[i].kind # "response"
            inHand == handler.pc \in {"callback", "reply", "replying"} /\ handler.msg.n = n
        IN  Len(replies[n]) = IF queued \/ inHand THEN 0 ELSE 1

\* How a request stands for its caller; an answer to another request is none
\* of the outcomes RequestReply knows.
Outcome == [r \in Requests |->
    IF r > Len(respChan) THEN "unmade"
    ELSE IF result[r].st = "answered" /\ result[r].of # r THEN "crossed" ELSE result[r].st]

RR == INSTANCE RequestReply WITH outcome <- Outcome, answers <- answered

\* Every call of SendControlRequest is a request of RequestReply: made once,
\* ended at most once, and answered only by what the CLI said to it.
ImplementsRequestReply == RR!Spec

=============================================================================
