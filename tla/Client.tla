-------------------------------- MODULE Client --------------------------------
(***************************************************************************)
(* claude/client.go: the goroutines inside the methods of a Client, and    *)
(* its receive loop, on top of the ProtocolHandler.  Every step here is a  *)
(* step of ControlProtocol together with what the client does, or leaves   *)
(* the handler alone.  Connect holds the client's mutex for the whole      *)
(* handshake, the other methods hold it shared until they return, and the  *)
(* receive loop runs without it.                                           *)
(***************************************************************************)
EXTENDS RWMutex, Naturals, Sequences

CONSTANTS
    Callers, MaxRequests, MaxEmit, MaxCallbacks, MsgCap, PipeCap, TimersFire,
    MaxOps,         \* bound: calls of methods of the client in a behaviour
    MaxErrors,      \* bound: errors the transport reports in a behaviour
    ErrCap,         \* capacity of Client.errChan (10 in the code)
    Sessions,       \* session ids the CLI may use
    Methods,        \* the methods that are called
    CanUseTool,     \* Options.CanUseTool is set
    Loop            \* the receive loop, if in Callers: a callback may call methods

None == "none"

ASSUME ClientAssumption ==
    /\ {MaxOps, MaxErrors, MaxRequests, MaxEmit, MaxCallbacks} \subseteq Nat
    /\ {ErrCap, MsgCap, PipeCap} \subseteq Nat \ {0}
    /\ TimersFire \in BOOLEAN
    /\ MaxOps <= MaxRequests
    /\ CanUseTool \in BOOLEAN /\ (CanUseTool => MaxCallbacks = 1)
    /\ None \notin Sessions

VARIABLES
    requestCounter, pendingRequests, respChan, call, result, handler, callbacks,
    msgChan, seen, closed, crashed, up, room, incoming, asked, answered, emitted,
    requests, replies,
    mu,             \* Client.mu
    thread,         \* each goroutine: the method it is in, where, a session id
    stopped,        \* Client.closed, and with it closeChan
    attached,       \* Client.transport and Client.protocol are set
    sessionID,      \* Client.sessionID, an atomic pointer
    loop,           \* the receive loop
    errors,         \* length of Client.errChan
    failures,       \* errors the transport has reported
    ops             \* calls so far

CP == INSTANCE ControlProtocol

protocol == <<requestCounter, pendingRequests, respChan, call, result, handler,
              callbacks, msgChan, seen, closed, crashed, up, room, incoming, asked,
              answered, emitted, requests, replies>>
shared == <<mu, stopped, attached, sessionID>>
reports == <<errors, failures>>
client == <<shared, thread, loop, reports, ops>>
vars == <<protocol, client>>

Idle == [op |-> None, pc |-> "idle", sid |-> None]

Init ==
    /\ CP!Init
    /\ mu = Unlocked
    /\ thread = [t \in Callers |-> Idle]
    /\ stopped = FALSE
    /\ attached = "no"
    /\ sessionID = None
    /\ loop = [pc |-> "none", sid |-> None]
    /\ errors = 0 /\ failures = 0 /\ ops = 0

-----------------------------------------------------------------------------
Goto(t, l) == thread' = [thread EXCEPT ![t].pc = l]
At(t, op, l) == thread[t].op = op /\ thread[t].pc = l
Returns(t) == thread' = [thread EXCEPT ![t] = Idle]

Exclusive == {"connect", "close"}

\* A method is called.  Connect and Close ask for the lock, the others for a
\* share of it.  The receive loop calls only from within a callback.  Bound:
\* one call of Connect.
Enter(t, op) ==
    /\ thread[t] = Idle
    /\ t = Loop => handler.pc = "callback"
    /\ ops < MaxOps
    /\ op = "connect" => attached = "no" /\ \A u \in Callers : thread[u].op # "connect"
    /\ ops' = ops + 1
    /\ thread' = [thread EXCEPT ![t] = [op |-> op, pc |-> "lock", sid |-> None]]
    /\ mu' = IF op \in Exclusive THEN mu ELSE RLock(mu, t)
    /\ UNCHANGED <<protocol, stopped, attached, sessionID, loop, reports>>

AnnounceLock(t) ==
    /\ thread[t].pc = "lock" /\ thread[t].op \in Exclusive
    /\ CanAnnounce(mu)
    /\ mu' = Announce(mu, t)
    /\ UNCHANGED <<protocol, stopped, attached, sessionID, thread, loop, reports, ops>>

-----------------------------------------------------------------------------
(* Connect, Interrupt and RewindFiles *)

\* Refused when closed, or the CLI does not start.
ConnectRefused(t) ==
    /\ At(t, "connect", "lock") /\ HoldsLock(mu, t)
    /\ IF stopped THEN UNCHANGED attached ELSE attached' = "failed"
    /\ mu' = Unlock(mu)
    /\ Returns(t)
    /\ UNCHANGED <<protocol, stopped, sessionID, loop, reports, ops>>

\* Mutant: the lock is given back before the handshake.
ConnectUnlocked(t) ==
    /\ At(t, "connect", "lock") /\ HoldsLock(mu, t)
    /\ ~stopped
    /\ attached' = "yes"
    /\ IF CanUseTool THEN CP!SetCallback("can_use_tool") ELSE UNCHANGED protocol
    /\ loop' = [loop EXCEPT !.pc = "select"]
    /\ mu' = Unlock(mu)
    /\ Goto(t, "begin")
    /\ UNCHANGED <<stopped, sessionID, reports, ops>>

\* The transport is connected, the callback set and the receive loop started;
\* the lock is kept.
Connect(t) ==
    /\ At(t, "connect", "lock") /\ HoldsLock(mu, t)
    /\ ~stopped
    /\ attached' = "yes"
    /\ IF CanUseTool THEN CP!SetCallback("can_use_tool") ELSE UNCHANGED protocol
    /\ loop' = [loop EXCEPT !.pc = "select"]
    /\ Goto(t, "begin")
    /\ UNCHANGED <<mu, stopped, sessionID, reports, ops>>

\* Mutant: the lock guards the check only.
CheckOpenThenUnlock(t) ==
    /\ thread[t].op \in {"interrupt", "rewind"}
    /\ thread[t].pc = "lock" /\ HoldsRLock(mu, t)
    /\ mu' = RUnlock(mu, t)
    /\ IF stopped \/ attached # "yes" THEN Returns(t) ELSE Goto(t, "begin")
    /\ UNCHANGED <<protocol, stopped, attached, sessionID, loop, reports, ops>>

\* Mutant: the error return keeps the lock.
CheckOpenKeepingLock(t) ==
    /\ thread[t].op \in {"interrupt", "rewind"}
    /\ thread[t].pc = "lock" /\ HoldsRLock(mu, t)
    /\ IF stopped \/ attached # "yes" THEN Returns(t) ELSE Goto(t, "begin")
    /\ UNCHANGED <<protocol, mu, stopped, attached, sessionID, loop, reports, ops>>

\* Interrupt and RewindFiles, with the lock shared.
CheckOpen(t) ==
    /\ thread[t].op \in {"interrupt", "rewind"}
    /\ thread[t].pc = "lock" /\ HoldsRLock(mu, t)
    /\ IF stopped \/ attached # "yes" THEN Returns(t) /\ mu' = RUnlock(mu, t)
                                      ELSE Goto(t, "begin") /\ UNCHANGED mu
    /\ UNCHANGED <<protocol, stopped, attached, sessionID, loop, reports, ops>>

\* SendControlRequest, from the call to its return.
BeginRequest(t) ==
    /\ thread[t].pc = "begin"
    /\ CP!Begin(t)
    /\ Goto(t, "request")
    /\ UNCHANGED <<shared, loop, reports, ops>>

RequestStep(t) ==
    /\ thread[t].pc = "request"
    /\ \/ CP!Register(t) \/ CP!WriteBlocks(t) \/ CP!WriteRequest(t)
       \/ CP!WriteFails(t) \/ CP!Wait(t) \/ CP!TakeResponse(t)
    /\ UNCHANGED client

RequestTimesOut(t) ==
    /\ thread[t].pc = "request"
    /\ CP!TimeOut(t)
    /\ UNCHANGED client

EndRequest(t) ==
    /\ thread[t].pc = "request"
    /\ CP!Unregister(t)
    /\ Goto(t, "response")
    /\ UNCHANGED <<shared, loop, reports, ops>>

Answered(t) == result[call[t].ch].st = "answered"

RequestReturns(t) ==
    /\ thread[t].op \in {"interrupt", "rewind"} /\ thread[t].pc = "response"
    /\ mu' = RUnlock(mu, t)
    /\ Returns(t)
    /\ UNCHANGED <<protocol, stopped, attached, sessionID, loop, reports, ops>>

\* Somebody is inside transport.Write, with a share of the transport's mutex.
Writing ==
    \/ \E t \in Callers : thread[t].pc = "writing" \/ call[t].pc = "writing"
    \/ handler.pc = "replying"

\* transport.Close, which takes that mutex; the transport may be down already.
TransportCloses ==
    /\ ~Writing
    /\ IF up THEN CP!TransportDown ELSE UNCHANGED protocol

\* No answer, or an answer that is an error: the CLI is stopped again.
InitializeFails(t) ==
    /\ At(t, "connect", "response")
    /\ TransportCloses
    /\ mu' = Unlock(mu)
    /\ Returns(t)
    /\ UNCHANGED <<stopped, attached, sessionID, loop, reports, ops>>

\* extractSessionIDFromResponse: the answer may carry a session id.
LoadFromResponse(t) ==
    /\ At(t, "connect", "response") /\ Answered(t)
    /\ \/ /\ sessionID = None
          /\ \E sid \in Sessions :
                thread' = [thread EXCEPT ![t] = [op |-> "connect", pc |-> "store", sid |-> sid]]
          /\ UNCHANGED mu
       \/ Returns(t) /\ mu' = Unlock(mu)
    /\ UNCHANGED <<protocol, stopped, attached, sessionID, loop, reports, ops>>

\* Mutant: a plain store instead of the compare-and-swap.
Store(sid) == sessionID' = sid
CompareAndSwap(sid) == sessionID' = IF sessionID = None THEN sid ELSE sessionID

StoreFromResponse(t) ==
    /\ At(t, "connect", "store")
    /\ CompareAndSwap(thread[t].sid)
    /\ mu' = Unlock(mu)
    /\ Returns(t)
    /\ UNCHANGED <<protocol, stopped, attached, loop, reports, ops>>

-----------------------------------------------------------------------------
(* Send, SendToolResult and Close *)

CheckSend(t) ==
    /\ thread[t].op \in {"send", "tool_result"}
    /\ thread[t].pc = "lock" /\ HoldsRLock(mu, t)
    /\ IF stopped \/ attached = "no" THEN Returns(t) /\ mu' = RUnlock(mu, t)
       ELSE Goto(t, IF thread[t].op = "send" THEN "hook" ELSE "write") /\ UNCHANGED mu
    /\ UNCHANGED <<protocol, stopped, attached, sessionID, loop, reports, ops>>

\* The UserPromptSubmit hooks run with the lock held; they may block the message.
HookReturns(t) ==
    /\ thread[t].pc = "hook"
    /\ \/ Goto(t, "write") /\ UNCHANGED mu
       \/ Returns(t) /\ mu' = RUnlock(mu, t)
    /\ UNCHANGED <<protocol, stopped, attached, sessionID, loop, reports, ops>>

Listening == attached = "yes" /\ up

\* transport.Write, with the lock held and no deadline: there is no room ...
WriteBlocks(t) ==
    /\ thread[t].pc = "write"
    /\ Listening /\ ~room
    /\ Goto(t, "writing")
    /\ UNCHANGED <<protocol, shared, loop, reports, ops>>

\* ... the message is written ...
Write(t) ==
    /\ thread[t].pc \in {"write", "writing"}
    /\ Listening /\ CP!WriteMessage
    /\ mu' = RUnlock(mu, t)
    /\ Returns(t)
    /\ UNCHANGED <<stopped, attached, sessionID, loop, reports, ops>>

\* ... or it cannot be: a result that cannot be marshalled, the transport down.
WriteFails(t) ==
    /\ thread[t].pc \in {"write", "writing"}
    /\ At(t, "tool_result", "write") \/ ~Listening
    /\ mu' = RUnlock(mu, t)
    /\ Returns(t)
    /\ UNCHANGED <<protocol, stopped, attached, sessionID, loop, reports, ops>>

\* close(closeChan); a second Close returns.
Close(t) ==
    /\ At(t, "close", "lock") /\ HoldsLock(mu, t)
    /\ stopped' = TRUE
    /\ IF stopped \/ attached = "no" THEN Returns(t) /\ mu' = Unlock(mu)
       ELSE Goto(t, IF attached = "yes" THEN "closeProtocol" ELSE "closeTransport") /\ UNCHANGED mu
    /\ UNCHANGED <<protocol, attached, sessionID, loop, reports, ops>>

CloseProtocol(t) ==
    /\ thread[t].pc = "closeProtocol"
    /\ CP!Close
    /\ Goto(t, "closeTransport")
    /\ UNCHANGED <<shared, loop, reports, ops>>

CloseTransport(t) ==
    /\ thread[t].pc = "closeTransport"
    /\ TransportCloses
    /\ mu' = Unlock(mu)
    /\ Returns(t)
    /\ UNCHANGED <<stopped, attached, sessionID, loop, reports, ops>>

-----------------------------------------------------------------------------
(* receiveLoop *)

LoopGoto(l) == loop' = [pc |-> l, sid |-> None]

\* closeChan is closed, the transport has closed Messages(), or the context of
\* Connect has ended.
LoopStops ==
    /\ loop.pc = "select"
    /\ stopped \/ ~up \/ TimersFire
    /\ LoopGoto("done")
    /\ UNCHANGED <<protocol, shared, thread, reports, ops>>

TransportError ==
    /\ loop.pc = "select"
    /\ failures < MaxErrors
    /\ failures' = failures + 1
    /\ LoopGoto("report")
    /\ UNCHANGED <<protocol, shared, thread, errors, ops>>

LoopReceives ==
    /\ loop.pc = "select"
    /\ incoming # <<>>
    /\ LoopGoto("load")
    /\ UNCHANGED <<protocol, shared, thread, reports, ops>>

\* Mutant: the session id is read and set under the client's mutex.
LoadUnderLock ==
    /\ loop.pc = "load"
    /\ mu.writer = {} /\ mu.readers = {}
    /\ LoopGoto("handle")
    /\ UNCHANGED <<protocol, shared, thread, reports, ops>>

\* extractSessionIDFromRawMessage: a result message may carry a session id, and
\* so may the data of a system message.
LoadFromMessage ==
    /\ loop.pc = "load"
    /\ \/ LoopGoto("handle")
       \/ /\ sessionID = None /\ Head(incoming).kind = "conversation"
          /\ \E sid \in Sessions : loop' = [pc |-> "store", sid |-> sid]
    /\ UNCHANGED <<protocol, shared, thread, reports, ops>>

StoreFromMessage ==
    /\ loop.pc = "store"
    /\ CompareAndSwap(loop.sid)
    /\ LoopGoto("handle")
    /\ UNCHANGED <<protocol, mu, stopped, attached, thread, reports, ops>>

\* HandleIncoming, from the call to its return.
HandleMessage ==
    /\ loop.pc = "handle"
    /\ CP!ReceiveGarbage \/ CP!ReceiveResponse \/ CP!ReceiveRequest \/ CP!ReceiveStream
    /\ LoopGoto(IF handler'.pc = "idle" THEN "select" ELSE "handling")
    /\ UNCHANGED <<shared, thread, reports, ops>>

\* A callback that called a method returns after it.
CallbackDone == Loop \in Callers => thread[Loop] = Idle

HandleStep ==
    /\ loop.pc = "handling"
    /\ \/ CP!Deliver \/ CP!ReplyBlocks \/ CP!Reply \/ CP!Push \/ CP!DropOldest
       \/ CP!SendAfterDrop \/ CP!SendOnClosed
       \/ CallbackDone /\ (CP!CallbackPanics \/ \E v \in CP!Verdicts : CP!CallbackReturns(v))
    /\ LoopGoto(IF handler'.pc = "idle" THEN "select" ELSE "handling")
    /\ UNCHANGED <<shared, thread, reports, ops>>

HandleFails ==
    /\ loop.pc = "handling"
    /\ CP!ErrorReturned
    /\ LoopGoto("report")
    /\ UNCHANGED <<shared, thread, reports, ops>>

\* Mutant: the error is appended to a slice.
ReportUnbounded ==
    /\ loop.pc = "report"
    /\ errors' = errors + 1
    /\ LoopGoto("select")
    /\ UNCHANGED <<protocol, shared, thread, failures, ops>>

\* Blocks while errChan is full.
Report ==
    /\ loop.pc = "report"
    /\ errors < ErrCap
    /\ errors' = errors + 1
    /\ LoopGoto("select")
    /\ UNCHANGED <<protocol, shared, thread, failures, ops>>

\* The application receives from Errors().
TakeError ==
    /\ errors > 0
    /\ errors' = errors - 1
    /\ UNCHANGED <<protocol, shared, thread, loop, failures, ops>>

\* The CLI acts, and the application receives from Messages().
Environment ==
    /\ attached = "yes"
    /\ CP!CLIStep \/ CP!TakeMessage
    /\ UNCHANGED client

-----------------------------------------------------------------------------
\* What a goroutine does by itself, deadlines apart.
MethodStep(t) ==
    \/ AnnounceLock(t) \/ ConnectRefused(t) \/ Connect(t) \/ CheckOpen(t)
    \/ BeginRequest(t) \/ RequestStep(t) \/ EndRequest(t) \/ RequestReturns(t)
    \/ InitializeFails(t) \/ LoadFromResponse(t) \/ StoreFromResponse(t)
    \/ CheckSend(t) \/ HookReturns(t) \/ WriteBlocks(t) \/ Write(t) \/ WriteFails(t)
    \/ Close(t) \/ CloseProtocol(t) \/ CloseTransport(t)

LoopStep ==
    \/ LoopStops \/ LoopReceives \/ LoadFromMessage
    \/ StoreFromMessage \/ HandleMessage \/ HandleStep \/ HandleFails \/ Report

Next ==
    /\ ~crashed
    /\ \/ \E t \in Callers : \/ \E op \in Methods : Enter(t, op)
                             \/ MethodStep(t) \/ RequestTimesOut(t)
       \/ LoopStep \/ TransportError \/ TakeError \/ Environment

Spec == Init /\ [][Next]_vars

-----------------------------------------------------------------------------
(* Safety *)

MethodPCs == {"idle", "lock", "begin", "request", "response", "store", "hook", "write",
              "writing", "closeProtocol", "closeTransport"}
LoopPCs == {"none", "select", "load", "store", "handle", "handling", "report", "done"}

\* The variables of the client have their types; those of the handler have them
\* by ControlProtocol.
TypeOK ==
    /\ mu \in MutexOver(Callers)
    /\ thread \in [Callers -> [op : Methods \cup {None}, pc : MethodPCs, sid : Sessions \cup {None}]]
    /\ stopped \in BOOLEAN
    /\ attached \in {"no", "failed", "yes"}
    /\ sessionID \in Sessions \cup {None}
    /\ loop \in [pc : LoopPCs, sid : Sessions \cup {None}]
    /\ errors \in 0 .. ErrCap
    /\ failures \in 0 .. MaxErrors
    /\ ops \in 0 .. MaxOps

\* A goroutine that passed the check of closed and transport, or took the lock
\* for Connect, and has not returned.
InProgress(t) == thread[t].pc \in {"begin", "request", "response", "store", "hook", "write", "writing"}

\* While Connect waits for the answer to initialize, nothing else is sent to the
\* CLI: no other method is past its check.
InitializeAlone ==
    \A t \in Callers : thread[t].op = "connect" /\ InProgress(t) =>
        \A u \in Callers \ {t} : ~InProgress(u) /\ thread[u].pc \notin {"closeProtocol", "closeTransport"}

\* Once Close has set closed, no method is in progress and no request pending:
\* the handler and the transport are closed under nobody's feet.
CloseIsLast ==
    stopped => /\ \A t \in Callers : ~InProgress(t)
               /\ DOMAIN pendingRequests = {}

\* The session id, once known, never changes, although Connect and the receive
\* loop may find different ones at the same time.
SessionIDStable == [][sessionID # None => sessionID' = sessionID]_vars

-----------------------------------------------------------------------------
(* Liveness *)

\* Every goroutine that can run does.  (Deadlines are not part of this.)
ClientFairness ==
    /\ \A t \in Callers : WF_vars(~crashed /\ MethodStep(t))
    /\ WF_vars(~crashed /\ LoopStep)

FairSpec == Spec /\ ClientFairness

\* The CLI answers every request it reads.
CLIAnswers ==
    \A r \in CP!Requests : SF_vars(~crashed /\ CP!FirstAnswer(r) /\ UNCHANGED client)

\* The CLI comes to read its stdin.
CLIListens == WF_vars(~crashed /\ CP!CLIReads /\ UNCHANGED client)

\* The deadline of a request that waits comes.
Deadlines == \A t \in Callers : WF_vars(~crashed /\ RequestTimesOut(t))

\* The receive loop is held up by the application, which does not read Errors()
\* or calls a method in a callback, or has ended with the context of Connect.
LoopBlocked ==
    \/ loop.pc = "report" /\ errors = ErrCap
    \/ Loop \in Callers /\ thread[Loop].op # None
    \/ loop.pc = "done"

\* Connect completes by the answer of a CLI that reads and answers, before and
\* without any deadline, whatever else the CLI sends meanwhile (the session id
\* included), unless the receive loop is held up or has ended.
ConnectCompletes == CLIAnswers /\ CLIListens =>
    \A t \in Callers : thread[t].op = "connect" ~>
        thread[t].op # "connect" \/ crashed \/ ~up \/ LoopBlocked

\* Every method returns in the end, with deadlines, if the CLI reads its stdin:
\* even if it answers nothing, nobody reads Errors() or Messages(), and a
\* callback on the receive loop calls methods itself.  Without CLIListens a
\* write waits in the pipe with the locks held and no deadline running.
MethodsReturn == Deadlines /\ CLIListens =>
    \A t \in Callers : thread[t].op # None ~> thread[t].op = None \/ crashed

-----------------------------------------------------------------------------
(* What the repository says and this code does not do: a run refutes it *)

\* README.md:159: Close takes a client in session to the state Closed, the
\* receive loop notwithstanding.
CloseIsClean == ~crashed
=============================================================================
