----------------------------- MODULE HTTPTransport -----------------------------
(***************************************************************************)
(* internal/mcp/http.go: the transport to an external MCP server by HTTP.  *)
(* Send posts a message and puts what the response carries on msgChan;     *)
(* with type "sse" the goroutine startSSE adds the events of a stream.     *)
(* Sections under t.mu are short: each is one step.  A transport is        *)
(* connected once.  As in StdioTransport, an operator is one step of a     *)
(* call, and the caller's action says where the call stands.               *)
(***************************************************************************)
EXTENDS Naturals, Sequences

CONSTANTS
    Threads, MaxRequests, MaxStray,     \* as in StdioTransport
    Sessions,                           \* session ids a server may assign
    MsgCap                              \* capacity of msgChan (100 in the code)

NoSession == "none"

VARIABLES
    type,           \* ServerConfig.Type, which useSSE is made of
    closed,
    sessionID,
    msgChan,        \* [closed, q]
    posts,          \* the POST of each goroutine that is in Send
    stream,         \* startSSE: where, its context, its body, a message in hand
    assigned,       \* the session id the server has given out
    read, stray,    \* as in StdioTransport
    crashed         \* a send on the closed msgChan: the program is gone

serverSide == <<assigned, read, stray>>
vars == <<type, closed, sessionID, msgChan, posts, stream, serverSide, crashed>>

\* What the receiver tells apart; a message without an id, or with a method, is
\* a notification to it.
Answers == [kind : {"answer"}, id : 1 .. MaxRequests, ok : BOOLEAN]
Notification == [kind |-> "notification", id |-> 0, ok |-> FALSE]

\* No 200 with a JSON message: no connection, another status, another body.
Failure == [kind |-> "failure", id |-> 0, ok |-> FALSE]

NoPost == [st |-> "none", n |-> 0, sid |-> NoSession, msg |-> Failure, session |-> NoSession]
NoStream == [pc |-> "none", cancelled |-> FALSE, shut |-> FALSE, msg |-> Failure]

Init ==
    /\ closed = TRUE
    /\ sessionID = NoSession
    /\ msgChan = [closed |-> FALSE, q |-> <<>>]
    /\ posts = [t \in Threads |-> NoPost]
    /\ stream = NoStream
    /\ assigned = NoSession
    /\ read = {}
    /\ stray = 0
    /\ crashed = FALSE

-----------------------------------------------------------------------------
Connect ==
    /\ closed
    /\ closed' = FALSE
    /\ stream' = IF type = "sse" THEN [stream EXCEPT !.pc = "connect"] ELSE stream
    /\ UNCHANGED <<type, sessionID, msgChan, posts, serverSide, crashed>>

\* A send on msgChan that never waits: it drops what there is no room for, and
\* panics when Close was faster.
Offer(msg) ==
    IF msgChan.closed
      THEN crashed' = TRUE /\ UNCHANGED msgChan
      ELSE /\ msgChan' = IF Len(msgChan.q) < MsgCap
                         THEN [msgChan EXCEPT !.q = Append(@, msg)] ELSE msgChan
           /\ UNCHANGED crashed

-----------------------------------------------------------------------------
(* Send: closed is checked, then the request is made without the lock.  The *)
(* context of the caller is not part of it.                                 *)

\* Closed, or there is no request to make of the message.
SendRefused == UNCHANGED vars

\* Message n leaves with the session id known by now; 0 is a notification.  (A
\* Close between the check and the departure is as one right after it.)
SendBegins(t, n) ==
    /\ ~closed
    /\ posts' = [posts EXCEPT ![t] = [NoPost EXCEPT !.st = "posted", !.n = n, !.sid = sessionID]]
    /\ read' = read \cup ({n} \ {0})
    /\ UNCHANGED <<type, closed, sessionID, msgChan, stream, assigned, stray, crashed>>

\* Mutant: a response without the header clears the session id.
KeepSessionAlways(session) == sessionID' = session

KeepSession(session) ==
    sessionID' = IF session = NoSession THEN sessionID ELSE session

\* The session id is kept whatever the status of the response.
SendBreaks(t) ==
    /\ posts[t].st = "responded" /\ posts[t].msg = Failure
    /\ KeepSession(posts[t].session)
    /\ posts' = [posts EXCEPT ![t] = NoPost]
    /\ UNCHANGED <<type, closed, msgChan, stream, serverSide, crashed>>

SendEnds(t) ==
    /\ posts[t].st = "responded" /\ posts[t].msg # Failure
    /\ KeepSession(posts[t].session)
    /\ Offer(posts[t].msg)
    /\ posts' = [posts EXCEPT ![t] = NoPost]
    /\ UNCHANGED <<type, closed, stream, serverSide>>

-----------------------------------------------------------------------------
(* Receive and Close *)

ReceiveRefused ==
    /\ closed
    /\ UNCHANGED vars

ReceiveBegins ==
    /\ ~closed
    /\ UNCHANGED vars

\* What is in a closed channel is still received.
ReceiveEnds ==
    /\ msgChan.q # <<>>
    /\ msgChan' = [msgChan EXCEPT !.q = Tail(@)]
    /\ UNCHANGED <<type, closed, sessionID, posts, stream, serverSide, crashed>>

ReceiveFails ==
    /\ msgChan.closed /\ msgChan.q = <<>>
    /\ UNCHANGED vars

\* Mutant: Close closes the body of the stream and leaves its context alone.
CloseStreamOnly ==
    /\ ~closed
    /\ closed' = TRUE
    /\ msgChan' = [msgChan EXCEPT !.closed = TRUE]
    /\ stream' = [stream EXCEPT !.shut = stream.pc \in {"read", "push", "done"}]
    /\ UNCHANGED <<type, sessionID, posts, serverSide, crashed>>

\* sseResp is set, and its body closed here, once startSSE has come to its loop.
Close ==
    /\ ~closed
    /\ closed' = TRUE
    /\ msgChan' = [msgChan EXCEPT !.closed = TRUE]
    /\ stream' = [stream EXCEPT !.cancelled = TRUE,
                                !.shut = stream.pc \in {"read", "push", "done"}]
    /\ UNCHANGED <<type, sessionID, posts, serverSide, crashed>>

-----------------------------------------------------------------------------
(* startSSE *)

StreamGoto(pc) == stream' = [stream EXCEPT !.pc = pc]
onlyStream == <<type, closed, sessionID, msgChan, posts, serverSide, crashed>>

\* At the head of the loop the context is looked at, then a line is waited for.
LoopHead == IF stream.cancelled THEN "done" ELSE "read"

\* The response is here; sseResp is set under the lock.
SetResponse ==
    /\ stream.pc = "opened"
    /\ StreamGoto(LoopHead)
    /\ UNCHANGED onlyStream

PushEvent ==
    /\ stream.pc = "push"
    /\ Offer(stream.msg)
    /\ stream' = [stream EXCEPT !.pc = LoopHead, !.msg = Failure]
    /\ UNCHANGED <<type, closed, sessionID, posts, serverSide>>

\* The request fails, or a read of its body.
StreamFails ==
    /\ stream.pc \in {"connect", "read"}
    /\ StreamGoto("done")
    /\ UNCHANGED onlyStream

\* A cancelled request or a closed body lets nobody wait.
StreamStep == SetResponse \/ PushEvent
              \/ ((stream.cancelled \/ stream.shut) /\ StreamFails)

-----------------------------------------------------------------------------
(* The server *)

\* A server that has sessions assigns one with its response to request 1, which
\* is initialize, and may repeat it in any other.
ServerResponds(t) ==
    /\ posts[t].st = "posted"
    /\ \E msg \in Answers \cup {Notification, Failure}, session \in Sessions \cup {NoSession} :
          /\ msg.kind = "answer" => msg.id \in read
          /\ LET stranger == msg.kind = "answer" /\ msg.id # posts[t].n
             IN  /\ stranger => stray < MaxStray
                 /\ stray' = IF stranger THEN stray + 1 ELSE stray
          /\ session \in {assigned, NoSession} \/ posts[t].n = 1
          /\ assigned' = IF posts[t].n = 1 THEN session ELSE assigned
          /\ posts' = [posts EXCEPT ![t] =
                          [NoPost EXCEPT !.st = "responded", !.msg = msg, !.session = session]]
    /\ UNCHANGED <<type, closed, sessionID, msgChan, stream, read, crashed>>

ServerOpensStream ==
    /\ stream.pc = "connect" /\ ~stream.cancelled
    /\ StreamGoto("opened")
    /\ UNCHANGED onlyStream

\* An event with a message, or a line that is skipped.
ServerSendsEvent ==
    /\ stream.pc = "read"
    /\ stray < MaxStray
    /\ \/ \E msg \in Answers \cup {Notification} :
             /\ msg.id \in read \cup {0}
             /\ stream' = [stream EXCEPT !.pc = "push", !.msg = msg]
       \/ StreamGoto(LoopHead)
    /\ stray' = stray + 1
    /\ UNCHANGED <<type, closed, sessionID, msgChan, posts, assigned, read, crashed>>

ServerStep ==
    \/ \E t \in Threads : ServerResponds(t)
    \/ ServerOpensStream \/ ServerSendsEvent \/ StreamFails

PostStates == {"none", "posted", "responded"}
StreamPCs == {"none", "connect", "opened", "read", "push", "done"}

TypeOK ==
    /\ {closed, crashed} \subseteq BOOLEAN
    /\ {sessionID, assigned} \subseteq Sessions \cup {NoSession}
    /\ msgChan \in [closed : BOOLEAN, q : Seq(Answers \cup {Notification})]
    /\ Len(msgChan.q) <= MsgCap
    /\ posts \in [Threads -> [st : PostStates, n : 0 .. MaxRequests,
                              sid : Sessions \cup {NoSession},
                              msg : Answers \cup {Notification, Failure},
                              session : Sessions \cup {NoSession}]]
    /\ stream \in [pc : StreamPCs, cancelled : BOOLEAN, shut : BOOLEAN,
                   msg : Answers \cup {Notification, Failure}]
    /\ read \subseteq 1 .. MaxRequests
    /\ stray \in 0 .. MaxStray
=============================================================================
