------------------------------ MODULE MCPTransport ------------------------------
(***************************************************************************)
(* internal/mcp/transport.go: the interface MCPClient calls, and the       *)
(* switch of Manager.ConnectServer that puts StdioTransport or             *)
(* HTTPTransport behind it, by the type of the server's configuration.     *)
(* The variables of the other one keep their first values.                 *)
(***************************************************************************)
EXTENDS Naturals, Sequences

CONSTANTS
    Threads, MaxRequests, MaxStray,
    Types,              \* ServerConfig.Type of the servers looked at
    PipeCap, Sessions, MsgCap

VARIABLES
    type, closed, read, stray,
    mu, stdin, stdout, server,                              \* of StdioTransport
    sessionID, msgChan, posts, stream, assigned, crashed    \* of HTTPTransport

S == INSTANCE StdioTransport
H == INSTANCE HTTPTransport

stdioVars == <<mu, stdin, stdout, server>>
httpVars == <<sessionID, msgChan, posts, stream, assigned, crashed>>
vars == <<type, closed, read, stray, stdioVars, httpVars>>

Init ==
    /\ type \in Types
    /\ S!Init
    /\ H!Init

Stdio(A) == type = "stdio" /\ A /\ UNCHANGED <<type, httpVars>>
HTTP(A) == type \in {"http", "sse"} /\ A /\ UNCHANGED stdioVars

Connect == Stdio(S!Connect) \/ HTTP(H!Connect)
ConnectFails == Stdio(S!ConnectFails)

SendRefused == Stdio(S!SendRefused) \/ HTTP(H!SendRefused)
SendBegins(t, n) == Stdio(S!SendBegins(t)) \/ HTTP(H!SendBegins(t, n))
SendEnds(t, n) == Stdio(S!SendEnds(t, n)) \/ HTTP(~msgChan.closed /\ H!SendEnds(t))
SendBreaks(t) == Stdio(S!SendBreaks(t)) \/ HTTP(H!SendBreaks(t))
SendPanics(t) == HTTP(msgChan.closed /\ H!SendEnds(t))

\* The message that Receive returns when it ends.
Received == IF type = "stdio" THEN Head(stdout.q) ELSE Head(msgChan.q)

ReceiveRefused == Stdio(S!ReceiveRefused) \/ HTTP(H!ReceiveRefused)
ReceiveBegins == Stdio(S!ReceiveBegins) \/ HTTP(H!ReceiveBegins)
ReceiveEnds == Stdio(S!ReceiveEnds) \/ HTTP(H!ReceiveEnds)
ReceiveFails == Stdio(S!ReceiveFails) \/ HTTP(H!ReceiveFails)

\* By HTTP Close does not wait for anything.
CloseBegins(t) == Stdio(S!CloseBegins(t)) \/ HTTP(H!Close)
CloseEnds(t) == Stdio(S!CloseEnds(t)) \/ HTTP(UNCHANGED <<type, closed, read, stray, httpVars>>)

StreamStep == HTTP(H!StreamStep)
ServerStep == Stdio(S!ServerStep) \/ HTTP(H!ServerStep)

\* What a server does that reads its input and ends with it.
ServerGoesOn == Stdio(S!ServerReads \/ S!ServerWrites \/ (S!AtEndOfInput /\ S!ServerExits))

TypeOK == type \in Types /\ S!TypeOK /\ H!TypeOK
=============================================================================
