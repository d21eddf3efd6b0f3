---------------------------- MODULE StdioTransport ----------------------------
(***************************************************************************)
(* internal/mcp/stdio.go: the transport to an external MCP server, its     *)
(* mutex, the two pipes and the server process.  A transport is connected  *)
(* once, as Manager.ConnectServer does.  Each operator is one step of a    *)
(* call; the caller's action says where the call stands.                   *)
(***************************************************************************)
EXTENDS Naturals, Sequences

CONSTANTS
    Threads,        \* the goroutines that call the transport
    MaxRequests,    \* requests are numbered from 1; 0 is a notification
    MaxStray,       \* bound: lines of the server that answer nothing
    PipeCap         \* lines a pipe holds

Nobody == "nobody"

VARIABLES
    mu,             \* who holds t.mu across a wait
    closed,
    stdin,          \* [open, q]: requests on their way to the server
    stdout,         \* [open, q]: lines on their way back
    server,         \* [st, out]: the process, and the line it is writing
    read,           \* requests the server has read
    stray           \* lines so far that answer nothing

pipes == <<stdin, stdout>>
process == <<server, read, stray>>
vars == <<mu, closed, pipes, process>>

NoLine == [kind |-> "none", id |-> 0, ok |-> FALSE]
Lines == [kind : {"answer"}, id : 1 .. MaxRequests, ok : BOOLEAN]
         \cup [kind : {"notification", "garbage"}, id : {0}, ok : {FALSE}]

Init ==
    /\ mu = Nobody
    /\ closed = TRUE
    /\ stdin = [open |-> FALSE, q |-> <<>>]
    /\ stdout = [open |-> FALSE, q |-> <<>>]
    /\ server = [st |-> "none", out |-> NoLine]
    /\ read = {}
    /\ stray = 0

-----------------------------------------------------------------------------
Connect ==
    /\ mu = Nobody /\ closed
    /\ server.st = "none"
    /\ closed' = FALSE
    /\ stdin' = [stdin EXCEPT !.open = TRUE]
    /\ stdout' = [stdout EXCEPT !.open = TRUE]
    /\ server' = [server EXCEPT !.st = "running"]
    /\ UNCHANGED <<mu, read, stray>>

\* The command cannot be started.
ConnectFails ==
    /\ mu = Nobody /\ closed
    /\ UNCHANGED vars

\* Closed, or the message cannot be marshalled: the caller knows if it can.
SendRefused ==
    /\ mu = Nobody
    /\ UNCHANGED vars

\* Send holds the mutex while it writes, which waits for room in the pipe.
SendBegins(t) ==
    /\ mu = Nobody /\ ~closed
    /\ mu' = t
    /\ UNCHANGED <<closed, pipes, process>>

SendEnds(t, n) ==
    /\ mu = t
    /\ server.st = "running" /\ Len(stdin.q) < PipeCap
    /\ stdin' = [stdin EXCEPT !.q = Append(@, n)]
    /\ mu' = Nobody
    /\ UNCHANGED <<closed, stdout, process>>

SendBreaks(t) ==
    /\ mu = t
    /\ server.st = "exited"
    /\ mu' = Nobody
    /\ UNCHANGED <<closed, pipes, process>>

\* Receive takes the mutex to look at closed, and reads without it.
ReceiveRefused ==
    /\ mu = Nobody /\ closed
    /\ UNCHANGED vars

ReceiveBegins ==
    /\ mu = Nobody /\ ~closed
    /\ UNCHANGED vars

\* A line that is in the buffer is read even after Wait has closed the pipe.
ReceiveEnds ==
    /\ stdout.q # <<>>
    /\ stdout' = [stdout EXCEPT !.q = Tail(@)]
    /\ UNCHANGED <<mu, closed, stdin, process>>

ReceiveFails ==
    /\ ~stdout.open \/ (server.st = "exited" /\ stdout.q = <<>>)
    /\ UNCHANGED vars

\* Close keeps the mutex until cmd.Wait returns, that is until the server ends.
\* (On a closed transport it just returns; its one user never calls it twice.)
CloseBegins(t) ==
    /\ mu = Nobody /\ ~closed
    /\ mu' = t
    /\ closed' = TRUE
    /\ stdin' = [stdin EXCEPT !.open = FALSE]
    /\ UNCHANGED <<stdout, process>>

CloseEnds(t) ==
    /\ mu = t /\ closed
    /\ server.st = "exited"
    /\ stdout' = [stdout EXCEPT !.open = FALSE]
    /\ mu' = Nobody
    /\ UNCHANGED <<closed, stdin, process>>

-----------------------------------------------------------------------------
(* The server does one thing at a time: while it writes it does not read. *)

ServerReads ==
    /\ server.st = "running" /\ server.out = NoLine
    /\ stdin.q # <<>>
    /\ LET n == Head(stdin.q)
       IN  /\ read' = read \cup ({n} \ {0})
           /\ server' \in {server} \cup
                  {[server EXCEPT !.out = line] : line \in {l \in Lines : n > 0 /\ l.id = n}}
    /\ stdin' = [stdin EXCEPT !.q = Tail(@)]
    /\ UNCHANGED <<mu, closed, stdout, stray>>

\* A notification, a line that is no JSON, a log line, a repeated answer.
ServerAdds ==
    /\ server.st = "running" /\ server.out = NoLine
    /\ stray < MaxStray
    /\ \E line \in Lines :
          /\ line.id \in read \cup {0}
          /\ server' = [server EXCEPT !.out = line]
    /\ stray' = stray + 1
    /\ UNCHANGED <<mu, closed, pipes, read>>

ServerWrites ==
    /\ server.st = "running" /\ server.out # NoLine
    /\ Len(stdout.q) < PipeCap
    /\ stdout' = [stdout EXCEPT !.q = Append(@, server.out)]
    /\ server' = [server EXCEPT !.out = NoLine]
    /\ UNCHANGED <<mu, closed, stdin, read, stray>>

AtEndOfInput == server.out = NoLine /\ ~stdin.open /\ stdin.q = <<>>

\* At the end of its input, by itself, or killed with the context of Connect.
ServerExits ==
    /\ server.st = "running"
    /\ server' = [server EXCEPT !.st = "exited"]
    /\ UNCHANGED <<mu, closed, pipes, read, stray>>

ServerStep == ServerReads \/ ServerAdds \/ ServerWrites \/ ServerExits

TypeOK ==
    /\ mu \in Threads \cup {Nobody}
    /\ closed \in BOOLEAN
    /\ stdin \in [open : BOOLEAN, q : Seq(0 .. MaxRequests)] /\ Len(stdin.q) <= PipeCap
    /\ stdout \in [open : BOOLEAN, q : Seq(Lines)] /\ Len(stdout.q) <= PipeCap
    /\ server \in [st : {"none", "running", "exited"}, out : Lines \cup {NoLine}]
    /\ read \subseteq 1 .. MaxRequests
    /\ stray \in 0 .. MaxStray
=============================================================================
