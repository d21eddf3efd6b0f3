------------------------- MODULE SubprocessTransport -------------------------
(***************************************************************************)
(* internal/transport/subprocess.go: the CLI as a child process, three     *)
(* goroutines (readLoop, readStderr, waitProcess) and the calls of the     *)
(* client (Connect, Write, EndInput, Close), which meet at the RWMutex mu, *)
(* at the pipes of the process and at the channels msgChan and errChan.    *)
(*                                                                         *)
(* A line of the CLI's stdout is a message of its own (whole), one of the  *)
(* two parts of a message printed over several lines (head, tail), text    *)
(* that is no JSON object (noise), an empty line (blank) or a line longer  *)
(* than the scanner accepts (huge).  Messages are numbered as printed.     *)
(* Sizes are counted in lines.                                             *)
(***************************************************************************)
EXTENDS RWMutex, Naturals, Sequences

CONSTANTS
    Writers,        \* goroutines that call Write
    Calls,          \* which of Close ("closer") and EndInput ("ender") are called
    MaxMessages,    \* bound: messages the CLI prints in a behaviour
    MaxStray,       \* bound: noise, blank and huge lines it prints
    MaxStderr,      \* bound: lines it prints on stderr
    MaxCalls,       \* bound: calls of Write, Close and EndInput in a behaviour
    MaxBufferSize,  \* Config.MaxBufferSize
    MsgCap,         \* capacity of msgChan (100 in the code)
    ErrCap,         \* capacity of errChan (10 in the code)
    PipeCap,        \* lines the stdout pipe holds, and the stderr pipe
    StdinCap        \* messages the stdin pipe holds

ASSUME SizesAssumption ==
    /\ Calls \subseteq {"closer", "ender"}
    /\ Writers \cap {"reader", "stderr", "waiter", "closer", "ender"} = {}
    /\ {MaxMessages, MaxStray, MaxStderr, MaxCalls} \subseteq Nat
    /\ {MaxBufferSize, MsgCap, ErrCap, PipeCap, StdinCap} \subseteq Nat \ {0}

Goroutines == {"reader", "stderr", "waiter"}
Threads == Goroutines \cup Calls \cup Writers

VARIABLES
    pc,             \* where each goroutine and each call is
    mu,             \* SubprocessTransport.mu
    connected, closed, processStatus, stderrBuf,    \* guarded by mu
    scan,           \* lines the bufio.Scanner has read and not returned
    jsonBuffer,     \* lines read since the last complete message
    msgChan, errChan,
    stdin, stdout, stderr,  \* the pipes: open, and what they hold
    cli,            \* the process: state, exit code, whether it was killed
    printed,        \* what it has printed; mid: the tail of a message is due
    calls,          \* calls of the client so far
    received,       \* messages the client has taken from msgChan
    crashed         \* a send on a closed channel

guarded == <<connected, closed, processStatus, stderrBuf>>
output == <<scan, jsonBuffer, msgChan>>
pipes == <<stdin, stdout, stderr>>
process == <<cli, printed>>
app == <<calls, received>>
vars == <<pc, mu, guarded, output, errChan, pipes, process, app, crashed>>

LineKinds == {"whole", "head", "tail", "noise", "blank", "huge"}
Lines == [kind : LineKinds, n : Nat]
ExitCodes == {"ok", "error", "signal"}
NoStatus == [code |-> "none", stderr |-> 0]

Init ==
    /\ pc = [t \in Threads |-> "idle"]
    /\ mu = Unlocked
    /\ connected = FALSE /\ closed = FALSE
    /\ processStatus = NoStatus /\ stderrBuf = 0
    /\ scan = <<>> /\ jsonBuffer = <<>>
    /\ msgChan = [q |-> <<>>, closed |-> FALSE]
    /\ errChan = [q |-> <<>>, closed |-> FALSE]
    /\ stdin = [open |-> FALSE, n |-> 0]
    /\ stdout = [open |-> FALSE, q |-> <<>>]
    /\ stderr = [open |-> FALSE, n |-> 0]
    /\ cli = [st |-> "none", code |-> "none", killed |-> FALSE]
    /\ printed = [messages |-> 0, mid |-> FALSE, stray |-> 0, noise |-> FALSE, stderr |-> 0]
    /\ calls = 0 /\ received = <<>>
    /\ crashed = FALSE

-----------------------------------------------------------------------------
Goto(t, l) == pc' = [pc EXCEPT ![t] = l]

\* Connect, under the lock: nobody else uses the transport before it returns.
\* Bound: a transport is connected once, as in Client.Connect and Query.
Connect ==
    /\ cli.st = "none"
    /\ pc' = [t \in Threads |-> CASE t \in {"reader", "stderr"} -> "scan"
                                  [] t = "waiter" -> "wait"
                                  [] OTHER -> "idle"]
    /\ cli' = [cli EXCEPT !.st = "running"]
    /\ connected' = TRUE
    /\ stdin' = [stdin EXCEPT !.open = TRUE]
    /\ stdout' = [stdout EXCEPT !.open = TRUE]
    /\ stderr' = [stderr EXCEPT !.open = TRUE]
    /\ UNCHANGED <<mu, closed, processStatus, stderrBuf, output, errChan, printed, app, crashed>>

\* cmd.Start fails, for example because there is no CLI.
ConnectFails ==
    /\ cli.st = "none"
    /\ cli' = [cli EXCEPT !.st = "failed"]
    /\ UNCHANGED <<pc, mu, guarded, output, errChan, pipes, printed, app, crashed>>

\* The first half of t.mu.Lock(); the second is a conjunct of each section.
AnnounceLock(t) ==
    /\ pc[t] = "lock"
    /\ CanAnnounce(mu)
    /\ mu' = Announce(mu, t)
    /\ UNCHANGED <<pc, guarded, output, errChan, pipes, process, app, crashed>>

-----------------------------------------------------------------------------
(* readLoop *)

\* The scanner's read: whatever the pipe has at that moment.
Fill ==
    /\ pc["reader"] = "scan" /\ scan = <<>>
    /\ stdout.open
    /\ \E k \in 1 .. Len(stdout.q) :
          /\ scan' = SubSeq(stdout.q, 1, k)
          /\ stdout' = [stdout EXCEPT !.q = SubSeq(@, k + 1, Len(@))]
    /\ UNCHANGED <<pc, mu, guarded, jsonBuffer, msgChan, errChan, stdin, stderr, process, app, crashed>>

\* Mutant: a line is a message or it is nothing.
OneLine(buffer) == Len(buffer) = 1 /\ buffer[1].kind = "whole"

\* What json.Unmarshal accepts as one object.
Complete(buffer) ==
    \/ Len(buffer) = 1 /\ buffer[1].kind = "whole"
    \/ /\ Len(buffer) = 2 /\ buffer[1].kind = "head" /\ buffer[2].kind = "tail"
       /\ buffer[1].n = buffer[2].n

\* The line is appended; the buffer is then sent, given up or kept.
Accumulate(line) ==
    LET buffer == Append(jsonBuffer, line)
    IN  /\ jsonBuffer' = buffer
        /\ Goto("reader", IF Complete(buffer) THEN "send"
                          ELSE IF Len(buffer) > MaxBufferSize THEN "overflow" ELSE "scan")

\* One turn of the loop: Scan, the check of closeChan, the parse.
ScanLine ==
    /\ pc["reader"] = "scan" /\ scan # <<>>
    /\ scan' = Tail(scan)
    /\ LET line == Head(scan)
       IN  \/ line.kind = "huge" /\ Goto("reader", "scanFailed") /\ UNCHANGED jsonBuffer
           \/ line.kind # "huge" /\ closed /\ Goto("reader", "leaving") /\ UNCHANGED jsonBuffer
           \/ line.kind = "blank" /\ ~closed /\ UNCHANGED <<pc, jsonBuffer>>
           \/ line.kind \notin {"huge", "blank"} /\ ~closed /\ Accumulate(line)
    /\ UNCHANGED <<mu, guarded, msgChan, errChan, pipes, process, app, crashed>>

\* Mutant: a queue that never makes readLoop wait.
SendMessageUnbounded ==
    /\ pc["reader"] = "send"
    /\ msgChan' = [msgChan EXCEPT !.q = Append(@, jsonBuffer[1].n)]
    /\ jsonBuffer' = <<>>
    /\ Goto("reader", "scan")
    /\ UNCHANGED <<mu, guarded, scan, errChan, pipes, process, app, crashed>>

\* Blocks while msgChan is full, whether or not Close has been called.
SendMessage ==
    /\ pc["reader"] = "send"
    /\ Len(msgChan.q) < MsgCap
    /\ msgChan' = [msgChan EXCEPT !.q = Append(@, jsonBuffer[1].n)]
    /\ jsonBuffer' = <<>>
    /\ Goto("reader", "scan")
    /\ UNCHANGED <<mu, guarded, scan, errChan, pipes, process, app, crashed>>

SendError(e) ==
    /\ ~errChan.closed
    /\ Len(errChan.q) < ErrCap
    /\ errChan' = [errChan EXCEPT !.q = Append(@, e)]

ReportOverflow ==
    /\ pc["reader"] = "overflow"
    /\ SendError("overflow")
    /\ jsonBuffer' = <<>>
    /\ Goto("reader", "scan")
    /\ UNCHANGED <<mu, guarded, scan, msgChan, pipes, process, app, crashed>>

\* The scanner stops at the end of the output, or with an error: a line too
\* long, or a pipe that Wait has closed.
ScanEnds ==
    /\ pc["reader"] = "scan" /\ scan = <<>>
    /\ \/ stdout.open /\ stdout.q = <<>> /\ cli.st = "exited" /\ Goto("reader", "leaving")
       \/ ~stdout.open /\ Goto("reader", "scanFailed")
    /\ UNCHANGED <<mu, guarded, output, errChan, pipes, process, app, crashed>>

ReportScanError ==
    /\ pc["reader"] = "scanFailed"
    /\ SendError("scan")
    /\ Goto("reader", "leaving")
    /\ UNCHANGED <<mu, guarded, output, pipes, process, app, crashed>>

\* Both reports panic when waitProcess has closed errChan.
SendOnClosedErrors ==
    /\ pc["reader"] \in {"overflow", "scanFailed"}
    /\ errChan.closed
    /\ crashed' = TRUE
    /\ UNCHANGED <<pc, mu, guarded, output, errChan, pipes, process, app>>

\* The deferred close(t.msgChan).
CloseMessages ==
    /\ pc["reader"] = "leaving"
    /\ msgChan' = [msgChan EXCEPT !.closed = TRUE]
    /\ Goto("reader", "done")
    /\ UNCHANGED <<mu, guarded, scan, jsonBuffer, errChan, pipes, process, app, crashed>>

-----------------------------------------------------------------------------
(* readStderr and waitProcess *)

\* The scanner stops at the end of the output, when Wait has closed the pipe,
\* and for good at a line too long for it: nobody reads stderr then.
ScanStderr ==
    /\ pc["stderr"] = "scan"
    /\ \/ /\ stderr.open /\ stderr.n > 0
          /\ stderr' = [stderr EXCEPT !.n = @ - 1]
          /\ \E l \in {"lock", "done"} : Goto("stderr", l)
       \/ /\ ~stderr.open \/ (stderr.n = 0 /\ cli.st = "exited")
          /\ Goto("stderr", "done")
          /\ UNCHANGED stderr
    /\ UNCHANGED <<mu, guarded, output, errChan, stdin, stdout, process, app, crashed>>

AppendStderr ==
    /\ pc["stderr"] = "lock" /\ HoldsLock(mu, "stderr")
    /\ stderrBuf' = stderrBuf + 1
    /\ mu' = Unlock(mu)
    /\ Goto("stderr", "scan")
    /\ UNCHANGED <<connected, closed, processStatus, output, errChan, pipes, process, app, crashed>>

\* cmd.Wait: once the process has exited it closes the SDK's ends of the pipes.
WaitReturns ==
    /\ pc["waiter"] = "wait"
    /\ cli.st = "exited"
    /\ stdin' = [stdin EXCEPT !.open = FALSE]
    /\ stdout' = [stdout EXCEPT !.open = FALSE]
    /\ stderr' = [stderr EXCEPT !.open = FALSE]
    /\ Goto("waiter", "lock")
    /\ UNCHANGED <<mu, guarded, output, errChan, process, app, crashed>>

\* Mutant: the exit is reported first and recorded afterwards.
ReportThenRecord ==
    /\ pc["waiter"] = "lock" /\ HoldsLock(mu, "waiter")
    /\ connected' = FALSE
    /\ mu' = Unlock(mu)
    /\ Goto("waiter", IF cli.code = "ok" THEN "closing" ELSE "report")
    /\ UNCHANGED <<closed, processStatus, stderrBuf, output, errChan, pipes, process, app, crashed>>

RecordExit ==
    /\ pc["waiter"] = "lock" /\ HoldsLock(mu, "waiter")
    /\ connected' = FALSE
    /\ processStatus' = [code |-> cli.code, stderr |-> stderrBuf]
    /\ mu' = Unlock(mu)
    /\ Goto("waiter", IF cli.code = "ok" THEN "closing" ELSE "report")
    /\ UNCHANGED <<closed, stderrBuf, output, errChan, pipes, process, app, crashed>>

ReportExit ==
    /\ pc["waiter"] = "report"
    /\ SendError("exited")
    /\ Goto("waiter", "closing")
    /\ UNCHANGED <<mu, guarded, output, pipes, process, app, crashed>>

CloseErrors ==
    /\ pc["waiter"] = "closing"
    /\ errChan' = [errChan EXCEPT !.closed = TRUE]
    /\ Goto("waiter", "done")
    /\ UNCHANGED <<mu, guarded, output, pipes, process, app, crashed>>

-----------------------------------------------------------------------------
(* Write, EndInput and Close *)

CallWrite(w) ==
    /\ pc[w] = "idle"
    /\ cli.st # "none"
    /\ calls < MaxCalls
    /\ calls' = calls + 1
    /\ mu' = RLock(mu, w)
    /\ Goto(w, "rlock")
    /\ UNCHANGED <<guarded, output, errChan, pipes, process, received, crashed>>

\* With the lock: refused unless connected.
CheckConnected(w) ==
    /\ pc[w] = "rlock" /\ HoldsRLock(mu, w)
    /\ IF connected THEN Goto(w, "writing") /\ UNCHANGED mu
                    ELSE Goto(w, "idle") /\ mu' = RUnlock(mu, w)
    /\ UNCHANGED <<guarded, output, errChan, pipes, process, app, crashed>>

\* Mutant: the error return of the write keeps the lock.
WriteStdinKeepingLock(w) ==
    /\ pc[w] = "writing"
    /\ \/ /\ stdin.open /\ cli.st = "running" /\ stdin.n < StdinCap
          /\ stdin' = [stdin EXCEPT !.n = @ + 1]
          /\ mu' = RUnlock(mu, w)
       \/ (~stdin.open \/ cli.st = "exited") /\ UNCHANGED <<stdin, mu>>
    /\ Goto(w, "idle")
    /\ UNCHANGED <<guarded, output, errChan, stdout, stderr, process, app, crashed>>

\* stdin.Write: waits for room in the pipe, and fails once either end is closed.
\* The lock is held until it returns.
WriteStdin(w) ==
    /\ pc[w] = "writing"
    /\ \/ /\ stdin.open /\ cli.st = "running" /\ stdin.n < StdinCap
          /\ stdin' = [stdin EXCEPT !.n = @ + 1]
       \/ (~stdin.open \/ cli.st = "exited") /\ UNCHANGED stdin
    /\ mu' = RUnlock(mu, w)
    /\ Goto(w, "idle")
    /\ UNCHANGED <<guarded, output, errChan, stdout, stderr, process, app, crashed>>

Call(t) ==
    /\ pc[t] = "idle"
    /\ cli.st # "none"
    /\ calls < MaxCalls
    /\ calls' = calls + 1
    /\ Goto(t, "lock")
    /\ UNCHANGED <<mu, guarded, output, errChan, pipes, process, received, crashed>>

EndInput ==
    /\ "ender" \in Calls
    /\ pc["ender"] = "lock" /\ HoldsLock(mu, "ender")
    /\ stdin' = [stdin EXCEPT !.open = FALSE]
    /\ mu' = Unlock(mu)
    /\ Goto("ender", "idle")
    /\ UNCHANGED <<guarded, output, errChan, stdout, stderr, process, app, crashed>>

\* Mutant: Close closes the channel that readLoop still sends on.
CloseWithMessages ==
    /\ "closer" \in Calls
    /\ pc["closer"] = "lock" /\ HoldsLock(mu, "closer")
    /\ closed' = TRUE
    /\ msgChan' = [msgChan EXCEPT !.closed = TRUE]
    /\ stdin' = [stdin EXCEPT !.open = FALSE]
    /\ cli' = [cli EXCEPT !.killed = @ \/ cli.st = "running"]
    /\ mu' = Unlock(mu)
    /\ Goto("closer", "idle")
    /\ UNCHANGED <<connected, processStatus, stderrBuf, scan, jsonBuffer, errChan, stdout, stderr, printed, app, crashed>>

\* A second Close returns at once; the first signals readLoop, closes stdin and
\* kills the process.
Close ==
    /\ "closer" \in Calls
    /\ pc["closer"] = "lock" /\ HoldsLock(mu, "closer")
    /\ closed' = TRUE
    /\ IF closed THEN UNCHANGED <<stdin, cli>>
       ELSE /\ stdin' = [stdin EXCEPT !.open = FALSE]
            /\ cli' = [cli EXCEPT !.killed = @ \/ cli.st = "running"]
    /\ mu' = Unlock(mu)
    /\ Goto("closer", "idle")
    /\ UNCHANGED <<connected, processStatus, stderrBuf, output, errChan, stdout, stderr, printed, app, crashed>>

-----------------------------------------------------------------------------
(* The process, and the client at the other end of the channels *)

\* The line that is due, or any that may come next.
NextLines ==
    IF printed.mid THEN {[kind |-> "tail", n |-> printed.messages + 1]}
    ELSE (IF printed.messages < MaxMessages
          THEN [kind : {"whole", "head"}, n : {printed.messages + 1}] ELSE {})
         \cup (IF printed.stray < MaxStray
               THEN [kind : {"noise", "blank", "huge"}, n : {0}] ELSE {})

CLIPrints(line) ==
    /\ cli.st = "running"
    /\ Len(stdout.q) < PipeCap
    /\ stdout' = [stdout EXCEPT !.q = Append(@, line)]
    /\ printed' = [printed EXCEPT !.mid = (line.kind = "head"),
                     !.messages = IF line.kind \in {"whole", "tail"} THEN @ + 1 ELSE @,
                     !.stray = IF line.n = 0 THEN @ + 1 ELSE @,
                     !.noise = @ \/ line.kind \in {"noise", "huge"}]
    /\ UNCHANGED <<pc, mu, guarded, output, errChan, stdin, stderr, cli, app, crashed>>

CLIPrintsError ==
    /\ cli.st = "running"
    /\ printed.stderr < MaxStderr
    /\ stderr.n < PipeCap
    /\ stderr' = [stderr EXCEPT !.n = @ + 1]
    /\ printed' = [printed EXCEPT !.stderr = @ + 1]
    /\ UNCHANGED <<pc, mu, guarded, output, errChan, stdin, stdout, cli, app, crashed>>

CLIReads ==
    /\ cli.st = "running"
    /\ stdin.n > 0
    /\ stdin' = [stdin EXCEPT !.n = @ - 1]
    /\ UNCHANGED <<pc, mu, guarded, output, errChan, stdout, stderr, process, app, crashed>>

CLIExits(code) ==
    /\ cli.st = "running"
    /\ code = "signal" <=> cli.killed
    /\ cli' = [cli EXCEPT !.st = "exited", !.code = code]
    /\ UNCHANGED <<pc, mu, guarded, output, errChan, pipes, printed, app, crashed>>

\* exec.CommandContext kills the process when Connect's context ends.
ContextDone ==
    /\ cli.st = "running"
    /\ ~cli.killed
    /\ cli' = [cli EXCEPT !.killed = TRUE]
    /\ UNCHANGED <<pc, mu, guarded, output, errChan, pipes, printed, app, crashed>>

TakeMessage ==
    /\ msgChan.q # <<>>
    /\ received' = Append(received, Head(msgChan.q))
    /\ msgChan' = [msgChan EXCEPT !.q = Tail(@)]
    /\ UNCHANGED <<pc, mu, guarded, scan, jsonBuffer, errChan, pipes, process, calls, crashed>>

TakeError ==
    /\ errChan.q # <<>>
    /\ errChan' = [errChan EXCEPT !.q = Tail(@)]
    /\ UNCHANGED <<pc, mu, guarded, output, pipes, process, app, crashed>>

-----------------------------------------------------------------------------
ReaderStep ==
    \/ Fill \/ ScanLine \/ SendMessage \/ ReportOverflow \/ ScanEnds
    \/ ReportScanError \/ SendOnClosedErrors \/ CloseMessages

StderrStep == ScanStderr \/ AppendStderr

WaiterStep == WaitReturns \/ RecordExit \/ ReportExit \/ CloseErrors

WriterStep(w) == CheckConnected(w) \/ WriteStdin(w)

CLIStep ==
    \/ \E line \in NextLines : CLIPrints(line)
    \/ CLIPrintsError \/ CLIReads \/ ContextDone
    \/ \E code \in ExitCodes : CLIExits(code)

\* The steps of goroutines of this program that were called or started.
SDKStep ==
    \/ ReaderStep \/ StderrStep \/ WaiterStep
    \/ \E w \in Writers : WriterStep(w)
    \/ \E t \in Threads : AnnounceLock(t)
    \/ EndInput \/ Close

Next ==
    /\ ~crashed
    /\ \/ Connect \/ ConnectFails
       \/ \E w \in Writers : CallWrite(w)
       \/ \E t \in Calls : Call(t)
       \/ SDKStep \/ CLIStep \/ TakeMessage \/ TakeError

Spec == Init /\ [][Next]_vars

-----------------------------------------------------------------------------
(* Safety *)

\* Every variable has its type, and no channel or pipe holds more than it can.
TypeOK ==
    /\ pc \in [Threads -> {"idle", "scan", "send", "overflow", "scanFailed", "leaving", "done",
                           "lock", "wait", "report", "closing", "rlock", "writing"}]
    /\ mu \in MutexOver(Threads)
    /\ connected \in BOOLEAN /\ closed \in BOOLEAN /\ crashed \in BOOLEAN
    /\ processStatus \in [code : ExitCodes \cup {"none"}, stderr : 0 .. MaxStderr]
    /\ stderrBuf \in 0 .. MaxStderr
    /\ scan \in Seq(Lines) /\ jsonBuffer \in Seq(Lines)
    /\ msgChan \in [q : Seq(Nat), closed : BOOLEAN] /\ Len(msgChan.q) <= MsgCap
    /\ errChan \in [q : Seq({"overflow", "scan", "exited"}), closed : BOOLEAN]
    /\ Len(errChan.q) <= ErrCap
    /\ stdin \in [open : BOOLEAN, n : 0 .. StdinCap]
    /\ stdout \in [open : BOOLEAN, q : Seq(Lines)] /\ Len(stdout.q) <= PipeCap
    /\ stderr \in [open : BOOLEAN, n : 0 .. MaxStderr]
    /\ cli \in [st : {"none", "failed", "running", "exited"},
                code : ExitCodes \cup {"none"}, killed : BOOLEAN]
    /\ calls \in 0 .. MaxCalls
    /\ received \in Seq(Nat)

\* The lines that complete a message.
Ending(lines) == {i \in DOMAIN lines : lines[i].kind \in {"whole", "tail"}}

Everything == [i \in 1 .. printed.messages |-> i]

\* A CLI that prints only messages and blank lines: what the client receives has
\* no gap, and while readLoop has not given up, each message is in exactly one
\* place, and in the order it was printed: with the client, in msgChan, in the
\* buffers of readLoop, or in the pipe.  Splitting a message over two lines
\* changes nothing.
NothingLost ==
    LET sent == received \o msgChan.q
        lines == jsonBuffer \o (scan \o stdout.q)
    IN  ~printed.noise =>
          /\ sent = [i \in 1 .. Len(sent) |-> i]
          /\ pc["reader"] \notin {"scanFailed", "leaving", "done"} =>
                /\ {lines[i].n : i \in Ending(lines)} = Len(sent) + 1 .. printed.messages
                /\ \A i, j \in Ending(lines) : i < j => lines[i].n < lines[j].n

\* Whoever learns from the channel that the process has ended, by its error or
\* by the closing of errChan, finds the exit code in GetProcessStatus and the
\* transport no longer connected.
ExitRecordedFirst ==
    errChan.closed \/ (\E i \in 1 .. Len(errChan.q) : errChan.q[i] = "exited")
        => /\ processStatus.code = cli.code
           /\ ~connected

MS == INSTANCE MessageStream WITH
        emitted <- printed.messages, out <- received \o msgChan.q, ended <- msgChan.closed

\* Whatever the CLI prints, and however it ends, msgChan carries messages it
\* printed, in order, none twice, and none after the close of the channel.
ImplementsMessageStream == MS!Spec

-----------------------------------------------------------------------------
(* Liveness *)

\* Runnable goroutines run, and a killed process dies.  Every behaviour has
\* finitely many steps of each goroutine, so that one condition for all of them
\* is as strong as one for each.
TransportFairness ==
    /\ WF_vars(~crashed /\ SDKStep)
    /\ WF_vars(~crashed /\ CLIExits("signal"))

\* A client that reads both channels.
ClientReads == WF_vars(~crashed /\ TakeMessage) /\ WF_vars(~crashed /\ TakeError)

FairSpec == Spec /\ TransportFairness
ServedSpec == FairSpec /\ ClientReads

\* The CLI comes to read its stdin.
CLIListens == WF_vars(~crashed /\ CLIReads)

\* Close returns and the process ends, if the CLI goes on reading the messages
\* it is sent: a Write that waits for room in the stdin pipe holds the lock that
\* Close waits for.
CloseEndsProcess == CLIListens =>
    (pc["closer"] = "lock" ~> (cli.st # "running" /\ pc["closer"] = "idle") \/ crashed)

\* When the process has ended and the client reads, the three goroutines end
\* and both channels are closed: a client that ranges over them stops.
ExitClosesChannels ==
    cli.st = "exited" ~> (msgChan.closed /\ errChan.closed /\ pc["stderr"] = "done") \/ crashed

-----------------------------------------------------------------------------
(* What the repository says and this code does not do: each of these is    *)
(* refuted by a run.                                                       *)

\* subprocess_test.go:151-197 reads the last message of a process that has
\* already exited: all that was printed before an orderly exit is received.
OutputOutlivesProcess ==
    pc["reader"] = "done" /\ ~closed /\ ~printed.noise /\ cli.code = "ok"
        => received \o msgChan.q = Everything
=============================================================================
