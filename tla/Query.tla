--------------------------------- MODULE Query ---------------------------------
(***************************************************************************)
(* claude/query.go: one call of Query, from the start of the CLI to the    *)
(* deferred Close, on top of SubprocessTransport, whose goroutines run     *)
(* beside it.  Every step is a step of the transport together with what    *)
(* Query does, or leaves the transport alone.                              *)
(***************************************************************************)
EXTENDS RWMutex, Naturals, Sequences

CONSTANTS
    MaxMessages, MaxStray, MaxStderr, MaxBufferSize, MsgCap, ErrCap, PipeCap,
    Cancels         \* the context of the call may end

ASSUME QueryAssumption ==
    /\ Cancels \in BOOLEAN
    /\ {MaxMessages, MaxStray, MaxStderr} \subseteq Nat
    /\ {MaxBufferSize, MsgCap, ErrCap, PipeCap} \subseteq Nat \ {0}

VARIABLES
    pc, mu, connected, closed, processStatus, stderrBuf, scan, jsonBuffer,
    msgChan, errChan, stdin, stdout, stderr, cli, printed, calls, received, crashed,
    kind,           \* what each message printed so far is
    ctxDone,        \* the context of the call has ended
    main,           \* where the call is
    ret,            \* what it returns
    collected       \* QueryResult.Messages

T == INSTANCE SubprocessTransport WITH
        Writers <- {}, Calls <- {"closer", "ender"}, MaxCalls <- 2, StdinCap <- 1

transport == <<pc, mu, connected, closed, processStatus, stderrBuf, scan, jsonBuffer, msgChan,
               errChan, stdin, stdout, stderr, cli, printed, calls, received, crashed>>
call == <<main, ret, collected>>
vars == <<transport, kind, ctxDone, call>>

\* "assistant" stands for the messages that are collected (system messages are
\* too), "other" for those that are skipped, "failure" for a result with IsError.
Results == {"result", "failure"}
Kinds == Results \cup {"assistant", "other", "unparsable"}

Init ==
    /\ T!Init
    /\ kind = <<>>
    /\ ctxDone = FALSE
    /\ main = "connect"
    /\ ret = "none"
    /\ collected = <<>>

-----------------------------------------------------------------------------
Goto(l) == main' = l /\ UNCHANGED <<ret, collected>>

\* Mutant: this return forgets the deferred Close.
ReturnLeaking(r) ==
    /\ ret' = r
    /\ main' = IF r = "parse" THEN "returned" ELSE "close"

\* The function returns r after its deferred Close.
Return(r) ==
    /\ ret' = r
    /\ main' = "close"

\* Mutant: the error of a CLI that could not be started is dropped.
ConnectUnchecked ==
    /\ main = "connect"
    /\ \/ T!Connect /\ Goto("connected")
       \/ T!ConnectFails /\ Goto("select")
    /\ UNCHANGED <<kind, ctxDone>>

Connect ==
    /\ main = "connect"
    /\ \/ T!Connect /\ Goto("connected")
       \/ /\ T!ConnectFails
          /\ main' = "returned" /\ ret' = "connect" /\ UNCHANGED collected
    /\ UNCHANGED <<kind, ctxDone>>

CallEndInput ==
    /\ main = "connected"
    /\ T!Call("ender")
    /\ Goto("endInput")
    /\ UNCHANGED <<kind, ctxDone>>

\* Closing stdin is an error when cmd.Wait has closed it already.
EndInput ==
    /\ main = "endInput"
    /\ T!EndInput
    /\ IF stdin.open THEN Goto("select") ELSE Return("endInput") /\ UNCHANGED collected
    /\ UNCHANGED <<kind, ctxDone>>

\* The cases of the select.  A nil error of the closed errChan changes nothing.
ContextEnds ==
    /\ main = "select"
    /\ ctxDone
    /\ Return("context")
    /\ UNCHANGED <<transport, kind, ctxDone, collected>>

TakeError ==
    /\ main = "select"
    /\ T!TakeError
    /\ Return("receive")
    /\ UNCHANGED <<kind, ctxDone, collected>>

\* Mutant: the next result is waited for as well.
TakeMessageToTheEnd ==
    /\ main = "select"
    /\ T!TakeMessage
    /\ LET n == Head(msgChan.q)
       IN  CASE kind[n] = "unparsable" -> Return("parse") /\ UNCHANGED collected
             [] kind[n] = "failure" -> Return("failure") /\ UNCHANGED collected
             [] kind[n] = "other" -> UNCHANGED call
             [] OTHER -> main' = main /\ ret' = ret /\ collected' = Append(collected, n)
    /\ UNCHANGED <<kind, ctxDone>>

TakeMessage ==
    /\ main = "select"
    /\ T!TakeMessage
    /\ LET n == Head(msgChan.q)
       IN  CASE kind[n] = "unparsable" -> Return("parse") /\ UNCHANGED collected
             [] kind[n] \in Results -> Return(kind[n]) /\ UNCHANGED collected
             [] kind[n] = "assistant" ->
                    UNCHANGED <<main, ret>> /\ collected' = Append(collected, n)
             [] kind[n] = "other" -> UNCHANGED call
    /\ UNCHANGED <<kind, ctxDone>>

\* A result returns at once, so there is none when the channel is closed.
MessagesClosed ==
    /\ main = "select"
    /\ msgChan.closed /\ msgChan.q = <<>>
    /\ Return("exited")
    /\ UNCHANGED <<transport, kind, ctxDone, collected>>

CallClose ==
    /\ main = "close"
    /\ T!Call("closer")
    /\ Goto("closing")
    /\ UNCHANGED <<kind, ctxDone>>

Close ==
    /\ main = "closing"
    /\ T!Close
    /\ Goto("returned")
    /\ UNCHANGED <<kind, ctxDone>>

-----------------------------------------------------------------------------
(* The rest of the program, the CLI and the owner of the context *)

CallLocks == T!AnnounceLock("ender") \/ T!AnnounceLock("closer")

Goroutines ==
    /\ \/ T!ReaderStep \/ T!StderrStep \/ T!WaiterStep
       \/ \E t \in T!Goroutines : T!AnnounceLock(t)
    /\ UNCHANGED <<kind, ctxDone, call>>

CLIPrints ==
    /\ \E line \in T!NextLines : T!CLIPrints(line)
    /\ IF printed'.messages = printed.messages THEN UNCHANGED kind
       ELSE \E k \in Kinds : kind' = Append(kind, k)
    /\ UNCHANGED <<ctxDone, call>>

CLIPrintsError == T!CLIPrintsError /\ UNCHANGED <<kind, ctxDone, call>>

CLIEnds ==
    /\ \/ \E code \in T!ExitCodes : T!CLIExits(code)
       \/ ctxDone /\ T!ContextDone
    /\ UNCHANGED <<kind, ctxDone, call>>

Cancel ==
    /\ Cancels /\ ~ctxDone
    /\ ctxDone' = TRUE
    /\ UNCHANGED <<transport, kind, call>>

MainStep ==
    \/ Connect \/ CallEndInput \/ EndInput
    \/ ContextEnds \/ TakeError \/ TakeMessage \/ MessagesClosed
    \/ CallClose \/ Close
    \/ CallLocks /\ UNCHANGED <<kind, ctxDone, call>>

Next == ~crashed /\ (MainStep \/ Goroutines \/ CLIPrints \/ CLIPrintsError \/ CLIEnds \/ Cancel)

Spec == Init /\ [][Next]_vars

-----------------------------------------------------------------------------
(* Properties *)

Returns == {"connect", "endInput", "context", "receive", "parse", "exited"} \cup Results

\* The variables of the call have their types, and a call that is past its loop
\* has decided what it returns.
TypeOK ==
    /\ kind \in Seq(Kinds) /\ Len(kind) = printed.messages
    /\ main \in {"connect", "connected", "endInput", "select", "close", "closing", "returned"}
    /\ IF main \in {"close", "closing", "returned"} THEN ret \in Returns ELSE ret = "none"
    /\ collected \in Seq(1 .. MaxMessages)

\* The first m messages were for the caller or to be skipped, and those for the
\* caller were collected, each once and in order.
Handled(m) ==
    /\ \A n \in 1 .. m : kind[n] \in {"assistant", "other"}
    /\ {collected[i] : i \in DOMAIN collected} = {n \in 1 .. m : kind[n] = "assistant"}
    /\ \A i, j \in DOMAIN collected : i < j => collected[i] < collected[j]

\* A result is the first one the CLI printed, and comes with all the messages
\* the CLI printed before it, in order: however the output was cut into reads
\* and lines, and even if the process has ended meanwhile.
ResultComplete ==
    ret \in Results /\ ~printed.noise =>
        \E r \in DOMAIN kind : kind[r] = ret /\ Handled(r - 1)

\* Query leaves no CLI running behind it, whichever way it returns.
NoProcessLeft ==
    main = "returned" => cli.st \in {"failed", "exited"} \/ cli.killed

\* Runnable goroutines run; a select whose cases are ready for ever takes each
\* of them in the end; a process that was killed dies, and one whose context has
\* ended is killed.
Fairness ==
    /\ WF_vars(~crashed /\ MainStep)
    /\ WF_vars(~crashed /\ Goroutines)
    /\ WF_vars(~crashed /\ CLIEnds /\ (cli.killed \/ cli'.killed))

FairSpec == Spec /\ Fairness

\* Query returns when the CLI has ended or the context has: even when the exit
\* of the CLI was reported while Query was waiting for the lock, and when the
\* channels were closed under its select.
QueryReturns ==
    cli.st \in {"failed", "exited"} \/ ctxDone ~> main = "returned" \/ crashed
=============================================================================
