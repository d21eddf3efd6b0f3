----------------------- MODULE SubprocessTransport_proofs -----------------------
(***************************************************************************)
(* Proofs about SubprocessTransport for any capacities, writers and calls: *)
(* waitProcess records the end of the process before anybody can learn of  *)
(* it from errChan, and what the client receives is a MessageStream.       *)
(***************************************************************************)
EXTENDS SubprocessTransport, FiniteSetTheorems, SequenceTheorems, TLAPS

\* The exit code and the loss of the connection are on record.
Recorded == cli.st = "exited" /\ processStatus.code = cli.code /\ ~connected

\* errChan says nothing of an exit.
NotReported == ~errChan.closed /\ \A i \in 1 .. Len(errChan.q) : errChan.q[i] # "exited"

\* What holds at each point of waitProcess.
WaiterOrdered ==
    /\ pc["waiter"] \in {"idle", "wait", "lock", "report", "closing", "done"}
    /\ pc["waiter"] \in {"idle", "wait", "lock"} => NotReported
    /\ pc["waiter"] = "lock" => cli.st = "exited"
    /\ pc["waiter"] \in {"report", "closing", "done"} => Recorded

Reports == {"overflow", "scan", "exited"}
ErrChans == [q : Seq(Reports), closed : BOOLEAN]

\* The types the steps below rely on.
Shapes ==
    /\ pc = [t \in Threads |-> pc[t]]
    /\ errChan \in ErrChans
    /\ cli \in [st : {"none", "failed", "running", "exited"},
                code : ExitCodes \cup {"none"}, killed : BOOLEAN]

\* The inductive invariant.
IInv == Shapes /\ WaiterOrdered

-----------------------------------------------------------------------------
LEMMA InvSuffices == IInv => ExitRecordedFirst
BY DEF IInv, WaiterOrdered, NotReported, Recorded, ExitRecordedFirst

LEMMA InitInv == Init => IInv
<1>. SUFFICES ASSUME Init PROVE IInv
  OBVIOUS
<1>1. Shapes
  BY DEF Init, Shapes, ExitCodes, ErrChans
<1>2. pc["waiter"] = "idle" /\ NotReported
  BY DEF Init, Threads, Goroutines, NotReported
<1>. QED
  BY <1>1, <1>2 DEF IInv, WaiterOrdered

\* A step of another goroutine leaves waitProcess where it is.
LEMMA OtherGoes ==
    ASSUME Shapes, NEW t \in Threads, NEW l, t # "waiter", Goto(t, l)
    PROVE  /\ pc'["waiter"] = pc["waiter"]
           /\ pc' = [u \in Threads |-> pc'[u]]
BY DEF Shapes, Goto, Threads, Goroutines

\* Steps that leave waitProcess, the record and errChan alone.
LEMMA OtherStep ==
    ASSUME IInv, pc'["waiter"] = pc["waiter"], pc' = [u \in Threads |-> pc'[u]],
           UNCHANGED <<connected, processStatus, errChan>>,
           cli' \in [st : {"none", "failed", "running", "exited"},
                     code : ExitCodes \cup {"none"}, killed : BOOLEAN],
           cli.st = "exited" => cli'.st = "exited" /\ cli'.code = cli.code
    PROVE  IInv'
BY DEF IInv, Shapes, WaiterOrdered, NotReported, Recorded

\* Another content of errChan.
LEMMA ContentChanges ==
    ASSUME NEW c \in ErrChans, NEW s \in Seq(Reports)
    PROVE  /\ [c EXCEPT !.q = s] \in ErrChans
           /\ [c EXCEPT !.q = s].q = s /\ [c EXCEPT !.q = s].closed = c.closed
BY DEF ErrChans

LEMMA SendErrorFacts ==
    ASSUME Shapes, NEW e \in Reports, SendError(e)
    PROVE  /\ ~errChan.closed /\ ~errChan'.closed /\ errChan' \in ErrChans
           /\ errChan.q \in Seq(Reports) /\ errChan'.q = Append(errChan.q, e)
<1>1. errChan.q \in Seq(Reports) /\ errChan \in ErrChans
  BY DEF Shapes, ErrChans
<1>2. Append(errChan.q, e) \in Seq(Reports)
  BY <1>1
<1>3. ~errChan.closed /\ errChan' = [errChan EXCEPT !.q = Append(errChan.q, e)]
  BY DEF SendError
<1>. QED
  BY <1>1, <1>2, <1>3, ContentChanges

\* The reports of readLoop.
LEMMA ReportStep ==
    ASSUME IInv, pc'["waiter"] = pc["waiter"], pc' = [u \in Threads |-> pc'[u]],
           UNCHANGED <<connected, processStatus, cli>>,
           NEW e \in {"overflow", "scan"}, SendError(e)
    PROVE  IInv'
<1>1. /\ ~errChan.closed /\ ~errChan'.closed /\ errChan' \in ErrChans
      /\ errChan'.q = Append(errChan.q, e) /\ errChan.q \in Seq(Reports)
  BY SendErrorFacts DEF IInv, Reports
<1>2. NotReported => NotReported'
  BY <1>1 DEF NotReported
<1>. QED
  BY <1>1, <1>2 DEF IInv, Shapes, WaiterOrdered, Recorded

LEMMA TakeErrorStep ==
    ASSUME IInv, TakeError
    PROVE  IInv'
<1>1. /\ errChan.q \in Seq(Reports) /\ errChan.q # <<>>
      /\ errChan' = [errChan EXCEPT !.q = Tail(errChan.q)]
      /\ UNCHANGED <<pc, connected, processStatus, cli>>
  BY DEF IInv, Shapes, ErrChans, TakeError, guarded, process
<1>2. /\ errChan' \in ErrChans
      /\ errChan'.closed = errChan.closed /\ errChan'.q = Tail(errChan.q)
  <2>1. Tail(errChan.q) \in Seq(Reports)
    BY <1>1
  <2>. QED
    BY <1>1, <2>1, ContentChanges DEF IInv, Shapes
<1>3. NotReported => NotReported'
  <2>1. \A i \in 1 .. Len(Tail(errChan.q)) :
           i + 1 \in 1 .. Len(errChan.q) /\ Tail(errChan.q)[i] = errChan.q[i + 1]
    BY <1>1
  <2>. QED
    BY <1>2, <2>1 DEF NotReported
<1>. QED
  BY <1>1, <1>2, <1>3 DEF IInv, Shapes, WaiterOrdered, Recorded

LEMMA ConnectStep ==
    ASSUME IInv, Connect
    PROVE  IInv'
<1>1. /\ pc'["waiter"] = "wait" /\ pc' = [u \in Threads |-> pc'[u]]
      /\ cli.st = "none" /\ UNCHANGED errChan
      /\ cli' \in [st : {"none", "failed", "running", "exited"},
                   code : ExitCodes \cup {"none"}, killed : BOOLEAN]
  BY DEF IInv, Shapes, Connect, Threads, Goroutines
<1>2. NotReported /\ NotReported'
  BY <1>1 DEF IInv, WaiterOrdered, Recorded, NotReported
<1>. QED
  BY <1>1, <1>2 DEF IInv, Shapes, WaiterOrdered

LEMMA WaiterInv ==
    ASSUME IInv, WaiterStep
    PROVE  IInv'
<1>. "waiter" \in Threads
  BY DEF Threads, Goroutines
<1>1. ASSUME NEW l, Goto("waiter", l)
      PROVE  pc'["waiter"] = l /\ pc' = [u \in Threads |-> pc'[u]]
  BY <1>1 DEF IInv, Shapes, Goto
<1>2. CASE WaitReturns
  <2>1. /\ pc'["waiter"] = "lock" /\ pc' = [u \in Threads |-> pc'[u]]
        /\ pc["waiter"] = "wait" /\ cli.st = "exited" /\ UNCHANGED <<errChan, cli>>
    BY <1>1, <1>2 DEF WaitReturns, process
  <2>. QED
    BY <2>1 DEF IInv, Shapes, WaiterOrdered, NotReported
<1>3. CASE RecordExit
  <2>1. /\ pc'["waiter"] \in {"closing", "report"} /\ pc' = [u \in Threads |-> pc'[u]]
        /\ pc["waiter"] = "lock" /\ UNCHANGED <<errChan, cli>>
        /\ connected' = FALSE /\ processStatus'.code = cli.code
    BY <1>1, <1>3 DEF RecordExit, process
  <2>. QED
    BY <2>1 DEF IInv, Shapes, WaiterOrdered, Recorded
<1>4. CASE ReportExit
  <2>1. /\ pc'["waiter"] = "closing" /\ pc' = [u \in Threads |-> pc'[u]]
        /\ pc["waiter"] = "report" /\ UNCHANGED <<connected, processStatus, cli>>
        /\ SendError("exited")
    BY <1>1, <1>4 DEF ReportExit, process, guarded
  <2>2. errChan' \in ErrChans
    BY <2>1, SendErrorFacts DEF IInv, Reports
  <2>. QED
    BY <2>1, <2>2 DEF IInv, Shapes, WaiterOrdered, Recorded
<1>5. CASE CloseErrors
  <2>1. /\ pc'["waiter"] = "done" /\ pc' = [u \in Threads |-> pc'[u]]
        /\ pc["waiter"] = "closing" /\ UNCHANGED <<connected, processStatus, cli>>
        /\ errChan' \in ErrChans
    BY <1>1, <1>5 DEF IInv, Shapes, ErrChans, CloseErrors, process, guarded
  <2>. QED
    BY <2>1 DEF IInv, Shapes, WaiterOrdered, Recorded
<1>. QED
  BY <1>2, <1>3, <1>4, <1>5 DEF WaiterStep

\* The other goroutines: the reports of readLoop, and all else.
LEMMA ReaderInv ==
    ASSUME IInv, ReaderStep \/ StderrStep
    PROVE  IInv'
<1>. "reader" \in Threads /\ "stderr" \in Threads
  BY DEF Threads, Goroutines
<1>1. ASSUME NEW t \in {"reader", "stderr"}, NEW l, Goto(t, l)
      PROVE  pc'["waiter"] = pc["waiter"] /\ pc' = [u \in Threads |-> pc'[u]]
  BY <1>1, OtherGoes DEF IInv
<1>2. ASSUME UNCHANGED pc
      PROVE  pc'["waiter"] = pc["waiter"] /\ pc' = [u \in Threads |-> pc'[u]]
  BY <1>2 DEF IInv, Shapes
<1>3. CASE ReportOverflow \/ ReportScanError
  <2>1. /\ pc'["waiter"] = pc["waiter"] /\ pc' = [u \in Threads |-> pc'[u]]
        /\ UNCHANGED <<connected, processStatus, cli>>
        /\ SendError("overflow") \/ SendError("scan")
    BY <1>1, <1>3 DEF ReportOverflow, ReportScanError, guarded, process
  <2>. QED
    BY <2>1, ReportStep
<1>4. CASE Fill \/ ScanLine \/ SendMessage \/ ScanEnds \/ SendOnClosedErrors \/ CloseMessages
           \/ ScanStderr \/ AppendStderr
  <2>1. UNCHANGED <<connected, processStatus, cli, errChan>>
    BY <1>4 DEF Fill, ScanLine, SendMessage, ScanEnds, SendOnClosedErrors, CloseMessages,
       ScanStderr, AppendStderr, guarded, process
  <2>2. UNCHANGED pc \/ \E t \in {"reader", "stderr"}, l \in {"scan", "scanFailed", "leaving",
            "send", "overflow", "done", "lock"} : Goto(t, l)
    BY <1>4 DEF Fill, ScanLine, Accumulate, SendMessage, ScanEnds, SendOnClosedErrors,
       CloseMessages, ScanStderr, AppendStderr
  <2>3. pc'["waiter"] = pc["waiter"] /\ pc' = [u \in Threads |-> pc'[u]]
    BY <1>1, <1>2, <2>2
  <2>. QED
    BY <2>1, <2>3, OtherStep DEF IInv, Shapes
<1>. QED
  BY <1>3, <1>4 DEF ReaderStep, StderrStep

\* The calls of the client and the process itself.
LEMMA CallsInv ==
    ASSUME IInv,
           \/ ConnectFails \/ EndInput \/ Close \/ TakeMessage \/ CLIStep
           \/ \E w \in Writers : CallWrite(w) \/ WriterStep(w)
           \/ \E t \in Calls : Call(t)
           \/ \E t \in Threads : AnnounceLock(t)
    PROVE  IInv'
<1>1. ASSUME NEW t \in Writers \cup Calls, NEW l, Goto(t, l)
      PROVE  pc'["waiter"] = pc["waiter"] /\ pc' = [u \in Threads |-> pc'[u]]
  BY <1>1, OtherGoes, SizesAssumption DEF IInv, Threads
<1>2. ASSUME UNCHANGED pc
      PROVE  pc'["waiter"] = pc["waiter"] /\ pc' = [u \in Threads |-> pc'[u]]
  BY <1>2 DEF IInv, Shapes
<1>3. ASSUME NEW w \in Writers, CallWrite(w) \/ WriterStep(w)
      PROVE  IInv'
  <2>1. UNCHANGED <<connected, processStatus, cli, errChan>>
    BY <1>3 DEF CallWrite, WriterStep, CheckConnected, WriteStdin, guarded, process
  <2>2. Goto(w, "rlock") \/ Goto(w, "writing") \/ Goto(w, "idle")
    BY <1>3 DEF CallWrite, WriterStep, CheckConnected, WriteStdin
  <2>3. pc'["waiter"] = pc["waiter"] /\ pc' = [u \in Threads |-> pc'[u]]
    BY <1>1, <2>2
  <2>. QED
    BY <2>1, <2>3, OtherStep DEF IInv, Shapes
<1>4. ASSUME NEW t \in Calls, Call(t)
      PROVE  IInv'
  <2>1. UNCHANGED <<connected, processStatus, cli, errChan>> /\ Goto(t, "lock")
    BY <1>4 DEF Call, guarded, process
  <2>. QED
    BY <1>1, <2>1, OtherStep DEF IInv, Shapes
<1>5. CASE EndInput \/ Close
  <2>1. UNCHANGED <<connected, processStatus, errChan>>
    BY <1>5 DEF EndInput, Close, guarded, process
  <2>2. \E t \in Calls : Goto(t, "idle")
    BY <1>5 DEF EndInput, Close
  <2>3. cli' = cli \/ cli' = [cli EXCEPT !.killed = @ \/ cli.st = "running"]
    BY <1>5 DEF EndInput, Close, process
  <2>4. /\ cli' \in [st : {"none", "failed", "running", "exited"},
                     code : ExitCodes \cup {"none"}, killed : BOOLEAN]
        /\ cli'.st = cli.st /\ cli'.code = cli.code
    BY <2>3 DEF IInv, Shapes
  <2>. QED
    BY <1>1, <2>1, <2>2, <2>4, OtherStep
<1>6. CASE ConnectFails \/ TakeMessage \/ CLIStep \/ \E t \in Threads : AnnounceLock(t)
  <2>1. UNCHANGED <<pc, connected, processStatus, errChan>>
    BY <1>6 DEF ConnectFails, TakeMessage, CLIStep, CLIPrints, CLIPrintsError, CLIReads,
       CLIExits, ContextDone, AnnounceLock, guarded, process
  <2>2. \/ cli' = cli
        \/ cli.st = "none" /\ cli' = [cli EXCEPT !.st = "failed"]
        \/ cli.st = "running" /\ cli' = [cli EXCEPT !.killed = TRUE]
        \/ cli.st = "running" /\ \E code \in ExitCodes :
              cli' = [cli EXCEPT !.st = "exited", !.code = code]
    BY <1>6 DEF ConnectFails, TakeMessage, CLIStep, CLIPrints, CLIPrintsError, CLIReads,
       CLIExits, ContextDone, AnnounceLock, process
  <2>3. /\ cli' \in [st : {"none", "failed", "running", "exited"},
                     code : ExitCodes \cup {"none"}, killed : BOOLEAN]
        /\ cli.st = "exited" => cli'.st = "exited" /\ cli'.code = cli.code
    BY <2>2 DEF IInv, Shapes
  <2>. QED
    BY <1>2, <2>1, <2>3, OtherStep
<1>. QED
  BY <1>3, <1>4, <1>5, <1>6

LEMMA StepInv == IInv /\ [Next]_vars => IInv'
<1>. SUFFICES ASSUME IInv, [Next]_vars PROVE IInv'
  OBVIOUS
<1>1. CASE UNCHANGED vars
  BY <1>1 DEF vars, guarded, process, IInv, Shapes, WaiterOrdered, NotReported, Recorded
<1>2. CASE Next
  BY <1>2, ConnectStep, WaiterInv, ReaderInv, CallsInv, TakeErrorStep DEF Next, SDKStep
<1>. QED
  BY <1>1, <1>2

(* What waitProcess has done at each of its points: the invariant that the *)
(* theorem below rests on.                                                 *)
THEOREM Invariant == Spec => []IInv
BY InitInv, StepInv, PTL DEF Spec

(* waitProcess: whoever learns from errChan that the CLI has ended finds   *)
(* its exit code recorded and the transport disconnected, whatever the     *)
(* other goroutines do and however full the channel is.                    *)
THEOREM ExitIsRecordedFirst == Spec => []ExitRecordedFirst
BY Invariant, InvSuffices, PTL

-----------------------------------------------------------------------------
(* The order of the output: what readLoop has sent, what it has read, and   *)
(* what is in the pipe.                                                     *)

\* Line a was printed before line b: it belongs to an earlier message, or to
\* the first part of the same one.
Before(a, b) ==
    \/ a.n = 0 \/ b.n = 0 \/ a.n < b.n
    \/ a.n = b.n /\ a.kind = "head" /\ b.kind = "tail"

InOrder(s) == \A i, j \in 1 .. Len(s) : i < j => Before(s[i], s[j])
Precede(s, t) == \A i \in 1 .. Len(s), j \in 1 .. Len(t) : Before(s[i], t[j])
Above(k, s) == \A i \in 1 .. Len(s) : s[i].n = 0 \/ k < s[i].n

\* Messages have numbers above 0, and only the first part of the message that is
\* being printed is ahead of the count.
Printed(s) ==
    \A i \in 1 .. Len(s) :
        /\ s[i].kind \in {"whole", "head", "tail"} => s[i].n # 0
        /\ \/ s[i].n <= printed.messages
           \/ printed.mid /\ s[i].n = printed.messages + 1 /\ s[i].kind = "head"

OutputShapes ==
    /\ pc = [t \in Threads |-> pc[t]]
    /\ {jsonBuffer, scan, stdout.q} \subseteq Seq(Lines)
    /\ stdout = [open |-> stdout.open, q |-> stdout.q]
    /\ msgChan = [q |-> msgChan.q, closed |-> msgChan.closed]
    /\ {msgChan.q, received} \subseteq Seq(Nat)
    /\ printed = [messages |-> printed.messages, mid |-> printed.mid, stray |-> printed.stray,
                  noise |-> printed.noise, stderr |-> printed.stderr]
    /\ printed.messages \in Nat /\ printed.mid \in BOOLEAN

ReaderOrdered ==
    /\ cli.st = "none" => pc["reader"] = "idle"
    /\ pc["reader"] = "send" => Complete(jsonBuffer)
    /\ msgChan.closed => pc["reader"] = "done"

LinesOrdered ==
    /\ InOrder(jsonBuffer) /\ InOrder(scan) /\ InOrder(stdout.q)
    /\ Precede(jsonBuffer, scan) /\ Precede(jsonBuffer, stdout.q) /\ Precede(scan, stdout.q)
    /\ Printed(jsonBuffer) /\ Printed(scan) /\ Printed(stdout.q)

\* What was sent comes before all lines that are read.
Out == received \o msgChan.q
Last == IF Out = <<>> THEN 0 ELSE Out[Len(Out)]

SentOrdered ==
    /\ Last <= printed.messages
    /\ Above(Last, jsonBuffer) /\ Above(Last, scan) /\ Above(Last, stdout.q)

OutputInv == OutputShapes /\ ReaderOrdered /\ LinesOrdered /\ SentOrdered

LEMMA InitOutput == Init => OutputInv
<1>. SUFFICES ASSUME Init PROVE OutputInv
  OBVIOUS
<1>1. OutputShapes
  BY DEF Init, OutputShapes
<1>2. ReaderOrdered
  BY DEF Init, ReaderOrdered, Threads, Goroutines
<1>3. Len(jsonBuffer) = 0 /\ Len(scan) = 0 /\ Len(stdout.q) = 0
  BY DEF Init
<1>4. Last = 0 /\ printed.messages = 0
  <2>1. received \o msgChan.q = <<>>
    BY DEF Init
  <2>. QED
    BY <2>1 DEF Init, Last, Out
<1>. QED
  BY <1>1, <1>2, <1>3, <1>4 DEF OutputInv, LinesOrdered, SentOrdered, InOrder, Precede, Above,
     Printed

-----------------------------------------------------------------------------
(* How lines move                                                           *)

\* The lines of q after the first n, as far as s goes.
Part(s, q, n) == \A i \in 1 .. Len(s) : n + i \in 1 .. Len(q) /\ s[i] = q[n + i]

LEMMA PartInOrder ==
    ASSUME NEW q, NEW s \in Seq(Lines), NEW n \in Nat, Part(s, q, n), NEW r, NEW m
    PROVE  /\ InOrder(q) => InOrder(s)
           /\ Precede(r, q) => Precede(r, s)
           /\ Above(m, q) => Above(m, s)
           /\ Printed(q) => Printed(s)
<1>1. \A i, j \in 1 .. Len(s) : i < j => n + i < n + j
  OBVIOUS
<1>2. InOrder(q) => InOrder(s)
  BY <1>1 DEF Part, InOrder
<1>3. Precede(r, q) => Precede(r, s)
  BY DEF Part, Precede
<1>4. Above(m, q) => Above(m, s)
  BY DEF Part, Above
<1>5. Printed(q) => Printed(s)
  BY DEF Part, Printed
<1>. QED
  BY <1>2, <1>3, <1>4, <1>5

\* The scanner takes the first k lines of the pipe.
LEMMA LinesSplit ==
    ASSUME NEW q \in Seq(Lines), NEW k \in 1 .. Len(q),
           NEW a, a = SubSeq(q, 1, k), NEW b, b = SubSeq(q, k + 1, Len(q))
    PROVE  /\ a \in Seq(Lines) /\ Part(a, q, 0)
           /\ b \in Seq(Lines) /\ Part(b, q, k) /\ k \in Nat
           /\ InOrder(q) => Precede(a, b)
<1>1. Len(q) \in Nat /\ k \in Nat /\ k <= Len(q) /\ \A i \in 1 .. Len(q) : q[i] \in Lines
  OBVIOUS
<1>2. /\ a \in Seq(Lines) /\ Len(a) = k
      /\ \A i \in 1 .. Len(a) : i \in 1 .. Len(q) /\ 0 + i = i /\ a[i] = q[i]
  BY <1>1
<1>3. /\ b \in Seq(Lines) /\ Len(b) = Len(q) - k
      /\ \A i \in 1 .. Len(b) : k + i \in 1 .. Len(q) /\ b[i] = q[k + i]
  BY <1>1
<1>4. \A i \in 1 .. Len(a), j \in 1 .. Len(b) : i < k + j
  BY <1>1, <1>2, <1>3
<1>5. InOrder(q) => Precede(a, b)
  BY <1>2, <1>3, <1>4 DEF InOrder, Precede
<1>. QED
  BY <1>1, <1>2, <1>3, <1>5 DEF Part

\* The loop takes the first line of the scanner ...
LEMMA LineTaken ==
    ASSUME NEW s \in Seq(Lines), s # <<>>, NEW t, t = Tail(s), NEW r, NEW m \in Nat
    PROVE  /\ t \in Seq(Lines) /\ Head(s) \in Lines
           /\ InOrder(s) => InOrder(t) /\ \A j \in 1 .. Len(t) : Before(Head(s), t[j])
           /\ Precede(r, s) => Precede(r, t) /\ \A i \in 1 .. Len(r) : Before(r[i], Head(s))
           /\ Precede(s, r) => Precede(t, r) /\ \A j \in 1 .. Len(r) : Before(Head(s), r[j])
           /\ Above(m, s) => Above(m, t) /\ Above(m, <<Head(s)>>)
           /\ Printed(s) => Printed(t) /\ Printed(<<Head(s)>>)
<1>1. /\ Len(s) \in Nat \ {0} /\ Head(s) = s[1] /\ s[1] \in Lines /\ t \in Seq(Lines)
      /\ Len(t) = Len(s) - 1 /\ \A i \in 1 .. Len(t) : t[i] = s[i + 1] /\ i + 1 \in 1 .. Len(s)
  OBVIOUS
<1>2. 1 \in 1 .. Len(s) /\ \A i \in 1 .. Len(t) : 1 < i + 1
  BY <1>1
<1>3. InOrder(s) => InOrder(t) /\ \A j \in 1 .. Len(t) : Before(Head(s), t[j])
  BY <1>1, <1>2 DEF InOrder
<1>4. Precede(r, s) => Precede(r, t) /\ \A i \in 1 .. Len(r) : Before(r[i], Head(s))
  BY <1>1, <1>2 DEF Precede
<1>5. Precede(s, r) => Precede(t, r) /\ \A j \in 1 .. Len(r) : Before(Head(s), r[j])
  BY <1>1, <1>2 DEF Precede
<1>6. Above(m, s) => Above(m, t) /\ Above(m, <<Head(s)>>)
  BY <1>1, <1>2 DEF Above
<1>7. Printed(s) => Printed(t) /\ Printed(<<Head(s)>>)
  BY <1>1, <1>2 DEF Printed
<1>. QED
  BY <1>1, <1>3, <1>4, <1>5, <1>6, <1>7

\* ... and puts it at the end of the buffer.
LEMMA LineAdded ==
    ASSUME NEW s \in Seq(Lines), NEW l \in Lines, NEW t, t = Append(s, l), NEW r, NEW m \in Nat
    PROVE  /\ t \in Seq(Lines)
           /\ InOrder(s) /\ (\A i \in 1 .. Len(s) : Before(s[i], l)) => InOrder(t)
           /\ Precede(s, r) /\ (\A j \in 1 .. Len(r) : Before(l, r[j])) => Precede(t, r)
           /\ Precede(r, s) /\ (\A i \in 1 .. Len(r) : Before(r[i], l)) => Precede(r, t)
           /\ Above(m, s) /\ Above(m, <<l>>) => Above(m, t)
           /\ Printed(s) /\ Printed(<<l>>) => Printed(t)
<1>1. /\ Len(s) \in Nat /\ t \in Seq(Lines) /\ Len(t) = Len(s) + 1 /\ t[Len(s) + 1] = l
      /\ \A i \in 1 .. Len(s) : t[i] = s[i]
  OBVIOUS
<1>2. \A i \in 1 .. Len(t) : i \in 1 .. Len(s) \/ i = Len(s) + 1
  BY <1>1
<1>3. InOrder(s) /\ (\A i \in 1 .. Len(s) : Before(s[i], l)) => InOrder(t)
  BY <1>1, <1>2 DEF InOrder
<1>4. Precede(s, r) /\ (\A j \in 1 .. Len(r) : Before(l, r[j])) => Precede(t, r)
  BY <1>1, <1>2 DEF Precede
<1>5. Precede(r, s) /\ (\A i \in 1 .. Len(r) : Before(r[i], l)) => Precede(r, t)
  BY <1>1, <1>2 DEF Precede
<1>6. Len(<<l>>) = 1 /\ <<l>>[1] = l /\ 1 \in 1 .. 1
  OBVIOUS
<1>7. Above(m, s) /\ Above(m, <<l>>) => Above(m, t)
  BY <1>1, <1>2, <1>6 DEF Above
<1>8. Printed(s) /\ Printed(<<l>>) => Printed(t)
  BY <1>1, <1>2, <1>6 DEF Printed
<1>. QED
  BY <1>1, <1>3, <1>4, <1>5, <1>7, <1>8

-----------------------------------------------------------------------------
(* The steps                                                                *)

streamed == <<printed.messages, Out, msgChan.closed>>

\* Steps that move no line, and leave readLoop where it is.
LEMMA NoLineMoves ==
    ASSUME OutputInv, UNCHANGED <<jsonBuffer, scan, msgChan, received>>,
           pc' = [t \in Threads |-> pc'[t]], pc'["reader"] = pc["reader"],
           cli'.st = "none" => cli.st = "none",
           stdout' = [open |-> stdout'.open, q |-> stdout.q],
           printed' = [messages |-> printed.messages, mid |-> printed.mid, stray |-> printed'.stray,
                       noise |-> printed'.noise, stderr |-> printed'.stderr]
    PROVE  OutputInv' /\ UNCHANGED streamed
<1>1. stdout'.q = stdout.q /\ printed'.messages = printed.messages /\ printed'.mid = printed.mid
  OBVIOUS
<1>2. Out' = Out /\ Last' = Last
  BY DEF Out, Last
<1>3. OutputShapes' /\ ReaderOrdered'
  BY <1>1 DEF OutputInv, OutputShapes, ReaderOrdered
<1>4. LinesOrdered'
  BY <1>1 DEF OutputInv, LinesOrdered, InOrder, Precede, Printed
<1>5. SentOrdered'
  BY <1>1, <1>2 DEF OutputInv, SentOrdered, Above
<1>. QED
  BY <1>1, <1>2, <1>3, <1>4, <1>5 DEF OutputInv, streamed

LEMMA GoesWithoutReader ==
    ASSUME OutputInv, NEW t \in Threads \ {"reader"}, NEW l, Goto(t, l)
    PROVE  pc' = [u \in Threads |-> pc'[u]] /\ pc'["reader"] = pc["reader"]
BY DEF OutputInv, OutputShapes, Goto, Threads, Goroutines

LEMMA ReaderGoes ==
    ASSUME OutputInv, NEW l, Goto("reader", l)
    PROVE  pc' = [u \in Threads |-> pc'[u]] /\ pc'["reader"] = l
BY DEF OutputInv, OutputShapes, Goto, Threads, Goroutines

LEMMA OthersOutput ==
    ASSUME Shapes, OutputInv,
           \/ ConnectFails \/ EndInput \/ Close \/ TakeError \/ StderrStep \/ WaiterStep
           \/ CLIPrintsError \/ CLIReads \/ ContextDone \/ \E code \in ExitCodes : CLIExits(code)
           \/ \E w \in Writers : CallWrite(w) \/ WriterStep(w)
           \/ \E t \in Calls : Call(t)
           \/ \E t \in Threads : AnnounceLock(t)
    PROVE  OutputInv' /\ UNCHANGED streamed
<1>1. UNCHANGED <<jsonBuffer, scan, msgChan, received>>
  BY DEF ConnectFails, EndInput, Close, TakeError, StderrStep, ScanStderr, AppendStderr,
     WaiterStep, WaitReturns, RecordExit, ReportExit, CloseErrors, CLIPrintsError, CLIReads,
     ContextDone, CLIExits, CallWrite, WriterStep, CheckConnected, WriteStdin, Call,
     AnnounceLock, output, app
<1>2. /\ pc' = [u \in Threads |-> pc'[u]] /\ pc'["reader"] = pc["reader"]
  <2>1. CASE UNCHANGED pc
    BY <2>1 DEF OutputInv, OutputShapes
  <2>2. CASE \E t \in {"stderr", "waiter"} \cup Calls \cup Writers : \E l : Goto(t, l)
    <3>1. PICK t \in {"stderr", "waiter"} \cup Calls \cup Writers : \E l : Goto(t, l)
      BY <2>2
    <3>2. t \in Threads \ {"reader"}
      BY SizesAssumption DEF Threads, Goroutines
    <3>. QED
      BY <3>1, <3>2, GoesWithoutReader
  <2>3. CASE ConnectFails \/ TakeError \/ CLIPrintsError \/ CLIReads \/ ContextDone
             \/ (\E code \in ExitCodes : CLIExits(code)) \/ \E t \in Threads : AnnounceLock(t)
    BY <2>1, <2>3 DEF ConnectFails, TakeError, CLIPrintsError, CLIReads, ContextDone, CLIExits,
       AnnounceLock
  <2>4. CASE EndInput \/ Close
    BY <2>2, <2>4 DEF EndInput, Close
  <2>5. CASE StderrStep \/ WaiterStep
    BY <2>2, <2>5 DEF StderrStep, ScanStderr, AppendStderr, WaiterStep, WaitReturns, RecordExit,
       ReportExit, CloseErrors
  <2>6. CASE \E w \in Writers : CallWrite(w) \/ WriterStep(w)
    BY <2>2, <2>6 DEF CallWrite, WriterStep, CheckConnected, WriteStdin
  <2>7. CASE \E t \in Calls : Call(t)
    BY <2>2, <2>7 DEF Call
  <2>. QED
    BY <2>3, <2>4, <2>5, <2>6, <2>7
<1>3. cli'.st = "none" => cli.st = "none"
  BY DEF ConnectFails, EndInput, Close, TakeError, StderrStep, ScanStderr, AppendStderr,
     WaiterStep, WaitReturns, RecordExit, ReportExit, CloseErrors, CLIPrintsError, CLIReads,
     ContextDone, CLIExits, CallWrite, WriterStep, CheckConnected, WriteStdin, Call,
     AnnounceLock, process, Shapes
<1>4. stdout' = [open |-> stdout'.open, q |-> stdout.q]
  <2>1. UNCHANGED stdout \/ stdout' = [stdout EXCEPT !.open = FALSE]
    BY DEF ConnectFails, EndInput, Close, TakeError, StderrStep, ScanStderr, AppendStderr,
       WaiterStep, WaitReturns, RecordExit, ReportExit, CloseErrors, CLIPrintsError, CLIReads,
       ContextDone, CLIExits, CallWrite, WriterStep, CheckConnected, WriteStdin, Call,
       AnnounceLock, pipes
  <2>. QED
    BY <2>1 DEF OutputInv, OutputShapes
<1>5. printed' = [messages |-> printed.messages, mid |-> printed.mid, stray |-> printed'.stray,
                  noise |-> printed'.noise, stderr |-> printed'.stderr]
  <2>1. UNCHANGED printed \/ printed' = [printed EXCEPT !.stderr = @ + 1]
    BY DEF ConnectFails, EndInput, Close, TakeError, StderrStep, ScanStderr, AppendStderr,
       WaiterStep, WaitReturns, RecordExit, ReportExit, CloseErrors, CLIPrintsError, CLIReads,
       ContextDone, CLIExits, CallWrite, WriterStep, CheckConnected, WriteStdin, Call,
       AnnounceLock, process
  <2>. QED
    BY <2>1 DEF OutputInv, OutputShapes
<1>. QED
  BY <1>1, <1>2, <1>3, <1>4, <1>5, NoLineMoves

LEMMA ConnectOutput ==
    ASSUME Shapes, OutputInv, Connect
    PROVE  OutputInv' /\ UNCHANGED streamed
<1>1. /\ pc' = [t \in Threads |-> pc'[t]] /\ pc["reader"] = "idle" /\ pc'["reader"] = "scan"
      /\ ~msgChan.closed /\ cli'.st # "none"
  <2>1. pc' = [t \in Threads |-> pc'[t]] /\ pc'["reader"] = "scan"
    BY DEF Connect, Threads, Goroutines
  <2>2. pc["reader"] = "idle" /\ ~msgChan.closed
    BY DEF OutputInv, ReaderOrdered, Connect
  <2>3. cli' = [cli EXCEPT !.st = "running"] /\ cli.st = "none"
    BY DEF Connect
  <2>. QED
    BY <2>1, <2>2, <2>3 DEF Shapes
<1>2. /\ UNCHANGED <<jsonBuffer, scan, msgChan, received, printed>>
      /\ stdout' = [open |-> stdout'.open, q |-> stdout.q] /\ stdout'.q = stdout.q
  BY DEF Connect, output, app, OutputInv, OutputShapes
<1>3. Out' = Out /\ Last' = Last
  BY <1>2 DEF Out, Last
<1>4. OutputShapes' /\ ReaderOrdered'
  BY <1>1, <1>2 DEF OutputInv, OutputShapes, ReaderOrdered
<1>5. LinesOrdered' /\ SentOrdered'
  BY <1>2, <1>3 DEF OutputInv, LinesOrdered, InOrder, Precede, Printed, SentOrdered, Above
<1>. QED
  BY <1>2, <1>3, <1>4, <1>5 DEF OutputInv, streamed

LEMMA LastInNat ==
    ASSUME OutputInv
    PROVE  Out \in Seq(Nat) /\ Last \in Nat
<1>1. Out \in Seq(Nat)
  BY DEF OutputInv, OutputShapes, Out
<1>. QED
  BY <1>1 DEF Last

LEMMA FillOutput ==
    ASSUME OutputInv, Fill
    PROVE  OutputInv' /\ UNCHANGED streamed
<1>1. PICK k \in 1 .. Len(stdout.q) :
         /\ scan' = SubSeq(stdout.q, 1, k)
         /\ stdout' = [stdout EXCEPT !.q = SubSeq(stdout.q, k + 1, Len(stdout.q))]
  BY DEF Fill
<1>2. /\ stdout' = [open |-> stdout.open, q |-> stdout'.q]
      /\ stdout'.q = SubSeq(stdout.q, k + 1, Len(stdout.q))
  BY <1>1 DEF OutputInv, OutputShapes
<1>3. UNCHANGED <<jsonBuffer, msgChan, received, printed, pc, cli>>
  BY DEF Fill, app, process
<1>4. stdout.q \in Seq(Lines) /\ jsonBuffer \in Seq(Lines) /\ Last \in Nat
  BY LastInNat DEF OutputInv, OutputShapes
<1>5. /\ scan' \in Seq(Lines) /\ stdout'.q \in Seq(Lines)
      /\ InOrder(scan') /\ InOrder(stdout'.q) /\ Precede(scan', stdout'.q)
      /\ Precede(jsonBuffer, scan') /\ Precede(jsonBuffer, stdout'.q)
      /\ Above(Last, scan') /\ Above(Last, stdout'.q)
      /\ Printed(scan') /\ Printed(stdout'.q)
  <2>. DEFINE a == SubSeq(stdout.q, 1, k)
              b == SubSeq(stdout.q, k + 1, Len(stdout.q))
  <2>1. /\ a \in Seq(Lines) /\ b \in Seq(Lines)
        /\ InOrder(a) /\ InOrder(b) /\ Precede(a, b)
        /\ Precede(jsonBuffer, a) /\ Precede(jsonBuffer, b)
        /\ Above(Last, a) /\ Above(Last, b) /\ Printed(a) /\ Printed(b)
    <3>. HIDE DEF a, b
    <3>1. a = SubSeq(stdout.q, 1, k) /\ b = SubSeq(stdout.q, k + 1, Len(stdout.q))
      BY DEF a, b
    <3>2. /\ a \in Seq(Lines) /\ Part(a, stdout.q, 0)
          /\ b \in Seq(Lines) /\ Part(b, stdout.q, k) /\ k \in Nat
          /\ InOrder(stdout.q) => Precede(a, b)
      BY <1>1, <1>4, <3>1, LinesSplit
    <3>. QED
      BY <3>2, PartInOrder DEF OutputInv, LinesOrdered, SentOrdered
  <2>2. scan' = a /\ stdout'.q = b
    BY <1>1, <1>2
  <2>. QED
    BY <2>1, <2>2
<1>6. Out' = Out /\ Last' = Last
  BY <1>3 DEF Out, Last
<1>7. OutputShapes' /\ ReaderOrdered'
  BY <1>2, <1>3, <1>5 DEF OutputInv, OutputShapes, ReaderOrdered
<1>8. LinesOrdered' /\ SentOrdered'
  BY <1>3, <1>5, <1>6 DEF OutputInv, LinesOrdered, SentOrdered, InOrder, Precede, Printed, Above
<1>. QED
  BY <1>3, <1>6, <1>7, <1>8 DEF OutputInv, streamed

LEMMA ScanLineOutput ==
    ASSUME OutputInv, ScanLine
    PROVE  OutputInv' /\ UNCHANGED streamed
<1>. DEFINE line == Head(scan)
<1>1. /\ scan \in Seq(Lines) /\ scan # <<>> /\ scan' = Tail(scan)
      /\ jsonBuffer \in Seq(Lines) /\ Last \in Nat
      /\ UNCHANGED <<msgChan, received, printed, stdout, cli>>
      /\ pc["reader"] = "scan"
  BY LastInNat DEF OutputInv, OutputShapes, ScanLine, pipes, app, process
<1>2. /\ jsonBuffer' = jsonBuffer \/ jsonBuffer' = Append(jsonBuffer, line)
      /\ pc' = [t \in Threads |-> pc'[t]] /\ pc'["reader"] # "idle"
      /\ pc'["reader"] = "send" => Complete(jsonBuffer')
  <2>1. CASE UNCHANGED <<pc, jsonBuffer>>
    BY <1>1, <2>1 DEF OutputInv, OutputShapes
  <2>2. CASE (Goto("reader", "scanFailed") \/ Goto("reader", "leaving")) /\ UNCHANGED jsonBuffer
    BY <2>2, ReaderGoes
  <2>3. CASE Accumulate(line)
    <3>1. jsonBuffer' = Append(jsonBuffer, line)
      BY <2>3 DEF Accumulate
    <3>2. \/ Complete(jsonBuffer') /\ Goto("reader", "send")
          \/ Goto("reader", "overflow") \/ Goto("reader", "scan")
      BY <2>3 DEF Accumulate
    <3>. QED
      BY <3>1, <3>2, ReaderGoes
  <2>. QED
    BY <2>1, <2>2, <2>3 DEF ScanLine
<1>3. /\ scan' \in Seq(Lines) /\ line \in Lines /\ InOrder(scan') /\ Precede(scan', stdout.q)
      /\ Precede(jsonBuffer, scan') /\ Above(Last, scan') /\ Printed(scan')
      /\ \A i \in 1 .. Len(jsonBuffer) : Before(jsonBuffer[i], line)
      /\ \A j \in 1 .. Len(scan') : Before(line, scan'[j])
      /\ \A j \in 1 .. Len(stdout.q) : Before(line, stdout.q[j])
      /\ Above(Last, <<line>>) /\ Printed(<<line>>)
  BY <1>1, LineTaken DEF OutputInv, LinesOrdered, SentOrdered
<1>4. /\ jsonBuffer' \in Seq(Lines) /\ InOrder(jsonBuffer')
      /\ Precede(jsonBuffer', scan') /\ Precede(jsonBuffer', stdout.q)
      /\ Above(Last, jsonBuffer') /\ Printed(jsonBuffer')
  <2>1. CASE jsonBuffer' = jsonBuffer
    BY <1>1, <1>3, <2>1 DEF OutputInv, LinesOrdered, SentOrdered
  <2>2. CASE jsonBuffer' = Append(jsonBuffer, line)
    BY <1>1, <1>3, <2>2, LineAdded DEF OutputInv, LinesOrdered, SentOrdered
  <2>. QED
    BY <1>2, <2>1, <2>2
<1>5. Out' = Out /\ Last' = Last
  BY <1>1 DEF Out, Last
<1>6. OutputShapes' /\ ReaderOrdered'
  BY <1>1, <1>2, <1>3, <1>4 DEF OutputInv, OutputShapes, ReaderOrdered
<1>7. LinesOrdered' /\ SentOrdered'
  BY <1>1, <1>3, <1>4, <1>5 DEF OutputInv, LinesOrdered, SentOrdered, InOrder, Precede, Printed,
     Above
<1>. QED
  BY <1>1, <1>5, <1>6, <1>7 DEF OutputInv, streamed

\* The buffer is emptied, and what was in it is sent or given up.
LEMMA BufferEmptied ==
    ASSUME LinesOrdered, jsonBuffer' = <<>>, UNCHANGED <<scan, stdout, printed>>
    PROVE  LinesOrdered'
<1>1. Len(jsonBuffer') = 0
  OBVIOUS
<1>. QED
  BY <1>1 DEF LinesOrdered, InOrder, Precede, Printed

LEMMA AppendToEnd ==
    ASSUME NEW s \in Seq(Nat), NEW t \in Seq(Nat), NEW n \in Nat
    PROVE  s \o Append(t, n) = Append(s \o t, n)
<1>1. Append(t, n) \in Seq(Nat) /\ s \o t \in Seq(Nat)
  OBVIOUS
<1>2. s \o Append(t, n) \in Seq(Nat) /\ Append(s \o t, n) \in Seq(Nat)
  BY <1>1
<1>3. Len(s \o Append(t, n)) = Len(Append(s \o t, n))
  BY <1>1
<1>4. \A i \in 1 .. Len(s \o Append(t, n)) : (s \o Append(t, n))[i] = Append(s \o t, n)[i]
  BY <1>1
<1>. QED
  BY <1>2, <1>3, <1>4, SeqEqual

LEMMA MoveToEnd ==
    ASSUME NEW s \in Seq(Nat), NEW t \in Seq(Nat), t # <<>>
    PROVE  Append(s, Head(t)) \o Tail(t) = s \o t
<1>. DEFINE u == Append(s, Head(t))
<1>1. /\ Len(s) \in Nat /\ Len(t) \in Nat \ {0} /\ u \in Seq(Nat) /\ Tail(t) \in Seq(Nat) /\ Len(u) = Len(s) + 1
      /\ u[Len(s) + 1] = t[1] /\ \A i \in 1 .. Len(s) : u[i] = s[i]
      /\ Len(Tail(t)) = Len(t) - 1 /\ \A i \in 1 .. Len(t) - 1 : Tail(t)[i] = t[i + 1]
  OBVIOUS
<1>. HIDE DEF u
<1>2. u \o Tail(t) \in Seq(Nat) /\ s \o t \in Seq(Nat) /\ Len(u \o Tail(t)) = Len(s \o t)
  <2>1. u \o Tail(t) \in Seq(Nat) /\ Len(u \o Tail(t)) = Len(u) + Len(Tail(t))
    BY <1>1, ConcatProperties
  <2>2. s \o t \in Seq(Nat) /\ Len(s \o t) = Len(s) + Len(t)
    BY ConcatProperties
  <2>. QED
    BY <1>1, <2>1, <2>2
<1>3. \A i \in 1 .. Len(u \o Tail(t)) : (u \o Tail(t))[i] = (s \o t)[i]
  BY <1>1
<1>. QED
  BY <1>2, <1>3, SeqEqual DEF u

LEMMA SendOutput ==
    ASSUME OutputInv, SendMessage
    PROVE  /\ OutputInv'
           /\ ~msgChan.closed /\ Out' = Append(Out, jsonBuffer[1].n)
           /\ jsonBuffer[1].n \in Last + 1 .. printed.messages
           /\ UNCHANGED <<printed, msgChan.closed>>
<1>. DEFINE n == jsonBuffer[1].n
<1>1. /\ pc["reader"] = "send" /\ Complete(jsonBuffer) /\ ~msgChan.closed
      /\ jsonBuffer' = <<>> /\ UNCHANGED <<scan, stdout, received, printed, cli>>
      /\ jsonBuffer \in Seq(Lines)
  BY DEF SendMessage, OutputInv, OutputShapes, ReaderOrdered, pipes, process, app
<1>2. /\ 1 \in 1 .. Len(jsonBuffer) /\ jsonBuffer[1] \in Lines /\ n \in Nat
      /\ jsonBuffer[1].kind \in {"whole", "head"}
      /\ Len(jsonBuffer) \in 1 .. Len(jsonBuffer)
      /\ jsonBuffer[Len(jsonBuffer)] \in Lines /\ jsonBuffer[Len(jsonBuffer)].n = n
      /\ jsonBuffer[Len(jsonBuffer)].kind \in {"whole", "tail"}
  <2>1. Len(jsonBuffer) \in {1, 2}
    BY <1>1 DEF Complete
  <2>2. /\ 1 \in 1 .. Len(jsonBuffer) /\ Len(jsonBuffer) \in 1 .. Len(jsonBuffer)
        /\ \A i \in 1 .. Len(jsonBuffer) : jsonBuffer[i] \in Lines
    BY SMTT(30), <1>1, <2>1
  <2>3. CASE Len(jsonBuffer) = 1
    BY <1>1, <2>2, <2>3 DEF Complete, Lines
  <2>4. CASE Len(jsonBuffer) = 2
    BY <1>1, <2>2, <2>4 DEF Complete, Lines
  <2>. QED
    BY <2>1, <2>3, <2>4
<1>3. /\ received \in Seq(Nat) /\ msgChan.q \in Seq(Nat) /\ Out \in Seq(Nat) /\ Last \in Nat
      /\ msgChan' = [msgChan EXCEPT !.q = Append(msgChan.q, n)]
  BY LastInNat DEF OutputInv, OutputShapes, SendMessage
<1>4. /\ msgChan' = [q |-> Append(msgChan.q, n), closed |-> msgChan.closed]
      /\ msgChan'.q = Append(msgChan.q, n) /\ msgChan'.closed = msgChan.closed
      /\ msgChan'.q \in Seq(Nat)
  <2>1. Append(msgChan.q, n) \in Seq(Nat)
    BY <1>2, <1>3
  <2>2. msgChan' = [q |-> Append(msgChan.q, n), closed |-> msgChan.closed]
    BY <1>3 DEF OutputInv, OutputShapes
  <2>. QED
    BY <2>1, <2>2
<1>5. Out' = Append(Out, n)
  <2>1. received \o Append(msgChan.q, n) = Append(received \o msgChan.q, n)
    <3>. HIDE DEF n
    <3>. QED
      BY <1>2, <1>3, AppendToEnd
  <2>. QED
    BY <1>1, <1>4, <2>1 DEF Out
<1>6. Last' = n
  <2>1. /\ Append(Out, n) # <<>> /\ Len(Append(Out, n)) = Len(Out) + 1
        /\ Append(Out, n)[Len(Out) + 1] = n
    <3>. HIDE DEF n
    <3>1. Len(Out) \in Nat /\ Append(Out, n) \in Seq(Nat)
      BY <1>2, <1>3
    <3>. QED
      BY <1>2, <1>3, <3>1, AppendProperties
  <2>. QED
    BY <1>5, <2>1 DEF Last
<1>7. \A s \in Seq(Lines) : Precede(jsonBuffer, s) => Above(n, s)
  <2>. SUFFICES ASSUME NEW s \in Seq(Lines), Precede(jsonBuffer, s)
                PROVE  Above(n, s)
    OBVIOUS
  <2>. DEFINE last == jsonBuffer[Len(jsonBuffer)]
  <2>1. last \in Lines /\ last.n = n /\ last.kind # "head" /\ Len(jsonBuffer) \in 1 .. Len(jsonBuffer)
    BY <1>2
  <2>2. \A j \in 1 .. Len(s) : Before(last, s[j]) /\ s[j] \in Lines
    BY <2>1 DEF Precede
  <2>3. n # 0
    BY <1>2 DEF OutputInv, LinesOrdered, Printed
  <2>. QED
    BY <1>2, <2>1, <2>2, <2>3 DEF Above, Before, Lines
\* The message is complete, so that it was counted.
<1>8. n \in Last + 1 .. printed.messages
  <2>1. n # 0 /\ Last < n
    BY <1>2 DEF OutputInv, LinesOrdered, Printed, SentOrdered, Above
  <2>2. n <= printed.messages
    BY <1>2 DEF OutputInv, LinesOrdered, Printed
  <2>. QED
    BY <1>2, <1>3, <2>1, <2>2 DEF OutputInv, OutputShapes
<1>9. OutputShapes' /\ ReaderOrdered'
  <2>1. Goto("reader", "scan")
    BY DEF SendMessage
  <2>2. pc' = [u \in Threads |-> pc'[u]] /\ pc'["reader"] = "scan"
    BY <2>1, ReaderGoes
  <2>3. cli.st # "none"
    BY <1>1 DEF OutputInv, ReaderOrdered
  <2>. QED
    BY <1>1, <1>4, <2>2, <2>3 DEF OutputInv, OutputShapes, ReaderOrdered
<1>10. LinesOrdered'
  BY <1>1, BufferEmptied DEF OutputInv
<1>11. SentOrdered'
  <2>1. Above(n, scan) /\ Above(n, stdout.q)
    BY <1>7 DEF OutputInv, OutputShapes, LinesOrdered
  <2>2. Len(jsonBuffer') = 0
    BY <1>1
  <2>. QED
    BY <1>1, <1>6, <1>8, <2>1, <2>2 DEF SentOrdered, Above
<1>. QED
  BY <1>1, <1>4, <1>5, <1>8, <1>9, <1>10, <1>11 DEF OutputInv

LEMMA ReaderOutput ==
    ASSUME OutputInv, ReportOverflow \/ ScanEnds \/ ReportScanError \/ SendOnClosedErrors
    PROVE  OutputInv' /\ UNCHANGED streamed
<1>1. /\ UNCHANGED <<scan, msgChan, received, stdout, printed, cli>>
      /\ UNCHANGED jsonBuffer \/ jsonBuffer' = <<>>
      /\ pc["reader"] \notin {"idle", "done"}
  BY DEF ReportOverflow, ScanEnds, ReportScanError, SendOnClosedErrors, pipes, process, app, output
<1>2. /\ pc' = [u \in Threads |-> pc'[u]]
      /\ UNCHANGED <<pc, jsonBuffer>> \/ pc'["reader"] \in {"scan", "leaving", "scanFailed"}
  <2>1. CASE UNCHANGED <<pc, jsonBuffer>>
    BY <2>1 DEF OutputInv, OutputShapes
  <2>2. CASE \E l \in {"scan", "leaving", "scanFailed"} : Goto("reader", l)
    BY <2>2, ReaderGoes
  <2>. QED
    BY <2>1, <2>2 DEF ReportOverflow, ScanEnds, ReportScanError, SendOnClosedErrors, output
<1>3. Out' = Out /\ Last' = Last
  BY <1>1 DEF Out, Last
<1>4. OutputShapes' /\ ReaderOrdered'
  <2>1. jsonBuffer' \in Seq(Lines)
    <3>1. jsonBuffer \in Seq(Lines) /\ <<>> \in Seq(Lines)
      BY DEF OutputInv, OutputShapes
    <3>. QED
      BY <1>1, <3>1
  <2>2. OutputShapes'
    BY <1>1, <1>2, <2>1 DEF OutputInv, OutputShapes
  <2>3. cli.st # "none" /\ ~msgChan.closed
    BY <1>1 DEF OutputInv, ReaderOrdered
  <2>4. pc'["reader"] = "send" => Complete(jsonBuffer)'
    BY <1>2 DEF OutputInv, ReaderOrdered, Complete
  <2>. QED
    BY <1>1, <2>2, <2>3, <2>4 DEF ReaderOrdered
<1>5. LinesOrdered'
  <2>1. CASE UNCHANGED jsonBuffer
    BY <1>1, <2>1 DEF OutputInv, LinesOrdered, InOrder, Precede, Printed
  <2>. QED
    BY <1>1, <2>1, BufferEmptied DEF OutputInv
<1>6. SentOrdered'
  BY <1>1, <1>3 DEF OutputInv, SentOrdered, Above
<1>. QED
  BY <1>1, <1>3, <1>4, <1>5, <1>6 DEF OutputInv, streamed

LEMMA CloseOutput ==
    ASSUME OutputInv, CloseMessages
    PROVE  OutputInv' /\ msgChan'.closed = TRUE /\ UNCHANGED <<printed.messages, Out>>
<1>1. /\ UNCHANGED <<scan, jsonBuffer, received, stdout, printed, cli>>
      /\ msgChan' = [q |-> msgChan.q, closed |-> TRUE] /\ pc["reader"] = "leaving"
  BY DEF CloseMessages, pipes, process, app, OutputInv, OutputShapes
<1>2. pc' = [u \in Threads |-> pc'[u]] /\ pc'["reader"] = "done"
  BY ReaderGoes DEF CloseMessages
<1>3. Out' = Out /\ Last' = Last /\ msgChan'.closed = TRUE
  BY <1>1 DEF Out, Last
<1>4. OutputShapes' /\ ReaderOrdered'
  BY <1>1, <1>2 DEF OutputInv, OutputShapes, ReaderOrdered
<1>5. LinesOrdered' /\ SentOrdered'
  BY <1>1, <1>3 DEF OutputInv, LinesOrdered, InOrder, Precede, Printed, SentOrdered, Above
<1>. QED
  BY <1>1, <1>3, <1>4, <1>5 DEF OutputInv

\* What the client takes stays part of what was sent.
LEMMA TakeOutput ==
    ASSUME OutputInv, TakeMessage
    PROVE  OutputInv' /\ UNCHANGED streamed
<1>1. /\ UNCHANGED <<scan, jsonBuffer, pc, stdout, printed, cli>>
      /\ received' = Append(received, Head(msgChan.q))
      /\ msgChan' = [q |-> Tail(msgChan.q), closed |-> msgChan.closed]
      /\ msgChan.q # <<>> /\ msgChan.q \in Seq(Nat) /\ received \in Seq(Nat)
  BY DEF TakeMessage, pipes, process, OutputInv, OutputShapes
<1>2. received' \in Seq(Nat) /\ msgChan'.q \in Seq(Nat) /\ msgChan'.q = Tail(msgChan.q)
  BY <1>1
<1>3. Append(received, Head(msgChan.q)) \o Tail(msgChan.q) = received \o msgChan.q
  BY <1>1, MoveToEnd
<1>4. Out' = Out /\ Last' = Last /\ msgChan'.closed = msgChan.closed
  BY <1>1, <1>3 DEF Out, Last
<1>5. OutputShapes' /\ ReaderOrdered'
  BY <1>1, <1>2, <1>4 DEF OutputInv, OutputShapes, ReaderOrdered
<1>6. LinesOrdered' /\ SentOrdered'
  BY <1>1, <1>4 DEF OutputInv, LinesOrdered, InOrder, Precede, Printed, SentOrdered, Above
<1>. QED
  BY <1>1, <1>4, <1>5, <1>6 DEF OutputInv, streamed

LEMMA PrintOutput ==
    ASSUME OutputInv, NEW line \in NextLines, CLIPrints(line)
    PROVE  /\ OutputInv' /\ UNCHANGED <<Out, msgChan.closed>>
           /\ printed'.messages \in {printed.messages, printed.messages + 1}
<1>. DEFINE m == printed.messages
<1>1. /\ UNCHANGED <<scan, jsonBuffer, msgChan, received, pc, cli>>
      /\ stdout' = [open |-> stdout.open, q |-> Append(stdout.q, line)]
      /\ printed' = [messages |-> IF line.kind \in {"whole", "tail"} THEN m + 1 ELSE m,
                     mid |-> (line.kind = "head"), stray |-> printed'.stray,
                     noise |-> printed'.noise, stderr |-> printed'.stderr]
      /\ {jsonBuffer, scan, stdout.q} \subseteq Seq(Lines) /\ m \in Nat /\ Last \in Nat
  BY LastInNat DEF CLIPrints, output, app, OutputInv, OutputShapes
<1>2. /\ stdout'.q = Append(stdout.q, line)
      /\ printed'.messages = IF line.kind \in {"whole", "tail"} THEN m + 1 ELSE m
      /\ printed'.mid = (line.kind = "head")
  BY <1>1
<1>3. /\ line \in Lines
      /\ line.n = IF line.kind \in {"whole", "head", "tail"} THEN m + 1 ELSE 0
      /\ printed.mid <=> line.kind = "tail"
  BY <1>1 DEF NextLines, Lines, LineKinds, OutputInv, OutputShapes
<1>. HIDE DEF m
<1>4. ASSUME NEW s \in {jsonBuffer, scan, stdout.q}
      PROVE  Printed(s)' /\ \A i \in 1 .. Len(s) : Before(s[i], line)
  <2>1. Printed(s) /\ \A i \in 1 .. Len(s) : s[i] \in Lines
    BY <1>1, <1>4 DEF OutputInv, LinesOrdered
  <2>2. \A i \in 1 .. Len(s) : s[i].n <= m \/ (line.kind = "tail" /\ s[i].n = m + 1 /\ s[i].kind = "head")
    BY <1>3, <2>1 DEF Printed, m
  <2>3. \A i \in 1 .. Len(s) : Before(s[i], line)
    BY <1>1, <1>3, <2>1, <2>2 DEF Before, Lines
  <2>4. \A i \in 1 .. Len(s) :
           /\ s[i].kind \in {"whole", "head", "tail"} => s[i].n # 0
           /\ s[i].n <= printed'.messages
    BY <1>1, <1>2, <2>1, <2>2 DEF Printed, Lines
  <2>. QED
    BY <2>3, <2>4 DEF Printed
<1>5. Above(Last, <<line>>)
  <2>1. Last <= m
    BY DEF OutputInv, SentOrdered, m
  <2>2. line.n = 0 \/ Last < line.n
    BY <1>1, <1>3, <2>1
  <2>3. Len(<<line>>) = 1 /\ <<line>>[1] = line
    OBVIOUS
  <2>. QED
    BY <2>2, <2>3 DEF Above
<1>6. /\ stdout'.q \in Seq(Lines) /\ InOrder(stdout'.q)
      /\ Precede(jsonBuffer, stdout'.q) /\ Precede(scan, stdout'.q) /\ Above(Last, stdout'.q)
  BY ZenonT(60), <1>1, <1>2, <1>3, <1>4, <1>5, LineAdded DEF OutputInv, LinesOrdered, SentOrdered
<1>7. Printed(stdout.q)'
  <2>. DEFINE s == stdout'.q
  <2>1. /\ Len(stdout.q) \in Nat /\ Len(s) = Len(stdout.q) + 1 /\ s[Len(stdout.q) + 1] = line
        /\ \A i \in 1 .. Len(stdout.q) : s[i] = stdout.q[i]
    BY <1>1, <1>2, <1>3
  <2>2. \A i \in 1 .. Len(s) : i \in 1 .. Len(stdout.q) \/ s[i] = line
    BY <2>1
  <2>3. /\ line.kind \in {"whole", "head", "tail"} => line.n # 0
        /\ \/ line.n <= printed'.messages
           \/ printed'.mid /\ line.n = printed'.messages + 1 /\ line.kind = "head"
    <3>1. m + 1 # 0 /\ 0 <= m
      BY <1>1
    <3>2. CASE line.kind \in {"whole", "tail"}
      BY <1>1, <1>2, <1>3, <3>1, <3>2
    <3>3. CASE line.kind = "head"
      <4>1. printed'.mid
        BY <1>2, <3>3
      <4>2. line.n = m + 1 /\ printed'.messages = m
        BY <1>2, <1>3, <3>3
      <4>. QED
        BY <3>1, <3>3, <4>1, <4>2
    <3>4. CASE line.kind \notin {"whole", "head", "tail"}
      BY <1>2, <1>3, <3>1, <3>4
    <3>. QED
      BY <3>2, <3>3, <3>4
  <2>4. \A i \in 1 .. Len(stdout.q) :
           /\ s[i].kind \in {"whole", "head", "tail"} => s[i].n # 0
           /\ \/ s[i].n <= printed'.messages
              \/ printed'.mid /\ s[i].n = printed'.messages + 1 /\ s[i].kind = "head"
    BY <1>4, <2>1 DEF Printed
  <2>. QED
    BY <2>2, <2>3, <2>4 DEF Printed
<1>8. Printed(jsonBuffer)' /\ Printed(scan)'
  BY <1>1, <1>4 DEF Printed
<1>9. Out' = Out /\ Last' = Last
  BY <1>1 DEF Out, Last
<1>10. OutputShapes' /\ ReaderOrdered'
  BY <1>1, <1>2, <1>6 DEF OutputInv, OutputShapes, ReaderOrdered
<1>11. LinesOrdered'
  BY <1>1, <1>6, <1>7, <1>8 DEF OutputInv, LinesOrdered, InOrder, Precede
<1>12. SentOrdered'
  <2>1. Last' <= printed'.messages
    BY <1>1, <1>2, <1>9 DEF OutputInv, SentOrdered, m
  <2>. QED
    BY <1>1, <1>6, <1>9, <2>1 DEF OutputInv, SentOrdered, Above
<1>. QED
  BY <1>1, <1>2, <1>9, <1>10, <1>11, <1>12 DEF OutputInv, m

LEMMA OutputStep ==
    ASSUME Shapes, OutputInv, [Next]_vars
    PROVE  OutputInv' /\ [MS!Next]_(MS!vars)
<1>. USE DEF MS!vars, MS!Next
<1>1. ASSUME OutputInv', UNCHANGED streamed
      PROVE  OutputInv' /\ [MS!Next]_(MS!vars)
  BY <1>1 DEF streamed, Out
<1>2. CASE UNCHANGED vars
  <2>1. OutputInv' /\ UNCHANGED streamed
    BY <1>2 DEF vars, guarded, output, pipes, process, app, streamed, Out, Last, OutputInv,
       OutputShapes, ReaderOrdered, Complete, LinesOrdered, SentOrdered, InOrder, Precede,
       Printed, Above
  <2>. QED
    BY <1>1, <2>1
<1>3. CASE SendMessage
  <2>1. MS!Deliver
    BY <1>3, SendOutput DEF MS!Deliver, MS!LastOut, Out, Last
  <2>. QED
    BY <1>3, <2>1, SendOutput
<1>4. CASE CloseMessages
  BY <1>4, CloseOutput DEF MS!End, Out
<1>5. ASSUME NEW line \in NextLines, CLIPrints(line)
      PROVE  OutputInv' /\ [MS!Next]_(MS!vars)
  BY <1>5, PrintOutput DEF MS!Emit, Out
<1>6. CASE Connect \/ Fill \/ ScanLine \/ TakeMessage
  BY <1>1, <1>6, ConnectOutput, FillOutput, ScanLineOutput, TakeOutput
<1>7. CASE ReportOverflow \/ ScanEnds \/ ReportScanError \/ SendOnClosedErrors
  BY <1>1, <1>7, ReaderOutput
<1>8. CASE \/ ConnectFails \/ EndInput \/ Close \/ TakeError \/ StderrStep \/ WaiterStep
           \/ CLIPrintsError \/ CLIReads \/ ContextDone \/ \E code \in ExitCodes : CLIExits(code)
           \/ \E w \in Writers : CallWrite(w) \/ WriterStep(w)
           \/ \E t \in Calls : Call(t)
           \/ \E t \in Threads : AnnounceLock(t)
  BY <1>1, <1>8, OthersOutput
<1>. QED
  BY <1>2, <1>3, <1>4, <1>5, <1>6, <1>7, <1>8 DEF Next, SDKStep, ReaderStep, CLIStep

(* readLoop: whatever the CLI prints, in lines, in halves or as noise, and  *)
(* however it ends, the messages on msgChan are messages it printed, in the *)
(* order it printed them, none twice, and none after the channel is closed. *)
THEOREM TransportImplementsMessageStream == Spec => ImplementsMessageStream
<1>1. Init => MS!Init
  BY DEF Init, MS!Init
<1>2. IInv /\ OutputInv /\ [Next]_vars => OutputInv' /\ [MS!Next]_(MS!vars)
  BY OutputStep DEF IInv
<1>. QED
  BY <1>1, <1>2, InitOutput, Invariant, PTL DEF Spec, MS!Spec, ImplementsMessageStream

-----------------------------------------------------------------------------
(* Nothing is lost.  The lines that readLoop and the pipe hold are one     *)
(* queue, which the CLI fills at one end and readLoop empties at the other *)

InFlight == jsonBuffer \o (scan \o stdout.q)

\* Only messages and blank lines; the first part of a message is followed by
\* the second, unless that is still to come.
Halves(f, mid, m) ==
    /\ \A i \in 1 .. Len(f) : f[i].kind \in {"whole", "head", "tail", "blank"}
    /\ \A i \in 1 .. Len(f) : f[i].kind = "head" =>
          IF i = Len(f) THEN mid /\ f[i].n = m + 1
                        ELSE f[i + 1].kind = "tail" /\ f[i + 1].n = f[i].n
    /\ \A i \in 1 .. Len(f) : f[i].kind = "tail" => i > 1 /\ f[i - 1].kind = "head"
    /\ mid => Len(f) > 0 /\ f[Len(f)].kind = "head"

\* The lines of f complete the messages from k + 1 to m.
Numbered(f, k, m) ==
    /\ \A n \in k + 1 .. m : \E i \in Ending(f) : f[i].n = n
    /\ \A i \in Ending(f) : f[i].n \in k + 1 .. m
    /\ \A i, j \in Ending(f) : i < j => f[i].n < f[j].n

\* At most the first part of a message waits in the buffer.
HalfRead ==
    /\ pc["reader"] \in {"idle", "scan", "send"}
    /\ pc["reader"] # "send" =>
          Len(jsonBuffer) = 0 \/ (Len(jsonBuffer) = 1 /\ jsonBuffer[1].kind = "head")

Counting == \A i \in 1 .. Len(Out) : Out[i] = i

Undisturbed == ~printed.noise /\ pc["reader"] \notin {"scanFailed", "leaving", "done"}

NoneMissing ==
    /\ HalfRead /\ Counting
    /\ Halves(InFlight, printed.mid, printed.messages)
    /\ Numbered(InFlight, Len(Out), printed.messages)

LossInv ==
    /\ printed.noise \in BOOLEAN
    /\ ~printed.noise => Counting
    /\ Undisturbed => NoneMissing

LEMMA InitLoss == Init => LossInv
<1>. SUFFICES ASSUME Init PROVE LossInv
  OBVIOUS
<1>1. InFlight = <<>> /\ Out = <<>>
  BY DEF Init, InFlight, Out
<1>2. Len(InFlight) = 0 /\ Ending(InFlight) = {} /\ Len(Out) = 0
  BY <1>1 DEF Ending
<1>3. printed.messages = 0 /\ ~printed.mid /\ printed.noise = FALSE
  BY DEF Init
<1>4. HalfRead
  <2>1. pc["reader"] = "idle" /\ Len(jsonBuffer) = 0
    BY DEF Init, Threads, Goroutines
  <2>. QED
    BY <2>1 DEF HalfRead
<1>5. Halves(InFlight, printed.mid, printed.messages)
  BY <1>2, <1>3 DEF Halves
<1>6. Numbered(InFlight, Len(Out), printed.messages)
  BY <1>2, <1>3 DEF Numbered
<1>7. Counting
  BY <1>2 DEF Counting
<1>. QED
  BY <1>3, <1>4, <1>5, <1>6, <1>7 DEF LossInv, NoneMissing

LEMMA NothingIsMissing ==
    ASSUME OutputInv, LossInv
    PROVE  NothingLost
<1>1. ~printed.noise => Out = [i \in 1 .. Len(Out) |-> i]
  <2>1. Out \in Seq(Nat)
    BY LastInNat
  <2>. QED
    BY <2>1 DEF LossInv, Counting
<1>2. Undisturbed =>
        /\ {InFlight[i].n : i \in Ending(InFlight)} = Len(Out) + 1 .. printed.messages
        /\ \A i, j \in Ending(InFlight) : i < j => InFlight[i].n < InFlight[j].n
  BY DEF LossInv, NoneMissing, Numbered
<1>. QED
  BY <1>1, <1>2 DEF NothingLost, Undisturbed, Out, InFlight

\* The lines of f after the first n.
Rest(g, f, n) == Len(g) = Len(f) - n /\ \A i \in 1 .. Len(g) : g[i] = f[n + i]

LEMMA EndingIn ==
    ASSUME NEW f \in Seq(Lines)
    PROVE  /\ Ending(f) = {i \in 1 .. Len(f) : f[i].kind \in {"whole", "tail"}}
           /\ Len(f) \in Nat /\ \A i \in 1 .. Len(f) : f[i] \in Lines /\ f[i].n \in Nat
<1>1. DOMAIN f = 1 .. Len(f) /\ Len(f) \in Nat /\ \A i \in 1 .. Len(f) : f[i] \in Lines
  OBVIOUS
<1>2. \A l \in Lines : l.n \in Nat
  BY DEF Lines
<1>. QED
  BY <1>1, <1>2 DEF Ending

\* What starts after a whole message, or a blank line, is whole itself.
LEMMA HalvesOfRest ==
    ASSUME NEW f \in Seq(Lines), NEW g \in Seq(Lines), NEW n \in {1, 2}, Rest(g, f, n), n <= Len(f),
           f[n].kind # "head", NEW mid, NEW m \in Nat, Halves(f, mid, m)
    PROVE  Halves(g, mid, m)
<1>1. /\ Len(f) \in Nat /\ Len(g) = Len(f) - n /\ n \in 1 .. Len(f)
      /\ \A i \in 1 .. Len(g) : g[i] = f[n + i] /\ n + i \in 1 .. Len(f)
  BY DEF Rest
<1>2. \A i \in 1 .. Len(g) : g[i].kind \in {"whole", "head", "tail", "blank"}
  BY <1>1 DEF Halves
<1>3. ASSUME NEW i \in 1 .. Len(g), g[i].kind = "head"
      PROVE  IF i = Len(g) THEN mid /\ g[i].n = m + 1
                           ELSE g[i + 1].kind = "tail" /\ g[i + 1].n = g[i].n
  <2>1. f[n + i].kind = "head" /\ n + i \in 1 .. Len(f) /\ g[i] = f[n + i]
    BY <1>1, <1>3
  <2>2. CASE i = Len(g)
    <3>1. n + i = Len(f)
      BY <1>1, <2>2
    <3>. QED
      BY <2>1, <2>2, <3>1 DEF Halves
  <2>3. CASE i # Len(g)
    <3>1. n + i # Len(f) /\ i + 1 \in 1 .. Len(g) /\ n + (i + 1) = n + i + 1
      BY <1>1, <2>3
    <3>2. f[n + i + 1].kind = "tail" /\ f[n + i + 1].n = f[n + i].n
      BY <2>1, <3>1 DEF Halves
    <3>3. g[i + 1] = f[n + (i + 1)]
      BY <1>1, <3>1
    <3>. QED
      BY <2>1, <2>3, <3>1, <3>2, <3>3
  <2>. QED
    BY <2>2, <2>3
<1>4. ASSUME NEW i \in 1 .. Len(g), g[i].kind = "tail"
      PROVE  i > 1 /\ g[i - 1].kind = "head"
  <2>1. f[n + i].kind = "tail" /\ f[n + i - 1].kind = "head"
    BY SMTT(30), <1>1, <1>4 DEF Halves
  <2>2. i # 1
    BY <2>1
  <2>3. i - 1 \in 1 .. Len(g) /\ n + (i - 1) = n + i - 1
    BY <1>1, <2>2
  <2>4. g[i - 1] = f[n + (i - 1)]
    BY <1>1, <2>3
  <2>. QED
    BY <2>1, <2>2, <2>3, <2>4
<1>5. mid => Len(g) > 0 /\ g[Len(g)].kind = "head"
  <2>1. mid => f[Len(f)].kind = "head" /\ Len(f) > 0
    BY DEF Halves
  <2>2. mid => Len(f) > n
    BY <1>1, <2>1
  <2>3. mid => Len(g) \in 1 .. Len(g) /\ n + Len(g) = Len(f)
    BY <1>1, <2>2
  <2>. QED
    BY <1>1, <2>1, <2>3
<1>. QED
  BY <1>2, <1>3, <1>4, <1>5 DEF Halves

\* A blank line is passed over.
LEMMA BlankDropped ==
    ASSUME NEW f \in Seq(Lines), NEW g \in Seq(Lines), Rest(g, f, 1), Len(f) > 0,
           f[1].kind = "blank", NEW mid, NEW m \in Nat, NEW k \in Nat,
           Halves(f, mid, m), Numbered(f, k, m)
    PROVE  Halves(g, mid, m) /\ Numbered(g, k, m)
<1>1. /\ Len(f) \in Nat /\ 1 <= Len(f) /\ Len(g) = Len(f) - 1 /\ 1 \in {1, 2} /\ Len(g) \in Nat
      /\ \A i \in 1 .. Len(g) : g[i] = f[1 + i] /\ 1 + i \in 1 .. Len(f)
  BY DEF Rest
<1>2. Halves(g, mid, m)
  BY <1>1, HalvesOfRest
<1>3. ASSUME NEW i \in Ending(f)
      PROVE  i - 1 \in Ending(g) /\ g[i - 1] = f[i]
  <2>1. i \in 1 .. Len(f) /\ f[i].kind \in {"whole", "tail"} /\ i # 1
    BY EndingIn
  <2>2. i - 1 \in 1 .. Len(g) /\ 1 + (i - 1) = i
    BY <1>1, <2>1
  <2>3. g[i - 1] = f[i]
    BY <1>1, <2>2
  <2>. QED
    BY <2>1, <2>2, <2>3, EndingIn
<1>4. \A i \in Ending(g) : i \in Nat /\ 1 + i \in Ending(f) /\ g[i] = f[1 + i]
  BY <1>1, EndingIn
<1>5. Numbered(g, k, m)
  <2>1. \A n \in k + 1 .. m : \E i \in Ending(g) : g[i].n = n
    BY <1>3 DEF Numbered
  <2>2. \A i \in Ending(g) : g[i].n \in k + 1 .. m
    BY <1>4 DEF Numbered
  <2>3. ASSUME NEW i \in Ending(g), NEW j \in Ending(g), i < j
        PROVE  g[i].n < g[j].n
    <3>1. 1 + i < 1 + j
      BY <1>4, <2>3
    <3>. QED
      BY <1>4, <3>1 DEF Numbered
  <2>. QED
    BY <2>1, <2>2, <2>3 DEF Numbered
<1>. QED
  BY <1>2, <1>5

\* The first message is sent, in one part or in two.
LEMMA MessageDropped ==
    ASSUME NEW f \in Seq(Lines), NEW g \in Seq(Lines), NEW n \in {1, 2}, Rest(g, f, n), n <= Len(f),
           \/ n = 1 /\ f[1].kind = "whole"
           \/ n = 2 /\ f[1].kind = "head" /\ f[2].kind = "tail" /\ f[1].n = f[2].n,
           NEW mid, NEW m \in Nat, NEW k \in Nat, Halves(f, mid, m), Numbered(f, k, m)
    PROVE  Halves(g, mid, m) /\ Numbered(g, k + 1, m) /\ f[1].n = k + 1
<1>1. /\ Len(f) \in Nat /\ Len(g) = Len(f) - n
      /\ \A i \in 1 .. Len(g) : g[i] = f[n + i] /\ n + i \in 1 .. Len(f)
  BY DEF Rest
<1>2. Halves(g, mid, m)
  BY HalvesOfRest
\* The line that ends the message is the first of its kind.
<1>3. /\ n \in Ending(f) /\ f[n].n = f[1].n /\ \A i \in Ending(f) : i >= n
  BY SMTT(30), <1>1, EndingIn
<1>4. f[1].n = k + 1
  <2>1. f[n].n \in k + 1 .. m
    BY <1>3 DEF Numbered
  <2>2. PICK i \in Ending(f) : f[i].n = k + 1
    BY <2>1 DEF Numbered
  <2>3. i \in Nat /\ i >= n
    BY <1>3, EndingIn
  <2>4. i > n => f[n].n < f[i].n
    BY <1>3, <2>3 DEF Numbered
  <2>. QED
    BY <1>3, <2>1, <2>2, <2>3, <2>4
<1>5. \A i \in Ending(f) : i # n => i - n \in Ending(g) /\ g[i - n] = f[i] /\ f[i].n > k + 1
  <2>. SUFFICES ASSUME NEW i \in Ending(f), i # n
                PROVE  i - n \in Ending(g) /\ g[i - n] = f[i] /\ f[i].n > k + 1
    OBVIOUS
  <2>1. i \in 1 .. Len(f) /\ f[i].kind \in {"whole", "tail"} /\ i > n /\ f[i].n \in Nat /\ f[n].n \in Nat
    BY <1>1, <1>3, EndingIn
  <2>2. f[n].n < f[i].n
    BY <1>3, <2>1 DEF Numbered
  <2>3. i - n \in 1 .. Len(g) /\ n + (i - n) = i
    BY SMTT(30), <1>1, <2>1
  <2>4. g[i - n] = f[i]
    BY <1>1, <2>3
  <2>5. i - n \in Ending(g)
    BY <2>1, <2>3, <2>4, EndingIn
  <2>. QED
    BY <1>3, <1>4, <2>1, <2>2, <2>4, <2>5
<1>6. \A i \in Ending(g) : n + i \in Ending(f) /\ n + i # n /\ g[i] = f[n + i] /\ i \in Nat
  BY <1>1, EndingIn
<1>7. Numbered(g, k + 1, m)
  <2>1. ASSUME NEW x \in k + 1 + 1 .. m
        PROVE  \E i \in Ending(g) : g[i].n = x
    <3>1. x \in k + 1 .. m /\ x # k + 1
      BY <2>1
    <3>2. PICK i \in Ending(f) : f[i].n = x
      BY <3>1 DEF Numbered
    <3>3. i # n
      BY <1>3, <1>4, <3>1, <3>2
    <3>. QED
      BY <1>5, <3>2, <3>3
  <2>2. ASSUME NEW i \in Ending(g)
        PROVE  g[i].n \in k + 1 + 1 .. m
    <3>1. f[n + i].n \in k + 1 .. m /\ f[n + i].n > k + 1
      BY <1>5, <1>6 DEF Numbered
    <3>. QED
      BY SMTT(30), <1>6, <3>1
  <2>3. ASSUME NEW i \in Ending(g), NEW j \in Ending(g), i < j
        PROVE  g[i].n < g[j].n
    <3>1. n + i < n + j
      BY <1>6, <2>3
    <3>. QED
      BY <1>6, <3>1 DEF Numbered
  <2>. QED
    BY <2>1, <2>2, <2>3 DEF Numbered
<1>. QED
  BY <1>2, <1>4, <1>7

\* The CLI prints a line.
LEMMA LinePrinted ==
    ASSUME NEW f \in Seq(Lines), NEW line \in Lines,
           NEW mid \in BOOLEAN, NEW m \in Nat, NEW k \in Nat, k <= m,
           line.kind \in {"whole", "head", "tail", "blank"}, mid <=> line.kind = "tail",
           line.kind # "blank" => line.n = m + 1,
           Halves(f, mid, m), Numbered(f, k, m)
    PROVE  LET m2 == IF line.kind \in {"whole", "tail"} THEN m + 1 ELSE m
           IN  /\ Halves(Append(f, line), line.kind = "head", m2)
               /\ Numbered(Append(f, line), k, m2)
<1>. DEFINE g == Append(f, line)
            mid2 == line.kind = "head"
            m2 == IF line.kind \in {"whole", "tail"} THEN m + 1 ELSE m
<1>0. /\ g = Append(f, line) /\ (mid2 <=> line.kind = "head") /\ m2 \in Nat
      /\ m2 = IF line.kind \in {"whole", "tail"} THEN m + 1 ELSE m
  OBVIOUS
<1>. SUFFICES Halves(g, mid2, m2) /\ Numbered(g, k, m2)
  OBVIOUS
<1>. HIDE DEF g, mid2, m2
<1>1. /\ Len(f) \in Nat /\ Len(g) = Len(f) + 1 /\ g[Len(g)] = line /\ g \in Seq(Lines)
      /\ \A i \in 1 .. Len(f) : g[i] = f[i] /\ i \in 1 .. Len(g)
  BY <1>0
<1>2. \A i \in 1 .. Len(g) : i \in 1 .. Len(f) \/ i = Len(g)
  BY <1>0, <1>1
<1>3. \A i \in 1 .. Len(g) : g[i].kind \in {"whole", "head", "tail", "blank"}
  BY <1>0, <1>1, <1>2 DEF Halves
<1>4. ASSUME NEW i \in 1 .. Len(g), g[i].kind = "head"
      PROVE  IF i = Len(g) THEN mid2 /\ g[i].n = m2 + 1
                           ELSE g[i + 1].kind = "tail" /\ g[i + 1].n = g[i].n
  <2>1. CASE i = Len(g)
    BY <1>0, <1>1, <1>4, <2>1
  <2>2. CASE i # Len(g)
    <3>1. i \in 1 .. Len(f) /\ f[i].kind = "head" /\ g[i] = f[i]
      BY <1>0, <1>1, <1>2, <1>4, <2>2
    <3>2. CASE i = Len(f)
      <4>1. mid /\ f[i].n = m + 1
        BY <1>0, <3>1, <3>2 DEF Halves
      <4>2. i + 1 = Len(g)
        BY <1>0, <1>1, <3>2
      <4>. QED
        BY <1>0, <1>1, <2>2, <3>1, <4>1, <4>2
    <3>3. CASE i # Len(f)
      <4>1. f[i + 1].kind = "tail" /\ f[i + 1].n = f[i].n
        BY <1>0, <3>1, <3>3 DEF Halves
      <4>2. g[i + 1] = f[i + 1]
        BY <1>0, <1>1, <3>1, <3>3
      <4>. QED
        BY <1>0, <2>2, <3>1, <4>1, <4>2
    <3>. QED
      BY <1>0, <3>2, <3>3
  <2>. QED
    BY <1>0, <2>1, <2>2
<1>5. ASSUME NEW i \in 1 .. Len(g), g[i].kind = "tail"
      PROVE  i > 1 /\ g[i - 1].kind = "head"
  <2>1. CASE i = Len(g)
    <3>1. Len(f) > 0 /\ f[Len(f)].kind = "head"
      BY <1>0, <1>1, <1>5, <2>1 DEF Halves
    <3>2. i - 1 = Len(f) /\ Len(f) \in 1 .. Len(f)
      BY <1>0, <1>1, <2>1, <3>1
    <3>. QED
      BY <1>0, <1>1, <3>1, <3>2
  <2>2. CASE i \in 1 .. Len(f)
    <3>1. i > 1 /\ f[i - 1].kind = "head"
      BY <1>0, <1>1, <1>5, <2>2 DEF Halves
    <3>2. g[i - 1] = f[i - 1]
      BY <1>0, <1>1, <2>2, <3>1
    <3>. QED
      BY <1>0, <3>1, <3>2
  <2>. QED
    BY <1>0, <1>2, <2>1, <2>2
<1>6. Halves(g, mid2, m2)
  BY <1>0, <1>1, <1>3, <1>4, <1>5 DEF Halves
<1>a. /\ Ending(f) = {i \in 1 .. Len(f) : f[i].kind \in {"whole", "tail"}}
      /\ \A i \in 1 .. Len(f) : f[i].n \in Nat
  BY EndingIn
<1>b. Ending(g) = {i \in 1 .. Len(g) : g[i].kind \in {"whole", "tail"}}
  BY <1>0, <1>1, EndingIn
<1>7. \A i \in Ending(f) : i \in Ending(g) /\ g[i] = f[i] /\ i \in Nat /\ i < Len(g)
  BY <1>0, <1>1, <1>a, <1>b
<1>8. CASE line.kind \notin {"whole", "tail"}
  <2>1. Ending(g) = Ending(f) /\ m2 = m
    BY <1>0, <1>1, <1>2, <1>8, <1>a, <1>b
  <2>. QED
    BY <1>0, <1>6, <1>7, <2>1 DEF Numbered
<1>9. CASE line.kind \in {"whole", "tail"}
  <2>1. Len(g) \in Ending(g) /\ g[Len(g)].n = m + 1 /\ m2 = m + 1
    BY <1>0, <1>1, <1>9, <1>a, <1>b
  <2>2. \A i \in Ending(g) : i = Len(g) \/ i \in Ending(f)
    BY <1>0, <1>1, <1>2, <1>a, <1>b
  <2>3. ASSUME NEW x \in k + 1 .. m2
        PROVE  \E i \in Ending(g) : g[i].n = x
    <3>1. CASE x = m + 1
      BY <1>0, <2>1, <3>1
    <3>2. CASE x # m + 1
      <4>1. x \in k + 1 .. m
        BY <1>0, <2>1, <3>2
      <4>. QED
        BY <1>0, <1>7, <4>1 DEF Numbered
    <3>. QED
      BY <1>0, <3>1, <3>2
  <2>4. ASSUME NEW i \in Ending(g)
        PROVE  g[i].n \in k + 1 .. m2
    <3>1. CASE i = Len(g)
      BY <1>0, <2>1, <3>1
    <3>2. CASE i \in Ending(f)
      <4>1. f[i].n \in k + 1 .. m
        BY <1>0, <3>2 DEF Numbered
      <4>. QED
        BY <1>0, <1>7, <1>a, <2>1, <3>2, <4>1
    <3>. QED
      BY <1>0, <2>2, <3>1, <3>2
  <2>5. ASSUME NEW i \in Ending(g), NEW j \in Ending(g), i < j
        PROVE  g[i].n < g[j].n
    <3>1. i \in Ending(f)
      <4>1. i \in 1 .. Len(g) /\ j \in 1 .. Len(g)
        BY <1>0, <1>1, <1>a, <1>b
      <4>2. i # Len(g)
        BY <1>0, <1>1, <2>5, <4>1
      <4>. QED
        BY <1>0, <2>2, <4>2
    <3>2. CASE j \in Ending(f)
      BY <1>0, <1>7, <2>5, <3>1, <3>2 DEF Numbered
    <3>3. CASE j = Len(g)
      <4>1. f[i].n \in k + 1 .. m
        BY <1>0, <3>1 DEF Numbered
      <4>. QED
        BY <1>0, <1>7, <1>a, <2>1, <3>1, <3>3, <4>1
    <3>. QED
      BY <1>0, <2>2, <3>2, <3>3
  <2>. QED
    BY <1>0, <1>6, <2>3, <2>4, <2>5 DEF Numbered
<1>. QED
  BY <1>0, <1>8, <1>9

-----------------------------------------------------------------------------
(* How the queue of lines moves                                             *)

LEMMA FillMovesNothing ==
    ASSUME NEW b, NEW q \in Seq(Lines), NEW k \in 1 .. Len(q)
    PROVE  b \o (SubSeq(q, 1, k) \o SubSeq(q, k + 1, Len(q))) = b \o (<<>> \o q)
<1>1. Len(q) \in Nat /\ 1 \in 1 .. Len(q) + 1 /\ k \in 1 - 1 .. Len(q) /\ Len(q) \in k .. Len(q)
  OBVIOUS
<1>2. SubSeq(q, 1, k) \o SubSeq(q, k + 1, Len(q)) = SubSeq(q, 1, Len(q))
  BY <1>1, ConcatAdjacentSubSeq
<1>3. SubSeq(q, 1, Len(q)) = q /\ <<>> \o q = q
  BY SubSeqFull, ConcatEmptySeq
<1>. QED
  BY <1>2, <1>3

LEMMA LineToBuffer ==
    ASSUME NEW b \in Seq(Lines), NEW s \in Seq(Lines), s # <<>>, NEW q \in Seq(Lines)
    PROVE  Append(b, Head(s)) \o (Tail(s) \o q) = b \o (s \o q)
<1>1. /\ Head(s) \in Lines /\ Tail(s) \in Seq(Lines) /\ <<Head(s)>> \in Seq(Lines)
      /\ Tail(s) \o q \in Seq(Lines)
  BY HeadTailProperties, ConcatProperties
<1>2. Append(b, Head(s)) = b \o <<Head(s)>>
  BY <1>1, AppendIsConcat
<1>3. (b \o <<Head(s)>>) \o (Tail(s) \o q) = b \o (<<Head(s)>> \o (Tail(s) \o q))
  <2>. DEFINE h == <<Head(s)>>
              t == Tail(s) \o q
  <2>1. h \in Seq(Lines) /\ t \in Seq(Lines)
    BY <1>1
  <2>. HIDE DEF h, t
  <2>2. (b \o h) \o t = b \o (h \o t)
    BY SMTT(30), <2>1, ConcatAssociative
  <2>. QED
    BY <2>2 DEF h, t
<1>4. <<Head(s)>> \o (Tail(s) \o q) = (<<Head(s)>> \o Tail(s)) \o q
  BY <1>1, ConcatAssociative
<1>5. <<Head(s)>> \o Tail(s) = s
  <2>1. /\ Len(s) \in Nat \ {0} /\ Head(s) = s[1] /\ Len(Tail(s)) = Len(s) - 1
        /\ \A i \in 1 .. Len(Tail(s)) : Tail(s)[i] = s[i + 1]
    BY HeadTailProperties
  <2>2. /\ <<Head(s)>> \o Tail(s) \in Seq(Lines) /\ Len(<<Head(s)>> \o Tail(s)) = Len(s)
        /\ \A i \in 1 .. Len(s) : (<<Head(s)>> \o Tail(s))[i] = IF i <= 1 THEN Head(s) ELSE Tail(s)[i - 1]
    <3>1. Len(<<Head(s)>>) = 1 /\ <<Head(s)>>[1] = Head(s)
      OBVIOUS
    <3>. HIDE DEF Lines
    <3>. QED
      BY <1>1, <2>1, <3>1, ConcatProperties
  <2>3. \A i \in 1 .. Len(s) : (<<Head(s)>> \o Tail(s))[i] = s[i]
    BY <2>1, <2>2
  <2>. QED
    BY <2>2, <2>3, SeqEqual
<1>. QED
  BY <1>2, <1>3, <1>4, <1>5

LEMMA BlankIsFirst ==
    ASSUME NEW b \in Seq(Lines), Len(b) = 0, NEW s \in Seq(Lines), s # <<>>, NEW q \in Seq(Lines)
    PROVE  /\ Rest(b \o (Tail(s) \o q), b \o (s \o q), 1)
           /\ (b \o (s \o q))[1] = Head(s) /\ Len(b \o (s \o q)) > 0
<1>1. /\ Tail(s) \in Seq(Lines) /\ Len(s) \in Nat \ {0} /\ Len(Tail(s)) = Len(s) - 1 /\ Head(s) = s[1]
      /\ \A i \in 1 .. Len(Tail(s)) : Tail(s)[i] = s[i + 1]
  BY HeadTailProperties
<1>2. b \o (s \o q) = s \o q /\ b \o (Tail(s) \o q) = Tail(s) \o q
  <2>1. b = <<>>
    OBVIOUS
  <2>2. s \o q \in Seq(Lines) /\ Tail(s) \o q \in Seq(Lines)
    BY <1>1, ConcatProperties
  <2>. QED
    BY <2>1, <2>2, ConcatEmptySeq
<1>3. /\ Len(s \o q) = Len(s) + Len(q) /\ Len(Tail(s) \o q) = Len(Tail(s)) + Len(q) /\ Len(q) \in Nat
      /\ \A i \in 1 .. Len(s) + Len(q) : (s \o q)[i] = IF i <= Len(s) THEN s[i] ELSE q[i - Len(s)]
      /\ \A i \in 1 .. Len(Tail(s)) + Len(q) : (Tail(s) \o q)[i] =
            IF i <= Len(Tail(s)) THEN Tail(s)[i] ELSE q[i - Len(Tail(s))]
  BY <1>1, ConcatProperties
<1>4. \A i \in 1 .. Len(Tail(s) \o q) : (Tail(s) \o q)[i] = (s \o q)[1 + i]
  <2>. TAKE i \in 1 .. Len(Tail(s) \o q)
  <2>1. i \in 1 .. Len(Tail(s)) + Len(q) /\ 1 + i \in 1 .. Len(s) + Len(q)
    BY <1>1, <1>3
  <2>2. CASE i <= Len(Tail(s))
    <3>1. i \in 1 .. Len(Tail(s)) /\ 1 + i <= Len(s) /\ 1 + i = i + 1
      BY <1>1, <2>1, <2>2
    <3>. QED
      BY <1>1, <1>3, <2>1, <2>2, <3>1
  <2>3. CASE ~(i <= Len(Tail(s)))
    <3>1. ~(1 + i <= Len(s)) /\ i - Len(Tail(s)) = 1 + i - Len(s)
      BY <1>1, <2>1, <2>3
    <3>. QED
      BY <1>3, <2>1, <2>3, <3>1
  <2>. QED
    BY <2>2, <2>3
<1>. QED
  BY <1>1, <1>2, <1>3, <1>4 DEF Rest

LEMMA BufferIsFirst ==
    ASSUME NEW b \in Seq(Lines), NEW t \in Seq(Lines)
    PROVE  /\ Rest(<<>> \o t, b \o t, Len(b)) /\ Len(b) <= Len(b \o t)
           /\ \A i \in 1 .. Len(b) : (b \o t)[i] = b[i]
<1>1. <<>> \o t = t
  BY ConcatEmptySeq
<1>2. /\ Len(b) \in Nat /\ Len(t) \in Nat /\ Len(b \o t) = Len(b) + Len(t)
      /\ \A i \in 1 .. Len(b) + Len(t) : (b \o t)[i] = IF i <= Len(b) THEN b[i] ELSE t[i - Len(b)]
  BY ConcatProperties
<1>3. \A i \in 1 .. Len(t) : Len(b) + i \in 1 .. Len(b) + Len(t) /\ ~(Len(b) + i <= Len(b)) /\ Len(b) + i - Len(b) = i
  BY <1>2
<1>4. \A i \in 1 .. Len(b) : i \in 1 .. Len(b) + Len(t) /\ i <= Len(b)
  BY <1>2
<1>. QED
  BY <1>1, <1>2, <1>3, <1>4 DEF Rest

LEMMA LineInPipe ==
    ASSUME NEW b \in Seq(Lines), NEW s \in Seq(Lines), NEW q \in Seq(Lines), NEW l \in Lines
    PROVE  b \o (s \o Append(q, l)) = Append(b \o (s \o q), l)
<1>1. s \o q \in Seq(Lines) /\ b \o (s \o q) \in Seq(Lines) /\ <<l>> \in Seq(Lines)
  BY ConcatProperties
<1>2. /\ Append(q, l) = q \o <<l>>
      /\ Append(b \o (s \o q), l) = (b \o (s \o q)) \o <<l>>
  BY <1>1, AppendIsConcat
<1>3. s \o (q \o <<l>>) = (s \o q) \o <<l>>
  BY <1>1, ConcatAssociative
<1>4. b \o ((s \o q) \o <<l>>) = (b \o (s \o q)) \o <<l>>
  BY <1>1, ConcatAssociative
<1>. QED
  BY <1>2, <1>3, <1>4

-----------------------------------------------------------------------------
(* The steps                                                                *)

\* Steps that move no line and report nothing of the output.
LEMMA NoneLostByOthers ==
    ASSUME LossInv, UNCHANGED <<jsonBuffer, InFlight, Out>>,
           pc'["reader"] = pc["reader"] \/ (pc["reader"] = "idle" /\ pc'["reader"] = "scan"),
           printed'.messages = printed.messages, printed'.mid = printed.mid, printed'.noise = printed.noise
    PROVE  LossInv'
<1>1. Undisturbed' => Undisturbed
  BY DEF Undisturbed
<1>. SUFFICES ASSUME Undisturbed' PROVE NoneMissing'
  BY DEF LossInv, Counting
<1>2. NoneMissing
  BY <1>1 DEF LossInv
<1>3. HalfRead'
  BY <1>2 DEF NoneMissing, HalfRead
<1>4. Counting'
  BY <1>2 DEF NoneMissing, Counting
<1>. QED
  BY <1>2, <1>3, <1>4 DEF NoneMissing

\* readLoop gives up, or the CLI prints what is no message.
LEMMA LossExcused ==
    ASSUME LossInv, printed'.noise \in BOOLEAN, ~Undisturbed', Out' = Out,
           ~printed'.noise => ~printed.noise
    PROVE  LossInv'
BY DEF LossInv, Counting

LEMMA FillLoss ==
    ASSUME OutputInv, LossInv, Fill
    PROVE  LossInv'
<1>1. PICK k \in 1 .. Len(stdout.q) :
         /\ scan' = SubSeq(stdout.q, 1, k)
         /\ stdout' = [stdout EXCEPT !.q = SubSeq(stdout.q, k + 1, Len(stdout.q))]
  BY DEF Fill
<1>2. /\ stdout'.q = SubSeq(stdout.q, k + 1, Len(stdout.q)) /\ scan = <<>> /\ stdout.q \in Seq(Lines)
      /\ UNCHANGED <<jsonBuffer, msgChan, received, printed, pc>>
  BY <1>1 DEF OutputInv, OutputShapes, Fill, app, process
<1>3. InFlight' = InFlight /\ Out' = Out
  BY <1>1, <1>2, FillMovesNothing DEF InFlight, Out
<1>. QED
  BY <1>2, <1>3, NoneLostByOthers

LEMMA ScanLineLoss ==
    ASSUME OutputInv, LossInv, ScanLine
    PROVE  LossInv'
<1>. DEFINE line == Head(scan)
<1>1. /\ scan \in Seq(Lines) /\ scan # <<>> /\ scan' = Tail(scan) /\ jsonBuffer \in Seq(Lines)
      /\ stdout.q \in Seq(Lines) /\ UNCHANGED <<msgChan, received, printed, stdout>>
      /\ pc["reader"] = "scan" /\ printed.messages \in Nat
      /\ InFlight \in Seq(Lines) /\ line \in Lines
  BY HeadTailProperties DEF OutputInv, OutputShapes, ScanLine, pipes, app, process, InFlight
<1>2. Out' = Out /\ printed'.noise \in BOOLEAN /\ Len(Out) \in Nat
  BY <1>1, LastInNat DEF Out, LossInv
<1>3. CASE Goto("reader", "scanFailed") \/ Goto("reader", "leaving")
  <2>1. ~Undisturbed'
    BY <1>3, ReaderGoes DEF Undisturbed
  <2>. QED
    BY <1>1, <1>2, <2>1, LossExcused
<1>. SUFFICES ASSUME Undisturbed',
                     \/ line.kind = "blank" /\ UNCHANGED <<pc, jsonBuffer>>
                     \/ line.kind \notin {"huge", "blank"} /\ Accumulate(line)
              PROVE  NoneMissing'
  <2>1. \/ Goto("reader", "scanFailed") \/ Goto("reader", "leaving")
        \/ line.kind = "blank" /\ UNCHANGED <<pc, jsonBuffer>>
        \/ line.kind \notin {"huge", "blank"} /\ Accumulate(line)
    BY DEF ScanLine
  <2>2. ~printed'.noise => Counting'
    BY <1>1, <1>2 DEF LossInv, Counting
  <2>. QED
    BY <1>2, <1>3, <2>1, <2>2 DEF LossInv
<1>4. NoneMissing /\ Len(jsonBuffer) \in {0, 1}
  <2>1. Undisturbed
    BY <1>1 DEF Undisturbed
  <2>2. NoneMissing
    BY <2>1 DEF LossInv
  <2>. QED
    BY <1>1, <2>2 DEF NoneMissing, HalfRead
\* The line is the one that follows the buffer.
<1>5. /\ InFlight = Append(jsonBuffer, line) \o (scan' \o stdout.q)
      /\ Append(jsonBuffer, line) \in Seq(Lines) /\ scan' \o stdout.q \in Seq(Lines)
  BY <1>1, LineToBuffer, HeadTailProperties, ConcatProperties, AppendProperties DEF InFlight
<1>6. /\ Len(Append(jsonBuffer, line)) = Len(jsonBuffer) + 1
      /\ Append(jsonBuffer, line)[Len(jsonBuffer) + 1] = line
      /\ \A i \in 1 .. Len(jsonBuffer) : Append(jsonBuffer, line)[i] = jsonBuffer[i]
  BY <1>1, AppendProperties
<1>7. /\ Len(jsonBuffer) + 1 \in 1 .. Len(InFlight) /\ InFlight[Len(jsonBuffer) + 1] = line
      /\ \A i \in 1 .. Len(jsonBuffer) : i \in 1 .. Len(InFlight) /\ InFlight[i] = jsonBuffer[i]
  <2>1. /\ Len(Append(jsonBuffer, line)) <= Len(InFlight)
        /\ \A i \in 1 .. Len(Append(jsonBuffer, line)) : InFlight[i] = Append(jsonBuffer, line)[i]
    BY <1>5, BufferIsFirst
  <2>2. Len(InFlight) \in Nat
    BY <1>1
  <2>. QED
    BY <1>4, <1>6, <2>1, <2>2
<1>8. /\ line.kind \in {"whole", "head", "tail", "blank"}
      /\ line.kind = "tail" => Len(jsonBuffer) # 0
      /\ Len(jsonBuffer) = 1 => jsonBuffer[1].kind = "head" /\ line.kind = "tail" /\ line.n = jsonBuffer[1].n
  <2>1. Halves(InFlight, printed.mid, printed.messages)
    BY <1>4 DEF NoneMissing
  <2>2. line.kind \in {"whole", "head", "tail", "blank"} /\ (line.kind = "tail" => Len(jsonBuffer) # 0)
    BY <1>4, <1>7, <2>1 DEF Halves
  <2>3. ASSUME Len(jsonBuffer) = 1
        PROVE  jsonBuffer[1].kind = "head" /\ line.kind = "tail" /\ line.n = jsonBuffer[1].n
    <3>1. jsonBuffer[1].kind = "head"
      BY <1>1, <1>4, <2>3 DEF NoneMissing, HalfRead
    <3>2. 1 \in 1 .. Len(InFlight) /\ InFlight[1] = jsonBuffer[1] /\ 1 # Len(InFlight) /\ InFlight[2] = line
      BY <1>7, <2>3
    <3>3. InFlight[1 + 1].kind = "tail" /\ InFlight[1 + 1].n = InFlight[1].n
      BY <2>1, <3>1, <3>2 DEF Halves
    <3>. QED
      BY <3>1, <3>2, <3>3
  <2>. QED
    BY <2>2, <2>3
<1>9. CASE line.kind = "blank" /\ UNCHANGED <<pc, jsonBuffer>>
  <2>1. Len(jsonBuffer) = 0
    BY <1>4, <1>8, <1>9
  <2>2. /\ InFlight' = jsonBuffer \o (Tail(scan) \o stdout.q)
        /\ InFlight' \in Seq(Lines)
    BY <1>1, <1>5, <1>9, ConcatProperties DEF InFlight
  <2>3. Rest(InFlight', InFlight, 1) /\ InFlight[1].kind = "blank" /\ Len(InFlight) > 0
    BY ZenonT(60), <1>1, <1>9, <2>1, <2>2, BlankIsFirst DEF InFlight
  <2>4. /\ Halves(InFlight', printed.mid, printed.messages)
        /\ Numbered(InFlight', Len(Out), printed.messages)
    <3>1. /\ Halves(InFlight, printed.mid, printed.messages)
          /\ Numbered(InFlight, Len(Out), printed.messages)
      BY <1>4 DEF NoneMissing
    <3>2. \A g \in Seq(Lines) : Rest(g, InFlight, 1) =>
             Halves(g, printed.mid, printed.messages) /\ Numbered(g, Len(Out), printed.messages)
      BY <1>1, <1>2, <2>3, <3>1, BlankDropped
    <3>. QED
      BY <2>2, <2>3, <3>2
  <2>5. HalfRead' /\ Counting'
    BY <1>2, <1>4, <1>9 DEF NoneMissing, HalfRead, Counting
  <2>. QED
    BY <1>1, <1>2, <2>4, <2>5 DEF NoneMissing
<1>10. CASE line.kind \notin {"huge", "blank"} /\ Accumulate(line)
  <2>1. jsonBuffer' = Append(jsonBuffer, line)
    BY <1>10 DEF Accumulate
  <2>2. InFlight' = InFlight
    BY <1>1, <1>5, <2>1 DEF InFlight
  <2>3. HalfRead'
    <3>1. CASE Complete(jsonBuffer')
      <4>1. Goto("reader", "send")
        BY <1>10, <2>1, <3>1 DEF Accumulate
      <4>. QED
        BY <4>1, ReaderGoes DEF HalfRead
    <3>2. CASE ~Complete(jsonBuffer')
      <4>1. Len(jsonBuffer) = 0
        <5>1. SUFFICES ASSUME Len(jsonBuffer) = 1 PROVE FALSE
          BY <1>4
        <5>. QED
          BY <1>6, <1>8, <2>1, <3>2, <5>1 DEF Complete
      <4>2. line.kind = "head" /\ Len(jsonBuffer') = 1 /\ jsonBuffer'[1] = line
        BY <1>6, <1>8, <1>10, <2>1, <3>2, <4>1 DEF Complete
      <4>3. Goto("reader", "scan")
        <5>1. MaxBufferSize \in Nat \ {0}
          BY SizesAssumption
        <5>2. ~(Len(Append(jsonBuffer, line)) > MaxBufferSize) /\ ~Complete(Append(jsonBuffer, line))
          BY <2>1, <3>2, <4>2, <5>1
        <5>. QED
          BY <1>10, <5>2 DEF Accumulate
      <4>. QED
        BY <4>2, <4>3, ReaderGoes DEF HalfRead
    <3>. QED
      BY <3>1, <3>2
  <2>4. Counting'
    BY <1>2, <1>4 DEF NoneMissing, Counting
  <2>. QED
    BY <1>1, <1>2, <1>4, <2>2, <2>3, <2>4 DEF NoneMissing
<1>. QED
  BY <1>9, <1>10

LEMMA SendLoss ==
    ASSUME OutputInv, LossInv, SendMessage
    PROVE  LossInv'
<1>. DEFINE n == jsonBuffer[1].n
<1>1. /\ pc["reader"] = "send" /\ Complete(jsonBuffer) /\ jsonBuffer' = <<>>
      /\ UNCHANGED <<scan, stdout, printed>> /\ jsonBuffer \in Seq(Lines)
      /\ scan \in Seq(Lines) /\ stdout.q \in Seq(Lines) /\ printed.messages \in Nat
      /\ Out \in Seq(Nat) /\ Len(Out) \in Nat
  BY LastInNat DEF SendMessage, OutputInv, OutputShapes, ReaderOrdered, pipes, process, app
<1>2. Out' = Append(Out, n) /\ n \in Nat
  <2>1. n \in Last + 1 .. printed.messages /\ Last \in Nat
    BY SendOutput, LastInNat
  <2>. QED
    BY <2>1, SendOutput
<1>. SUFFICES ASSUME Undisturbed' PROVE NoneMissing'
  <2>1. pc'["reader"] = "scan"
    BY ReaderGoes DEF SendMessage
  <2>2. ~printed'.noise => Undisturbed'
    BY <2>1 DEF Undisturbed
  <2>3. (~printed'.noise => NoneMissing') => LossInv'
    BY <1>1, <2>2 DEF LossInv, NoneMissing
  <2>. QED
    BY <2>2, <2>3
<1>3. NoneMissing
  BY <1>1 DEF LossInv, Undisturbed
<1>4. /\ scan \o stdout.q \in Seq(Lines) /\ InFlight \in Seq(Lines) /\ InFlight' \in Seq(Lines)
      /\ InFlight' = <<>> \o (scan \o stdout.q) /\ InFlight = jsonBuffer \o (scan \o stdout.q)
  BY <1>1, ConcatProperties, ConcatEmptySeq DEF InFlight
<1>5. /\ Rest(InFlight', InFlight, Len(jsonBuffer)) /\ Len(jsonBuffer) <= Len(InFlight)
      /\ \A i \in 1 .. Len(jsonBuffer) : InFlight[i] = jsonBuffer[i]
  BY <1>1, <1>4, BufferIsFirst
<1>6. /\ Len(jsonBuffer) \in {1, 2}
      /\ InFlight[1] = jsonBuffer[1]
      /\ \/ Len(jsonBuffer) = 1 /\ InFlight[1].kind = "whole"
         \/ /\ Len(jsonBuffer) = 2 /\ InFlight[1].kind = "head" /\ InFlight[2].kind = "tail"
            /\ InFlight[1].n = InFlight[2].n
  <2>1. CASE Len(jsonBuffer) = 1
    BY <1>1, <1>5, <2>1 DEF Complete
  <2>2. CASE Len(jsonBuffer) = 2
    <3>1. /\ jsonBuffer[1].kind = "head" /\ jsonBuffer[2].kind = "tail" /\ jsonBuffer[1].n = jsonBuffer[2].n
      BY <1>1, <2>2 DEF Complete
    <3>2. InFlight[1] = jsonBuffer[1] /\ InFlight[2] = jsonBuffer[2]
      BY <1>5, <2>2
    <3>. QED
      BY <2>2, <3>1, <3>2
  <2>. QED
    BY <1>1, <2>1, <2>2 DEF Complete
<1>7. /\ Halves(InFlight', printed.mid, printed.messages)
      /\ Numbered(InFlight', Len(Out) + 1, printed.messages)
      /\ InFlight[1].n = Len(Out) + 1
  <2>. DEFINE len == Len(jsonBuffer)
  <2>1. len \in {1, 2} /\ Rest(InFlight', InFlight, len) /\ len <= Len(InFlight)
    BY <1>5, <1>6
  <2>2. \/ len = 1 /\ InFlight[1].kind = "whole"
        \/ len = 2 /\ InFlight[1].kind = "head" /\ InFlight[2].kind = "tail" /\ InFlight[1].n = InFlight[2].n
    BY <1>6
  <2>3. Halves(InFlight, printed.mid, printed.messages) /\ Numbered(InFlight, Len(Out), printed.messages)
    BY <1>3 DEF NoneMissing
  <2>. HIDE DEF len
  <2>4. \A g \in Seq(Lines) : Rest(g, InFlight, len) =>
           /\ Halves(g, printed.mid, printed.messages) /\ Numbered(g, Len(Out) + 1, printed.messages)
           /\ InFlight[1].n = Len(Out) + 1
    <3>. SUFFICES ASSUME NEW g \in Seq(Lines), Rest(g, InFlight, len)
                  PROVE  /\ Halves(g, printed.mid, printed.messages)
                         /\ Numbered(g, Len(Out) + 1, printed.messages)
                         /\ InFlight[1].n = Len(Out) + 1
      OBVIOUS
    <3>1. InFlight \in Seq(Lines) /\ printed.messages \in Nat /\ Len(Out) \in Nat
      BY <1>1, <1>4
    <3>2. CASE len = 1
      BY <2>1, <2>2, <2>3, <3>1, <3>2, MessageDropped
    <3>3. CASE len = 2
      BY <2>1, <2>2, <2>3, <3>1, <3>3, MessageDropped
    <3>. QED
      BY <2>1, <3>2, <3>3
  <2>. QED
    BY <1>4, <2>1, <2>4
<1>8. Len(Out') = Len(Out) + 1 /\ Out'[Len(Out) + 1] = n /\ \A i \in 1 .. Len(Out) : Out'[i] = Out[i]
  <2>. HIDE DEF n
  <2>. QED
    BY <1>1, <1>2, AppendProperties
<1>9. Counting'
  <2>1. \A i \in 1 .. Len(Out) : Out[i] = i
    BY <1>3 DEF NoneMissing, Counting
  <2>2. n = Len(Out) + 1
    BY <1>6, <1>7
  <2>3. \A i \in 1 .. Len(Out) + 1 : i \in 1 .. Len(Out) \/ i = Len(Out) + 1
    BY <1>1
  <2>. QED
    BY <1>8, <2>1, <2>2, <2>3 DEF Counting
<1>10. HalfRead'
  <2>1. pc'["reader"] = "scan" /\ Len(jsonBuffer') = 0
    BY <1>1, ReaderGoes DEF SendMessage
  <2>. QED
    BY <2>1 DEF HalfRead
<1>. QED
  BY <1>1, <1>7, <1>8, <1>9, <1>10 DEF NoneMissing

LEMMA PrintLoss ==
    ASSUME OutputInv, LossInv, NEW line \in NextLines, CLIPrints(line)
    PROVE  LossInv'
<1>. DEFINE m == printed.messages
<1>1. /\ UNCHANGED <<scan, jsonBuffer, msgChan, received, pc>>
      /\ stdout' = [open |-> stdout.open, q |-> Append(stdout.q, line)]
      /\ printed' = [printed EXCEPT !.mid = (line.kind = "head"),
                        !.messages = IF line.kind \in {"whole", "tail"} THEN m + 1 ELSE m,
                        !.stray = IF line.n = 0 THEN printed.stray + 1 ELSE printed.stray,
                        !.noise = printed.noise \/ line.kind \in {"noise", "huge"}]
      /\ jsonBuffer \in Seq(Lines) /\ scan \in Seq(Lines) /\ stdout.q \in Seq(Lines) /\ m \in Nat
      /\ printed.mid \in BOOLEAN /\ Len(Out) \in Nat
  <2>1. /\ jsonBuffer \in Seq(Lines) /\ scan \in Seq(Lines) /\ stdout.q \in Seq(Lines) /\ m \in Nat
        /\ printed.mid \in BOOLEAN /\ Len(Out) \in Nat
        /\ stdout = [open |-> stdout.open, q |-> stdout.q]
    BY LastInNat DEF OutputInv, OutputShapes
  <2>2. stdout' = [open |-> stdout.open, q |-> Append(stdout.q, line)]
    BY <2>1 DEF CLIPrints
  <2>. QED
    BY <2>1, <2>2 DEF CLIPrints, output, app
<1>2. /\ stdout'.q = Append(stdout.q, line)
      /\ printed'.messages = IF line.kind \in {"whole", "tail"} THEN m + 1 ELSE m
      /\ printed'.mid = (line.kind = "head")
      /\ printed'.noise = (printed.noise \/ line.kind \in {"noise", "huge"})
  BY <1>1 DEF OutputInv, OutputShapes
<1>3. /\ line \in Lines
      /\ line.kind \in {"whole", "head", "tail"} => line.n = m + 1
      /\ printed.mid <=> line.kind = "tail"
      /\ line.kind \in {"whole", "head", "tail", "noise", "blank", "huge"}
  BY <1>1 DEF NextLines, Lines, LineKinds
<1>4. printed'.noise \in BOOLEAN
  BY <1>2 DEF LossInv
<1>. SUFFICES ASSUME Undisturbed' PROVE NoneMissing'
  <2>1. ~printed'.noise => ~printed.noise
    BY <1>2
  <2>2. Out' = Out
    BY PrintOutput
  <2>3. ~printed'.noise => Counting'
    BY <2>1, <2>2 DEF LossInv, Counting
  <2>. QED
    BY <1>4, <2>3 DEF LossInv
<1>5. Undisturbed /\ line.kind \notin {"noise", "huge"}
  <2>1. ~printed'.noise /\ pc' = pc
    BY <1>1 DEF Undisturbed
  <2>2. ~printed.noise /\ line.kind \notin {"noise", "huge"}
    BY <1>2, <2>1
  <2>. QED
    BY <2>1, <2>2 DEF Undisturbed
<1>6. NoneMissing
  BY <1>5 DEF LossInv
<1>7. InFlight \in Seq(Lines) /\ InFlight' = Append(InFlight, line)
  <2>1. InFlight' = jsonBuffer \o (scan \o Append(stdout.q, line))
    BY <1>1, <1>2 DEF InFlight
  <2>2. scan \o stdout.q \in Seq(Lines)
    BY <1>1, ConcatProperties
  <2>3. jsonBuffer \o (scan \o stdout.q) \in Seq(Lines)
    BY <1>1, <2>2, ConcatProperties
  <2>. QED
    BY ZenonT(60), <1>1, <1>3, <2>1, <2>3, LineInPipe DEF InFlight
<1>8. Out' = Out
  BY <1>1 DEF Out
<1>9. Len(Out) <= m
  <2>1. CASE Len(Out) = 0
    BY <1>1, <2>1
  <2>2. CASE Len(Out) # 0
    <3>1. Out # <<>> /\ Len(Out) \in 1 .. Len(Out)
      BY <1>1, <2>2
    <3>2. Last = Len(Out)
      BY <1>6, <3>1 DEF NoneMissing, Counting, Last
    <3>. QED
      BY <3>2 DEF OutputInv, SentOrdered
  <2>. QED
    BY <2>1, <2>2
<1>10. /\ Halves(InFlight', printed'.mid, printed'.messages)
       /\ Numbered(InFlight', Len(Out), printed'.messages)
  <2>1. Halves(InFlight, printed.mid, m) /\ Numbered(InFlight, Len(Out), m)
    BY <1>6 DEF NoneMissing
  <2>2. /\ line.kind \in {"whole", "head", "tail", "blank"}
        /\ line.kind # "blank" => line.n = m + 1
        /\ printed'.mid <=> line.kind = "head"
    BY <1>2, <1>3, <1>5
  <2>. HIDE DEF m
  <2>3. LET m2 == IF line.kind \in {"whole", "tail"} THEN m + 1 ELSE m
        IN  /\ Halves(Append(InFlight, line), line.kind = "head", m2)
            /\ Numbered(Append(InFlight, line), Len(Out), m2)
    BY <1>1, <1>3, <1>7, <1>9, <2>1, <2>2, LinePrinted
  <2>. QED
    BY <1>2, <1>7, <2>3
<1>11. HalfRead' /\ Counting'
  BY <1>1, <1>6, <1>8 DEF NoneMissing, HalfRead, Counting
<1>. QED
  BY <1>8, <1>10, <1>11 DEF NoneMissing

LEMMA LossStep ==
    ASSUME Shapes, OutputInv, LossInv, [Next]_vars
    PROVE  LossInv'
<1>1. CASE \/ UNCHANGED vars \/ Connect \/ ConnectFails \/ EndInput \/ Close \/ TakeMessage \/ TakeError
           \/ StderrStep \/ WaiterStep
           \/ CLIPrintsError \/ CLIReads \/ ContextDone \/ \E code \in ExitCodes : CLIExits(code)
           \/ \E w \in Writers : CallWrite(w) \/ WriterStep(w)
           \/ \E t \in Calls : Call(t)
           \/ \E t \in Threads : AnnounceLock(t)
  <2>1. UNCHANGED <<jsonBuffer, scan>>
    BY <1>1 DEF vars, output, Connect, ConnectFails, EndInput, Close, TakeMessage, TakeError,
       StderrStep, ScanStderr, AppendStderr, WaiterStep, WaitReturns, RecordExit, ReportExit,
       CloseErrors, CLIPrintsError, CLIReads, ContextDone, CLIExits, CallWrite, WriterStep,
       CheckConnected, WriteStdin, Call, AnnounceLock
  <2>2. stdout'.q = stdout.q
    <3>1. UNCHANGED stdout \/ stdout' = [stdout EXCEPT !.open = FALSE] \/ stdout' = [stdout EXCEPT !.open = TRUE]
      BY <1>1 DEF vars, pipes, Connect, ConnectFails, EndInput, Close, TakeMessage, TakeError,
         StderrStep, ScanStderr, AppendStderr, WaiterStep, WaitReturns, RecordExit, ReportExit,
         CloseErrors, CLIPrintsError, CLIReads, ContextDone, CLIExits, CallWrite, WriterStep,
         CheckConnected, WriteStdin, Call, AnnounceLock
    <3>. QED
      BY <3>1 DEF OutputInv, OutputShapes
  <2>3. printed'.messages = printed.messages /\ printed'.mid = printed.mid /\ printed'.noise = printed.noise
    <3>1. UNCHANGED printed \/ printed' = [printed EXCEPT !.stderr = @ + 1]
      BY <1>1 DEF vars, process, Connect, ConnectFails, EndInput, Close, TakeMessage, TakeError,
         StderrStep, ScanStderr, AppendStderr, WaiterStep, WaitReturns, RecordExit, ReportExit,
         CloseErrors, CLIPrintsError, CLIReads, ContextDone, CLIExits, CallWrite, WriterStep,
         CheckConnected, WriteStdin, Call, AnnounceLock
    <3>. QED
      BY <3>1 DEF OutputInv, OutputShapes
  <2>4. pc'["reader"] = pc["reader"] \/ (pc["reader"] = "idle" /\ pc'["reader"] = "scan")
    <3>1. CASE UNCHANGED pc
      BY <3>1
    <3>2. CASE \E t \in {"stderr", "waiter"} \cup Calls \cup Writers : \E l : Goto(t, l)
      <4>1. PICK t \in {"stderr", "waiter"} \cup Calls \cup Writers : \E l : Goto(t, l)
        BY <3>2
      <4>2. t \in Threads \ {"reader"}
        BY SizesAssumption DEF Threads, Goroutines
      <4>. QED
        BY <4>1, <4>2, GoesWithoutReader
    <3>3. CASE Connect
      BY <3>3 DEF Connect, Threads, Goroutines, OutputInv, ReaderOrdered
    <3>4. CASE UNCHANGED vars \/ ConnectFails \/ TakeMessage \/ TakeError \/ CLIPrintsError \/ CLIReads \/ ContextDone
               \/ (\E code \in ExitCodes : CLIExits(code)) \/ \E t \in Threads : AnnounceLock(t)
      BY <3>1, <3>4 DEF vars, ConnectFails, TakeMessage, TakeError, CLIPrintsError, CLIReads,
         ContextDone, CLIExits, AnnounceLock
    <3>5. CASE EndInput \/ Close
      BY <3>2, <3>5 DEF EndInput, Close
    <3>6. CASE StderrStep \/ WaiterStep
      BY <3>2, <3>6 DEF StderrStep, ScanStderr, AppendStderr, WaiterStep, WaitReturns,
         RecordExit, ReportExit, CloseErrors
    <3>7. CASE \E w \in Writers : CallWrite(w) \/ WriterStep(w)
      BY <3>2, <3>7 DEF CallWrite, WriterStep, CheckConnected, WriteStdin
    <3>8. CASE \E t \in Calls : Call(t)
      BY <3>2, <3>8 DEF Call
    <3>. QED
      BY <1>1, <3>3, <3>4, <3>5, <3>6, <3>7, <3>8
  <2>5. Out' = Out
    <3>1. CASE UNCHANGED vars
      BY <3>1 DEF vars, output, app, Out
    <3>. QED
      BY <1>1, <3>1, ConnectOutput, TakeOutput, OthersOutput DEF streamed
  <2>. QED
    BY <2>1, <2>2, <2>3, <2>4, <2>5, NoneLostByOthers DEF InFlight
<1>2. CASE ScanEnds \/ ReportScanError \/ CloseMessages
  <2>1. pc'["reader"] \in {"leaving", "scanFailed", "done"} /\ UNCHANGED printed
    BY <1>2, ReaderGoes DEF ScanEnds, ReportScanError, CloseMessages, process
  <2>2. Out' = Out
    BY <1>2, ReaderOutput, CloseOutput DEF streamed
  <2>. QED
    BY <2>1, <2>2, LossExcused DEF Undisturbed, LossInv
\* Neither happens unless something else than a message was printed.
<1>3. CASE ReportOverflow \/ SendOnClosedErrors
  <2>1. pc["reader"] \in {"overflow", "scanFailed"} /\ UNCHANGED printed
    BY <1>3 DEF ReportOverflow, SendOnClosedErrors, process
  <2>2. ~Undisturbed'
    <3>1. CASE pc["reader"] = "overflow"
      <4>1. ~Undisturbed
        BY <3>1 DEF LossInv, NoneMissing, HalfRead
      <4>. QED
        BY <2>1, <3>1, <4>1 DEF Undisturbed
    <3>2. CASE pc["reader"] = "scanFailed"
      BY <1>3, <3>2 DEF ReportOverflow, SendOnClosedErrors, Undisturbed
    <3>. QED
      BY <2>1, <3>1, <3>2
  <2>3. Out' = Out
    BY <1>3, ReaderOutput DEF streamed
  <2>. QED
    BY <2>1, <2>2, <2>3, LossExcused DEF LossInv
<1>4. CASE \/ Fill \/ ScanLine \/ SendMessage \/ \E line \in NextLines : CLIPrints(line)
  BY <1>4, FillLoss, ScanLineLoss, SendLoss, PrintLoss
<1>. QED
  BY <1>1, <1>2, <1>3, <1>4 DEF Next, SDKStep, ReaderStep, CLIStep

(* readLoop and the pipe: as long as readLoop has not given up, no message *)
(* of a CLI that prints only messages and blank lines is missing, twice or *)
(* out of place between the CLI and the client, however the output is cut  *)
(* into reads and lines and whatever the other goroutines do.              *)
THEOREM NothingIsLost == Spec => []NothingLost
<1>1. IInv /\ OutputInv /\ LossInv /\ [Next]_vars => OutputInv' /\ LossInv'
  BY OutputStep, LossStep DEF IInv
<1>2. OutputInv /\ LossInv => NothingLost
  BY NothingIsMissing
<1>. QED
  BY <1>1, <1>2, InitOutput, InitLoss, Invariant, PTL DEF Spec

-----------------------------------------------------------------------------
(* Types.  Each variable is followed through the few actions that change   *)
(* it.                                                                     *)

Points == {"idle", "scan", "send", "overflow", "scanFailed", "leaving", "done",
           "lock", "wait", "report", "closing", "rlock", "writing"}

\* A line of stderr is in the pipe, in the hand of readStderr or counted.
StderrCounted ==
    /\ printed.stderr \in 0 .. MaxStderr /\ stderr.n \in Nat /\ stderrBuf \in Nat
    /\ stderrBuf + stderr.n + (IF pc["stderr"] = "lock" THEN 1 ELSE 0) <= printed.stderr

ChannelsFit ==
    /\ Len(msgChan.q) <= MsgCap /\ msgChan.closed \in BOOLEAN
    /\ Len(errChan.q) <= ErrCap
    /\ Len(stdout.q) <= PipeCap /\ stdout.open \in BOOLEAN
    /\ stdin \in [open : BOOLEAN, n : 0 .. StdinCap]
    /\ stderr = [open |-> stderr.open, n |-> stderr.n] /\ stderr.open \in BOOLEAN

FlagsTyped ==
    /\ connected \in BOOLEAN /\ closed \in BOOLEAN /\ crashed \in BOOLEAN
    /\ calls \in 0 .. MaxCalls
    /\ processStatus \in [code : ExitCodes \cup {"none"}, stderr : 0 .. MaxStderr]

PointsTyped == pc \in [Threads -> Points] /\ mu \in MutexOver(Threads)

TypeInv == StderrCounted /\ ChannelsFit /\ FlagsTyped /\ PointsTyped

LEMMA TypeFollows ==
    ASSUME Shapes, OutputInv, TypeInv
    PROVE  TypeOK
<1>. USE DEF TypeInv
<1>1. stderrBuf \in 0 .. MaxStderr /\ stderr \in [open : BOOLEAN, n : 0 .. MaxStderr]
  <2>1. MaxStderr \in Nat
    BY SizesAssumption
  <2>2. stderrBuf \in 0 .. MaxStderr /\ stderr.n \in 0 .. MaxStderr
    BY <2>1 DEF StderrCounted
  <2>. QED
    BY <2>2 DEF ChannelsFit
<1>2. stdout \in [open : BOOLEAN, q : Seq(Lines)] /\ Len(stdout.q) <= PipeCap
  BY DEF ChannelsFit, OutputInv, OutputShapes
<1>3. msgChan \in [q : Seq(Nat), closed : BOOLEAN] /\ Len(msgChan.q) <= MsgCap
  BY DEF ChannelsFit, OutputInv, OutputShapes
<1>4. errChan \in [q : Seq({"overflow", "scan", "exited"}), closed : BOOLEAN] /\ Len(errChan.q) <= ErrCap
  BY DEF ChannelsFit, Shapes, ErrChans, Reports
<1>5. scan \in Seq(Lines) /\ jsonBuffer \in Seq(Lines) /\ received \in Seq(Nat)
  BY DEF OutputInv, OutputShapes
<1>6. cli \in [st : {"none", "failed", "running", "exited"},
               code : ExitCodes \cup {"none"}, killed : BOOLEAN]
  BY DEF Shapes
<1>. QED
  BY <1>1, <1>2, <1>3, <1>4, <1>5, <1>6 DEF TypeOK, FlagsTyped, ChannelsFit, PointsTyped, Points

LEMMA InitTypes == Init => TypeInv
<1>. SUFFICES ASSUME Init PROVE TypeInv
  OBVIOUS
<1>1. MaxStderr \in Nat /\ MaxCalls \in Nat /\ {MsgCap, ErrCap, PipeCap, StdinCap} \subseteq Nat \ {0}
  BY SizesAssumption
<1>2. StderrCounted
  BY <1>1 DEF Init, StderrCounted, Threads, Goroutines
<1>3. ChannelsFit
  BY <1>1 DEF Init, ChannelsFit
<1>4. FlagsTyped
  <2>1. 0 \in 0 .. MaxCalls /\ 0 \in 0 .. MaxStderr
    BY <1>1
  <2>. QED
    BY <2>1 DEF Init, FlagsTyped, NoStatus
<1>5. mu \in MutexOver(Threads)
  BY FS_EmptySet DEF Init, Unlocked, MutexOver
<1>6. PointsTyped
  BY <1>5 DEF Init, PointsTyped, Points
<1>. QED
  BY <1>2, <1>3, <1>4, <1>6 DEF TypeInv

\* What each operation of the mutex makes of it.
LEMMA MutexKept ==
    ASSUME mu \in MutexOver(Threads), NEW t \in Threads
    PROVE  /\ Announce(mu, t) \in MutexOver(Threads)
           /\ Unlock(mu) \in MutexOver(Threads)
           /\ RLock(mu, t) \in MutexOver(Threads)
           /\ RUnlock(mu, t) \in MutexOver(Threads)
<1>1. /\ mu = [writer |-> mu.writer, readers |-> mu.readers, blocked |-> mu.blocked]
      /\ mu.writer \in {T \in SUBSET Threads : Cardinality(T) <= 1}
      /\ mu.readers \in SUBSET Threads /\ mu.blocked \in SUBSET Threads
  BY DEF MutexOver
<1>2. {t} \in {T \in SUBSET Threads : Cardinality(T) <= 1}
  BY FS_Singleton
<1>3. {} \in {T \in SUBSET Threads : Cardinality(T) <= 1}
  BY FS_EmptySet
<1>4. Announce(mu, t) \in MutexOver(Threads)
  BY <1>1, <1>2 DEF Announce, MutexOver
<1>5. Unlock(mu) \in MutexOver(Threads)
  BY <1>1, <1>3 DEF Unlock, MutexOver
<1>6. RLock(mu, t) \in MutexOver(Threads)
  BY <1>1 DEF RLock, MutexOver
<1>7. RUnlock(mu, t) \in MutexOver(Threads)
  BY <1>1 DEF RUnlock, MutexOver
<1>. QED
  BY <1>4, <1>5, <1>6, <1>7

LEMMA PointsStep ==
    ASSUME PointsTyped, [Next]_vars
    PROVE  PointsTyped'
<1>. USE DEF PointsTyped
<1>1. pc' \in [Threads -> Points]
  <2>1. ASSUME NEW t \in Threads, NEW l \in Points, Goto(t, l)
        PROVE  pc' \in [Threads -> Points]
    BY <2>1 DEF Goto
  <2>2. /\ {"reader", "stderr", "waiter"} \subseteq Threads
        /\ Calls \subseteq Threads /\ Writers \subseteq Threads
    BY DEF Threads, Goroutines
  <2>3. CASE UNCHANGED pc
    BY <2>3
  <2>4. CASE Connect
    BY <2>4 DEF Connect, Points
  <2>5. CASE ReaderStep
    <3>1. UNCHANGED pc \/ \E l \in Points : Goto("reader", l)
      BY <2>5 DEF ReaderStep, Fill, ScanLine, Accumulate, SendMessage, ReportOverflow, ScanEnds,
         ReportScanError, SendOnClosedErrors, CloseMessages, Points
    <3>. QED
      BY <2>1, <2>2, <2>3, <3>1
  <2>6. CASE StderrStep \/ WaiterStep
    <3>1. \E t \in {"stderr", "waiter"}, l \in Points : Goto(t, l)
      BY <2>6 DEF StderrStep, ScanStderr, AppendStderr, WaiterStep, WaitReturns, RecordExit,
         ReportExit, CloseErrors, Points
    <3>. QED
      BY <2>1, <2>2, <3>1
  <2>7. CASE \E w \in Writers : CallWrite(w) \/ WriterStep(w)
    <3>1. \E w \in Writers, l \in Points : Goto(w, l)
      BY <2>7 DEF CallWrite, WriterStep, CheckConnected, WriteStdin, Points
    <3>. QED
      BY <2>1, <2>2, <3>1
  <2>8. CASE EndInput \/ Close \/ \E t \in Calls : Call(t)
    <3>1. \E t \in Calls, l \in Points : Goto(t, l)
      BY <2>8 DEF EndInput, Close, Call, Points
    <3>. QED
      BY <2>1, <2>2, <3>1
  <2>9. CASE UNCHANGED vars \/ ConnectFails \/ CLIStep \/ TakeMessage \/ TakeError \/ \E t \in Threads : AnnounceLock(t)
    BY <2>3, <2>9 DEF vars, ConnectFails, TakeMessage, TakeError, AnnounceLock, CLIStep,
       CLIPrints, CLIPrintsError, CLIReads, CLIExits, ContextDone
  <2>. QED
    BY <2>4, <2>5, <2>6, <2>7, <2>8, <2>9 DEF Next, SDKStep
<1>2. mu' \in MutexOver(Threads)
  <2>1. \/ UNCHANGED mu
        \/ \E t \in Threads : mu' \in {Announce(mu, t), Unlock(mu), RLock(mu, t), RUnlock(mu, t)}
    <3>1. Writers \subseteq Threads /\ Calls \subseteq Threads /\ "stderr" \in Threads /\ "waiter" \in Threads
      BY DEF Threads, Goroutines
    <3>2. CASE \/ UNCHANGED vars \/ Connect \/ ConnectFails \/ ReaderStep \/ CLIStep \/ TakeMessage \/ TakeError
      BY <3>2 DEF vars, Connect, ConnectFails, ReaderStep, Fill, ScanLine, Accumulate,
         SendMessage, ReportOverflow, ScanEnds, ReportScanError, SendOnClosedErrors,
         CloseMessages, TakeMessage, TakeError, CLIStep, CLIPrints, CLIPrintsError, CLIReads,
         CLIExits, ContextDone
    <3>3. CASE StderrStep \/ WaiterStep
      BY <3>1, <3>3 DEF StderrStep, ScanStderr, AppendStderr, WaiterStep, WaitReturns,
         RecordExit, ReportExit, CloseErrors
    <3>4. CASE \E w \in Writers : CallWrite(w) \/ WriterStep(w)
      BY <3>1, <3>4 DEF CallWrite, WriterStep, CheckConnected, WriteStdin
    <3>5. CASE EndInput \/ Close \/ (\E t \in Calls : Call(t)) \/ \E t \in Threads : AnnounceLock(t)
      BY <3>1, <3>5 DEF EndInput, Close, Call, AnnounceLock
    <3>. QED
      BY <3>2, <3>3, <3>4, <3>5 DEF Next, SDKStep
  <2>. QED
    BY <2>1, MutexKept
<1>. QED
  BY <1>1, <1>2

\* The steps that change a count of stderr, and the others.
LEMMA StderrStepCounted ==
    ASSUME Shapes, OutputInv, StderrCounted, ChannelsFit, [Next]_vars
    PROVE  StderrCounted' /\ stderr' = [open |-> stderr'.open, n |-> stderr'.n] /\ stderr'.open \in BOOLEAN
<1>. USE DEF StderrCounted
<1>0. stderr = [open |-> stderr.open, n |-> stderr.n] /\ stderr.open \in BOOLEAN
  BY DEF ChannelsFit
<1>1. CASE ScanStderr
  <2>1. pc["stderr"] = "scan" /\ UNCHANGED <<printed, stderrBuf>>
    BY <1>1 DEF ScanStderr, process, guarded
  <2>2. ASSUME NEW l \in {"lock", "done"}, stderr.n > 0, Goto("stderr", l),
               stderr' = [stderr EXCEPT !.n = stderr.n - 1]
        PROVE  StderrCounted' /\ stderr' = [open |-> stderr'.open, n |-> stderr'.n] /\ stderr'.open \in BOOLEAN
    <3>1. pc'["stderr"] = l /\ stderr'.n = stderr.n - 1 /\ stderr'.open = stderr.open
          /\ stderr' = [open |-> stderr'.open, n |-> stderr'.n]
      BY <1>0, <2>2 DEF Goto, Shapes, Threads, Goroutines
    <3>. QED
      BY <1>0, <2>1, <2>2, <3>1
  <2>3. CASE UNCHANGED stderr /\ Goto("stderr", "done")
    <3>1. pc'["stderr"] = "done"
      BY <2>3 DEF Goto, Shapes, Threads, Goroutines
    <3>. QED
      BY <1>0, <2>1, <2>3, <3>1
  <2>. QED
    BY <1>1, <2>2, <2>3 DEF ScanStderr
<1>2. CASE AppendStderr
  <2>1. pc["stderr"] = "lock" /\ pc'["stderr"] = "scan" /\ stderrBuf' = stderrBuf + 1 /\ UNCHANGED <<printed, stderr>>
    BY <1>2 DEF AppendStderr, Goto, process, pipes, Shapes, Threads, Goroutines
  <2>. QED
    BY <1>0, <2>1
<1>3. CASE CLIPrintsError
  <2>1. /\ stderr'.n = stderr.n + 1 /\ printed'.stderr = printed.stderr + 1 /\ printed.stderr < MaxStderr
        /\ stderr'.open = stderr.open /\ stderr' = [open |-> stderr'.open, n |-> stderr'.n]
        /\ UNCHANGED <<pc, stderrBuf>>
    BY <1>0, <1>3 DEF CLIPrintsError, guarded, OutputInv, OutputShapes
  <2>2. MaxStderr \in Nat
    BY SizesAssumption
  <2>. QED
    BY <1>0, <2>1, <2>2
<1>4. CASE \/ UNCHANGED vars \/ Connect \/ ConnectFails \/ ReaderStep \/ WaiterStep \/ EndInput \/ Close \/ TakeMessage \/ TakeError
           \/ (\E line \in NextLines : CLIPrints(line)) \/ CLIReads \/ ContextDone \/ (\E code \in ExitCodes : CLIExits(code))
           \/ (\E w \in Writers : CallWrite(w) \/ WriterStep(w))
           \/ (\E t \in Calls : Call(t))
           \/ (\E t \in Threads : AnnounceLock(t))
  <2>1. UNCHANGED stderrBuf
    BY <1>4 DEF vars, guarded, Connect, ConnectFails, ReaderStep, Fill, ScanLine, Accumulate,
       SendMessage, ReportOverflow, ScanEnds, ReportScanError, SendOnClosedErrors,
       CloseMessages, WaiterStep, WaitReturns, RecordExit, ReportExit, CloseErrors, EndInput,
       Close, TakeMessage, TakeError, CLIPrints, CLIReads, ContextDone, CLIExits, CallWrite,
       WriterStep, CheckConnected, WriteStdin, Call, AnnounceLock
  <2>2. stderr' \in {stderr, [stderr EXCEPT !.open = TRUE], [stderr EXCEPT !.open = FALSE]}
    BY <1>4 DEF vars, pipes, Connect, ConnectFails, ReaderStep, Fill, ScanLine, Accumulate,
       SendMessage, ReportOverflow, ScanEnds, ReportScanError, SendOnClosedErrors,
       CloseMessages, WaiterStep, WaitReturns, RecordExit, ReportExit, CloseErrors, EndInput,
       Close, TakeMessage, TakeError, CLIPrints, CLIReads, ContextDone, CLIExits, CallWrite,
       WriterStep, CheckConnected, WriteStdin, Call, AnnounceLock
  <2>3. /\ stderr' = [open |-> stderr'.open, n |-> stderr'.n] /\ stderr'.n = stderr.n
        /\ stderr'.open \in BOOLEAN
    BY <1>0, <2>2
  <2>4. printed'.stderr = printed.stderr
    <3>1. UNCHANGED printed \/ \E line \in NextLines : CLIPrints(line)
      BY <1>4 DEF vars, process, Connect, ConnectFails, ReaderStep, Fill, ScanLine, Accumulate,
         SendMessage, ReportOverflow, ScanEnds, ReportScanError, SendOnClosedErrors,
         CloseMessages, WaiterStep, WaitReturns, RecordExit, ReportExit, CloseErrors, EndInput,
         Close, TakeMessage, TakeError, CLIReads, ContextDone, CLIExits, CallWrite, WriterStep,
         CheckConnected, WriteStdin, Call, AnnounceLock
    <3>. QED
      BY <3>1 DEF CLIPrints, OutputInv, OutputShapes
  <2>5. (pc'["stderr"] = "lock") = (pc["stderr"] = "lock") \/ pc'["stderr"] = "scan"
    <3>1. UNCHANGED pc \/ Connect \/ \E t \in {"reader", "waiter"} \cup Calls \cup Writers : \E l : Goto(t, l)
      BY <1>4 DEF vars, Connect, ConnectFails, ReaderStep, Fill, ScanLine, Accumulate,
         SendMessage, ReportOverflow, ScanEnds, ReportScanError, SendOnClosedErrors,
         CloseMessages, WaiterStep, WaitReturns, RecordExit, ReportExit, CloseErrors, EndInput,
         Close, TakeMessage, TakeError, CLIPrints, CLIReads, ContextDone, CLIExits, CallWrite,
         WriterStep, CheckConnected, WriteStdin, Call, AnnounceLock
    <3>2. CASE Connect
      BY <3>2 DEF Connect, Threads, Goroutines
    <3>3. ASSUME NEW t \in {"reader", "waiter"} \cup Calls \cup Writers, NEW l, Goto(t, l)
          PROVE  pc'["stderr"] = pc["stderr"]
      <4>1. t # "stderr" /\ t \in Threads
        BY SizesAssumption DEF Threads, Goroutines
      <4>. QED
        BY <3>3, <4>1 DEF Goto, Shapes, Threads, Goroutines
    <3>. QED
      BY <3>1, <3>2, <3>3
  <2>. QED
    BY <2>1, <2>3, <2>4, <2>5
<1>. QED
  BY <1>1, <1>2, <1>3, <1>4 DEF Next, SDKStep, CLIStep, StderrStep

\* The actions, in one list for the steps that leave most of them out.
LEMMA NextCases ==
    ASSUME [Next]_vars
    PROVE  \/ UNCHANGED vars \/ Connect \/ ConnectFails \/ Fill \/ ScanLine \/ SendMessage \/ ReportOverflow
           \/ ScanEnds \/ ReportScanError \/ SendOnClosedErrors \/ CloseMessages \/ ScanStderr \/ AppendStderr
           \/ WaitReturns \/ RecordExit \/ ReportExit \/ CloseErrors \/ EndInput \/ Close \/ TakeMessage \/ TakeError
           \/ (\E line \in NextLines : CLIPrints(line)) \/ CLIPrintsError \/ CLIReads \/ ContextDone
           \/ (\E code \in ExitCodes : CLIExits(code))
           \/ (\E w \in Writers : CallWrite(w) \/ CheckConnected(w) \/ WriteStdin(w))
           \/ (\E t \in Calls : Call(t))
           \/ (\E t \in Threads : AnnounceLock(t))
BY DEF Next, SDKStep, CLIStep, ReaderStep, StderrStep, WaiterStep, WriterStep

LEMMA ChannelsStep ==
    ASSUME Shapes, OutputInv, StderrCounted, ChannelsFit, [Next]_vars
    PROVE  ChannelsFit'
<1>. USE DEF ChannelsFit
<1>0. /\ MsgCap \in Nat /\ ErrCap \in Nat /\ PipeCap \in Nat /\ StdinCap \in Nat
      /\ stdout.q \in Seq(Lines) /\ msgChan.q \in Seq(Nat) /\ errChan.q \in Seq(Reports)
      /\ Len(stdout.q) \in Nat /\ Len(msgChan.q) \in Nat /\ Len(errChan.q) \in Nat
      /\ stdout = [open |-> stdout.open, q |-> stdout.q]
      /\ msgChan = [q |-> msgChan.q, closed |-> msgChan.closed]
      /\ errChan = [q |-> errChan.q, closed |-> errChan.closed]
  BY SMTT(30), SizesAssumption DEF OutputInv, OutputShapes, Shapes, ErrChans
\* msgChan
<1>1. Len(msgChan'.q) <= MsgCap /\ msgChan'.closed \in BOOLEAN
  <2>1. \/ UNCHANGED msgChan \/ SendMessage \/ TakeMessage
        \/ msgChan' = [msgChan EXCEPT !.closed = TRUE]
    BY NextCases DEF vars, output, Connect, ConnectFails, ReaderStep, Fill, ScanLine,
       Accumulate, SendMessage, ReportOverflow, ScanEnds, ReportScanError, SendOnClosedErrors,
       CloseMessages, StderrStep, ScanStderr, AppendStderr, WaiterStep, WaitReturns, RecordExit,
       ReportExit, CloseErrors, EndInput, Close, TakeMessage, TakeError, CLIPrints,
       CLIPrintsError, CLIReads, ContextDone, CLIExits, CallWrite, WriterStep, CheckConnected,
       WriteStdin, Call, AnnounceLock
  <2>2. CASE SendMessage
    <3>. DEFINE n == jsonBuffer[1].n
    <3>1. Len(msgChan.q) < MsgCap /\ msgChan' = [msgChan EXCEPT !.q = Append(msgChan.q, n)]
      BY <2>2 DEF SendMessage
    <3>. HIDE DEF n
    <3>2. n \in Nat
      <4>1. n \in Last + 1 .. printed.messages /\ Last \in Nat
        BY <2>2, SendOutput, LastInNat DEF n
      <4>. QED
        BY <4>1
    <3>3. msgChan'.q = Append(msgChan.q, n) /\ msgChan'.closed = msgChan.closed
      BY <1>0, <3>1
    <3>4. Len(Append(msgChan.q, n)) = Len(msgChan.q) + 1
      BY <1>0, <3>2
    <3>. QED
      BY <1>0, <3>1, <3>3, <3>4
  <2>3. CASE TakeMessage
    <3>1. msgChan.q # <<>> /\ msgChan' = [msgChan EXCEPT !.q = Tail(msgChan.q)]
      BY <2>3 DEF TakeMessage
    <3>2. msgChan'.q = Tail(msgChan.q) /\ msgChan'.closed = msgChan.closed
      BY <1>0, <3>1
    <3>3. Len(Tail(msgChan.q)) = Len(msgChan.q) - 1
      BY <1>0, <3>1
    <3>. QED
      BY <1>0, <3>2, <3>3
  <2>4. CASE msgChan' = [msgChan EXCEPT !.closed = TRUE]
    <3>1. msgChan'.q = msgChan.q /\ msgChan'.closed = TRUE
      BY <1>0, <2>4
    <3>. QED
      BY <3>1
  <2>. QED
    BY <2>1, <2>2, <2>3, <2>4
\* errChan
<1>2. Len(errChan'.q) <= ErrCap
  <2>1. \/ UNCHANGED errChan \/ TakeError \/ (\E e \in Reports : SendError(e))
        \/ errChan' = [errChan EXCEPT !.closed = TRUE]
    BY NextCases DEF vars, Reports, Connect, ConnectFails, ReaderStep, Fill, ScanLine,
       Accumulate, SendMessage, ReportOverflow, ScanEnds, ReportScanError, SendOnClosedErrors,
       CloseMessages, StderrStep, ScanStderr, AppendStderr, WaiterStep, WaitReturns, RecordExit,
       ReportExit, CloseErrors, EndInput, Close, TakeMessage, TakeError, CLIPrints,
       CLIPrintsError, CLIReads, ContextDone, CLIExits, CallWrite, WriterStep, CheckConnected,
       WriteStdin, Call, AnnounceLock
  <2>2. ASSUME NEW e \in Reports, SendError(e)
        PROVE  Len(errChan'.q) <= ErrCap
    <3>1. Len(errChan.q) < ErrCap /\ errChan' = [errChan EXCEPT !.q = Append(errChan.q, e)]
      BY <2>2 DEF SendError
    <3>2. errChan'.q = Append(errChan.q, e)
      BY <1>0, <3>1
    <3>3. Len(Append(errChan.q, e)) = Len(errChan.q) + 1
      BY <1>0
    <3>. QED
      BY <1>0, <3>1, <3>2, <3>3
  <2>3. CASE TakeError
    <3>1. errChan.q # <<>> /\ errChan' = [errChan EXCEPT !.q = Tail(errChan.q)]
      BY <2>3 DEF TakeError
    <3>2. errChan'.q = Tail(errChan.q)
      BY <1>0, <3>1
    <3>3. Len(Tail(errChan.q)) = Len(errChan.q) - 1
      BY <1>0, <3>1
    <3>. QED
      BY <1>0, <3>2, <3>3
  <2>4. CASE errChan' = [errChan EXCEPT !.closed = TRUE]
    BY <1>0, <2>4
  <2>. QED
    BY <2>1, <2>2, <2>3, <2>4
\* stdout
<1>3. Len(stdout'.q) <= PipeCap /\ stdout'.open \in BOOLEAN
  <2>1. \/ stdout' \in {stdout, [stdout EXCEPT !.open = TRUE], [stdout EXCEPT !.open = FALSE]}
        \/ Fill \/ \E line \in NextLines : CLIPrints(line)
    BY NextCases DEF vars, pipes, Connect, ConnectFails, ReaderStep, Fill, ScanLine, Accumulate,
       SendMessage, ReportOverflow, ScanEnds, ReportScanError, SendOnClosedErrors,
       CloseMessages, StderrStep, ScanStderr, AppendStderr, WaiterStep, WaitReturns, RecordExit,
       ReportExit, CloseErrors, EndInput, Close, TakeMessage, TakeError, CLIPrints,
       CLIPrintsError, CLIReads, ContextDone, CLIExits, CallWrite, WriterStep, CheckConnected,
       WriteStdin, Call, AnnounceLock
  <2>2. CASE stdout' \in {stdout, [stdout EXCEPT !.open = TRUE], [stdout EXCEPT !.open = FALSE]}
    BY <1>0, <2>2
  <2>3. CASE Fill
    <3>1. PICK k \in 1 .. Len(stdout.q) : stdout' = [stdout EXCEPT !.q = SubSeq(stdout.q, k + 1, Len(stdout.q))]
      BY <2>3 DEF Fill
    <3>2. stdout'.q = SubSeq(stdout.q, k + 1, Len(stdout.q)) /\ stdout'.open = stdout.open
      BY <1>0, <3>1
    <3>3. Len(SubSeq(stdout.q, k + 1, Len(stdout.q))) <= Len(stdout.q)
      BY <1>0
    <3>4. Len(SubSeq(stdout.q, k + 1, Len(stdout.q))) \in Nat
      BY <1>0
    <3>. QED
      BY <1>0, <3>2, <3>3, <3>4
  <2>4. ASSUME NEW line \in NextLines, CLIPrints(line)
        PROVE  Len(stdout'.q) <= PipeCap /\ stdout'.open \in BOOLEAN
    <3>1. Len(stdout.q) < PipeCap /\ stdout' = [stdout EXCEPT !.q = Append(stdout.q, line)]
      BY <2>4 DEF CLIPrints
    <3>2. stdout'.q = Append(stdout.q, line) /\ stdout'.open = stdout.open
      BY <1>0, <3>1
    <3>3. Len(Append(stdout.q, line)) = Len(stdout.q) + 1
      BY <1>0
    <3>. QED
      BY <1>0, <3>1, <3>2, <3>3
  <2>. QED
    BY <2>1, <2>2, <2>3, <2>4
\* stdin
<1>4. stdin' \in [open : BOOLEAN, n : 0 .. StdinCap]
  <2>1. \/ stdin' \in {stdin, [stdin EXCEPT !.open = TRUE], [stdin EXCEPT !.open = FALSE]}
        \/ stdin.n < StdinCap /\ stdin' = [stdin EXCEPT !.n = stdin.n + 1]
        \/ stdin.n > 0 /\ stdin' = [stdin EXCEPT !.n = stdin.n - 1]
    BY NextCases DEF vars, pipes, Connect, ConnectFails, ReaderStep, Fill, ScanLine, Accumulate,
       SendMessage, ReportOverflow, ScanEnds, ReportScanError, SendOnClosedErrors,
       CloseMessages, StderrStep, ScanStderr, AppendStderr, WaiterStep, WaitReturns, RecordExit,
       ReportExit, CloseErrors, EndInput, Close, TakeMessage, TakeError, CLIPrints,
       CLIPrintsError, CLIReads, ContextDone, CLIExits, CallWrite, WriterStep, CheckConnected,
       WriteStdin, Call, AnnounceLock
  <2>2. /\ stdin = [open |-> stdin.open, n |-> stdin.n] /\ stdin.open \in BOOLEAN
        /\ stdin.n \in 0 .. StdinCap
    OBVIOUS
  <2>3. CASE stdin' \in {stdin, [stdin EXCEPT !.open = TRUE], [stdin EXCEPT !.open = FALSE]}
    BY <2>2, <2>3
  <2>4. CASE stdin.n < StdinCap /\ stdin' = [stdin EXCEPT !.n = stdin.n + 1]
    <3>1. stdin.n + 1 \in 0 .. StdinCap
      BY <1>0, <2>2, <2>4
    <3>. QED
      BY <2>2, <2>4, <3>1
  <2>5. CASE stdin.n > 0 /\ stdin' = [stdin EXCEPT !.n = stdin.n - 1]
    <3>1. stdin.n - 1 \in 0 .. StdinCap
      BY <1>0, <2>2, <2>5
    <3>. QED
      BY <2>2, <2>5, <3>1
  <2>. QED
    BY <2>1, <2>3, <2>4, <2>5
<1>. QED
  BY <1>1, <1>2, <1>3, <1>4, StderrStepCounted

LEMMA FlagsStep ==
    ASSUME Shapes, StderrCounted, FlagsTyped, [Next]_vars
    PROVE  FlagsTyped'
<1>. USE DEF FlagsTyped
<1>1. connected' \in {connected, TRUE, FALSE} /\ closed' \in {closed, TRUE} /\ crashed' \in {crashed, TRUE}
  BY NextCases DEF vars, guarded, Connect, ConnectFails, ReaderStep, Fill, ScanLine, Accumulate,
     SendMessage, ReportOverflow, ScanEnds, ReportScanError, SendOnClosedErrors, CloseMessages,
     StderrStep, ScanStderr, AppendStderr, WaiterStep, WaitReturns, RecordExit, ReportExit,
     CloseErrors, EndInput, Close, TakeMessage, TakeError, CLIPrints, CLIPrintsError, CLIReads,
     ContextDone, CLIExits, CallWrite, WriterStep, CheckConnected, WriteStdin, Call,
     AnnounceLock
<1>2. calls' \in 0 .. MaxCalls
  <2>1. calls' = calls \/ (calls < MaxCalls /\ calls' = calls + 1)
    BY NextCases DEF vars, app, Connect, ConnectFails, ReaderStep, Fill, ScanLine, Accumulate,
       SendMessage, ReportOverflow, ScanEnds, ReportScanError, SendOnClosedErrors,
       CloseMessages, StderrStep, ScanStderr, AppendStderr, WaiterStep, WaitReturns, RecordExit,
       ReportExit, CloseErrors, EndInput, Close, TakeMessage, TakeError, CLIPrints,
       CLIPrintsError, CLIReads, ContextDone, CLIExits, CallWrite, WriterStep, CheckConnected,
       WriteStdin, Call, AnnounceLock
  <2>2. MaxCalls \in Nat
    BY SizesAssumption
  <2>. QED
    BY <2>1, <2>2
<1>3. processStatus' \in [code : ExitCodes \cup {"none"}, stderr : 0 .. MaxStderr]
  <2>1. processStatus' = processStatus \/ processStatus' = [code |-> cli.code, stderr |-> stderrBuf]
    BY NextCases DEF vars, guarded, Connect, ConnectFails, ReaderStep, Fill, ScanLine,
       Accumulate, SendMessage, ReportOverflow, ScanEnds, ReportScanError, SendOnClosedErrors,
       CloseMessages, StderrStep, ScanStderr, AppendStderr, WaiterStep, WaitReturns, RecordExit,
       ReportExit, CloseErrors, EndInput, Close, TakeMessage, TakeError, CLIPrints,
       CLIPrintsError, CLIReads, ContextDone, CLIExits, CallWrite, WriterStep, CheckConnected,
       WriteStdin, Call, AnnounceLock
  <2>2. cli.code \in ExitCodes \cup {"none"}
    BY DEF Shapes
  <2>3. stderrBuf \in 0 .. MaxStderr
    <3>1. MaxStderr \in Nat /\ stderrBuf \in Nat /\ stderr.n \in Nat /\ printed.stderr \in 0 .. MaxStderr
          /\ stderrBuf <= printed.stderr
      BY SizesAssumption DEF StderrCounted
    <3>. QED
      BY <3>1
  <2>. QED
    BY <2>1, <2>2, <2>3
<1>. QED
  BY <1>1, <1>2, <1>3

(* Types and sizes: no channel and no pipe ever holds more than it can,    *)
(* and a line of stderr is counted at most once; every variable keeps its  *)
(* type, for any capacities and any number of writers.                     *)
THEOREM TransportTypeCorrect == Spec => []TypeOK
<1>1. IInv /\ OutputInv /\ TypeInv /\ [Next]_vars => OutputInv' /\ TypeInv'
  BY OutputStep, PointsStep, StderrStepCounted, ChannelsStep, FlagsStep DEF IInv, TypeInv
<1>2. IInv /\ OutputInv /\ TypeInv => TypeOK
  BY TypeFollows DEF IInv
<1>. QED
  BY <1>1, <1>2, InitOutput, InitTypes, Invariant, PTL DEF Spec

=============================================================================
