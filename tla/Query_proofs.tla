----------------------------- MODULE Query_proofs -----------------------------
(***************************************************************************)
(* Proofs about Query for every number of messages and every capacity.     *)
(* The transport under a call of Query makes only its own steps, so that   *)
(* the invariants of SubprocessTransport_proofs hold of it; what Query has *)
(* handled is counted along with what it has received.                     *)
(***************************************************************************)
EXTENDS Query, FiniteSetTheorems, SequenceTheorems, TLAPS

\* The transport of Query, with what was proved about it.
TP == INSTANCE SubprocessTransport_proofs WITH
         Writers <- {}, Calls <- {"closer", "ender"}, MaxCalls <- 2, StdinCap <- 1

LEMMA Sizes == TP!SizesAssumption
BY QueryAssumption DEF TP!SizesAssumption

-----------------------------------------------------------------------------
(* The steps of the transport.  Both instances name the same actions.      *)

LEMMA TransportInit == T!Init => TP!Init
BY DEF T!Init, TP!Init, T!Threads, TP!Threads, T!Goroutines, TP!Goroutines, T!NoStatus,
   TP!NoStatus, T!Unlocked, TP!Unlocked

LEMMA TransportStays == UNCHANGED transport => UNCHANGED TP!vars
BY DEF transport, TP!vars, TP!app, TP!process, TP!pipes, TP!output, TP!guarded

LEMMA ReaderSteps == T!ReaderStep => TP!ReaderStep
BY DEF T!ReaderStep, T!Fill, T!ScanLine, T!SendMessage, T!ReportOverflow, T!ScanEnds,
   T!ReportScanError, T!SendOnClosedErrors, T!CloseMessages, T!Complete, T!Accumulate,
   T!SendError, T!Goto, T!app, T!process, T!pipes, T!output, T!guarded, TP!ReaderStep,
   TP!Fill, TP!ScanLine, TP!SendMessage, TP!ReportOverflow, TP!ScanEnds,
   TP!ReportScanError, TP!SendOnClosedErrors, TP!CloseMessages, TP!Complete,
   TP!Accumulate, TP!SendError, TP!Goto, TP!app, TP!process, TP!pipes, TP!output,
   TP!guarded

LEMMA WaiterSteps == (T!WaiterStep => TP!WaiterStep) /\ (T!StderrStep => TP!StderrStep)
BY DEF T!WaiterStep, TP!WaiterStep, T!StderrStep, TP!StderrStep, T!ScanStderr,
   TP!ScanStderr, T!AppendStderr, TP!AppendStderr, T!WaitReturns, TP!WaitReturns,
   T!RecordExit, TP!RecordExit, T!ReportExit, TP!ReportExit, T!CloseErrors,
   TP!CloseErrors, T!SendError, TP!SendError, T!HoldsLock, TP!HoldsLock, T!Unlock,
   TP!Unlock, T!Goto, TP!Goto, T!app, TP!app, T!process, TP!process, T!pipes, TP!pipes,
   T!output, TP!output, T!guarded, TP!guarded

LEMMA CallSteps ==
    ASSUME NEW t
    PROVE  /\ T!Connect => TP!Connect
           /\ T!ConnectFails => TP!ConnectFails
           /\ T!Call(t) => TP!Call(t)
           /\ T!AnnounceLock(t) => TP!AnnounceLock(t)
           /\ T!EndInput => TP!EndInput
           /\ T!Close => TP!Close
           /\ T!TakeMessage => TP!TakeMessage
           /\ T!TakeError => TP!TakeError
BY DEF T!Connect, TP!Connect, T!ConnectFails, TP!ConnectFails, T!Call, TP!Call,
   T!AnnounceLock, TP!AnnounceLock, T!EndInput, TP!EndInput, T!Close, TP!Close,
   T!TakeMessage, TP!TakeMessage, T!TakeError, TP!TakeError, T!Threads, TP!Threads,
   T!Goroutines, TP!Goroutines, T!CanAnnounce, TP!CanAnnounce, T!Announce, TP!Announce,
   T!HoldsLock, TP!HoldsLock, T!Unlock, TP!Unlock, T!Goto, TP!Goto, T!app, TP!app,
   T!process, TP!process, T!pipes, TP!pipes, T!output, TP!output, T!guarded, TP!guarded

LEMMA CLISteps ==
    ASSUME NEW line, NEW code
    PROVE  /\ T!NextLines = TP!NextLines /\ T!ExitCodes = TP!ExitCodes
           /\ T!CLIPrints(line) => TP!CLIPrints(line)
           /\ T!CLIPrintsError => TP!CLIPrintsError
           /\ T!CLIExits(code) => TP!CLIExits(code)
           /\ T!ContextDone => TP!ContextDone
BY DEF T!NextLines, TP!NextLines, T!ExitCodes, TP!ExitCodes, T!CLIPrints, TP!CLIPrints,
   T!CLIPrintsError, TP!CLIPrintsError, T!CLIExits, TP!CLIExits, T!ContextDone,
   TP!ContextDone, T!app, TP!app, T!process, TP!process, T!pipes, TP!pipes, T!output,
   TP!output, T!guarded, TP!guarded

LEMMA TransportSteps == [Next]_vars => [TP!Next]_(TP!vars)
<1>. SUFFICES ASSUME [Next]_vars PROVE [TP!Next]_(TP!vars)
  OBVIOUS
<1>1. CASE UNCHANGED vars \/ Cancel \/ ContextEnds \/ MessagesClosed
  BY <1>1, TransportStays DEF vars, Cancel, ContextEnds, MessagesClosed
<1>2. CASE ~crashed /\ Goroutines
  <2>1. T!Goroutines \subseteq TP!Threads
    BY DEF T!Goroutines, TP!Threads, TP!Goroutines
  <2>. QED
    BY <1>2, <2>1, ReaderSteps, WaiterSteps, CallSteps DEF Goroutines, TP!Next, TP!SDKStep
<1>3. CASE ~crashed /\ (Connect \/ CallEndInput \/ EndInput \/ TakeError \/ TakeMessage
                        \/ CallClose \/ Close)
  <2>1. {"closer", "ender"} \subseteq TP!Threads
    BY DEF TP!Threads
  <2>. QED
    BY <1>3, <2>1, CallSteps DEF Connect, CallEndInput, EndInput, TakeError, TakeMessage, CallClose,
       Close, TP!Next, TP!SDKStep
<1>4. CASE ~crashed /\ CallLocks
  <2>1. "closer" \in TP!Threads /\ "ender" \in TP!Threads
    BY DEF TP!Threads
  <2>. QED
    BY <1>4, <2>1, CallSteps DEF CallLocks, TP!Next, TP!SDKStep
<1>5. CASE ~crashed /\ (CLIPrints \/ CLIPrintsError \/ CLIEnds)
  BY <1>5, CLISteps DEF CLIPrints, CLIPrintsError, CLIEnds, TP!Next, TP!CLIStep
<1>. QED
  BY <1>1, <1>2, <1>3, <1>4, <1>5 DEF Next, MainStep

(* The call uses the transport as SubprocessTransport says: whatever Query   *)
(* does, and in whatever order its selects choose, no step of it is one that *)
(* readLoop, readStderr, waitProcess and the calls of the client do not have. *)
THEOREM QueryImplementsTransport == Spec => TP!Spec
<1>1. Init => TP!Init
  BY TransportInit DEF Init
<1>. QED
  BY <1>1, TransportSteps, PTL DEF Spec, TP!Spec

(* What SubprocessTransport promises holds under a call of Query: messages   *)
(* come in the order they were printed, none twice; none is lost while       *)
(* readLoop runs; and an exit is recorded before it is announced.            *)
THEOREM TransportKeepsPromises ==
    Spec => T!ImplementsMessageStream /\ [](T!NothingLost /\ T!ExitRecordedFirst)
<1>1. TP!MS!Init => T!MS!Init
  BY DEF TP!MS!Init, T!MS!Init
<1>2. [TP!MS!Next]_(TP!MS!vars) => [T!MS!Next]_(T!MS!vars)
  BY DEF TP!MS!Next, T!MS!Next, TP!MS!vars, T!MS!vars, TP!MS!Emit, T!MS!Emit, TP!MS!Deliver,
     T!MS!Deliver, TP!MS!End, T!MS!End, TP!MS!LastOut, T!MS!LastOut
<1>3. TP!NothingLost /\ TP!ExitRecordedFirst => T!NothingLost /\ T!ExitRecordedFirst
  BY DEF TP!NothingLost, T!NothingLost, TP!Ending, T!Ending, TP!ExitRecordedFirst,
     T!ExitRecordedFirst
<1>4. TP!Spec => TP!MS!Spec /\ [](TP!NothingLost /\ TP!ExitRecordedFirst)
  BY Sizes, TP!TransportImplementsMessageStream, TP!NothingIsLost, TP!ExitIsRecordedFirst, PTL
     DEF TP!ImplementsMessageStream
<1>. QED
  BY <1>1, <1>2, <1>3, <1>4, QueryImplementsTransport, PTL
     DEF T!ImplementsMessageStream, TP!MS!Spec, T!MS!Spec

-----------------------------------------------------------------------------
(* What holds of the transport                                             *)

Below == TP!IInv /\ TP!OutputInv /\ TP!LossInv

LEMMA InitBelow == Init => Below
BY Sizes, TransportInit, TP!InitInv, TP!InitOutput, TP!InitLoss DEF Init, Below

LEMMA BelowStep ==
    ASSUME Below, [Next]_vars
    PROVE  Below' /\ [TP!MS!Next]_(TP!MS!vars)
<1>1. [TP!Next]_(TP!vars)
  BY TransportSteps
<1>2. TP!IInv'
  BY <1>1, Sizes, TP!StepInv DEF Below
<1>3. TP!Shapes
  BY DEF Below, TP!IInv
<1>4. TP!OutputInv' /\ [TP!MS!Next]_(TP!MS!vars)
  BY <1>1, <1>3, Sizes, TP!OutputStep DEF Below
<1>5. TP!LossInv'
  BY <1>1, <1>3, Sizes, TP!LossStep DEF Below
<1>. QED
  BY <1>2, <1>4, <1>5 DEF Below

-----------------------------------------------------------------------------
(* What has been received and collected                                    *)

\* Each message the CLI printed has a kind, and only such messages are sent.
KindsKnown ==
    /\ kind \in Seq(Kinds) /\ Len(kind) = printed.messages
    /\ \A i \in 1 .. Len(TP!Out) : TP!Out[i] \in 1 .. printed.messages

Ending == {"close", "closing", "returned"}

MainTyped ==
    /\ main \in {"connect", "connected", "endInput", "select"} \cup Ending
    /\ IF main \in Ending THEN ret \in Returns ELSE ret = "none"

\* While the loop runs all that was received was handled; a result was the last.
AllHandled ==
    ~printed.noise =>
        /\ ret = "none" => Handled(Len(received))
        /\ ret \in Results => \E r \in DOMAIN kind : kind[r] = ret /\ Handled(r - 1)

ResultInv ==
    /\ collected \in Seq(Nat)
    /\ KindsKnown /\ MainTyped /\ AllHandled

LEMMA InitResult == Init => ResultInv
<1>. SUFFICES ASSUME Init PROVE ResultInv
  OBVIOUS
<1>1. /\ received = <<>> /\ msgChan.q = <<>> /\ printed.messages = 0 /\ kind = <<>> /\ collected = <<>>
      /\ main = "connect" /\ ret = "none"
  BY DEF Init, T!Init
<1>2. KindsKnown
  BY <1>1 DEF KindsKnown, TP!Out
<1>3. Handled(Len(received))
  BY <1>1 DEF Handled
<1>. QED
  BY <1>1, <1>2, <1>3 DEF ResultInv, MainTyped, AllHandled, Results, Ending

\* The message Query takes from the channel is the next one of the CLI.
LEMMA HeadKnown ==
    ASSUME Below, KindsKnown, msgChan.q # <<>>
    PROVE  /\ Head(msgChan.q) \in DOMAIN kind /\ kind[Head(msgChan.q)] \in Kinds
           /\ Head(msgChan.q) \in Nat
           /\ ~printed.noise => Head(msgChan.q) = Len(received) + 1
<1>. DEFINE q == msgChan.q
            n == Len(received) + 1
<1>1. received \in Seq(Nat) /\ q \in Seq(Nat) /\ printed.messages \in Nat
  BY DEF Below, TP!OutputInv, TP!OutputShapes
<1>2. /\ Len(TP!Out) = Len(received) + Len(q) /\ Len(received) \in Nat /\ Len(q) \in Nat \ {0}
      /\ n \in 1 .. Len(TP!Out) /\ TP!Out[n] = q[1] /\ Head(q) = q[1]
  BY <1>1 DEF TP!Out
<1>3. q[1] \in 1 .. printed.messages
  BY <1>2 DEF KindsKnown
<1>4. DOMAIN kind = 1 .. printed.messages /\ \A i \in 1 .. printed.messages : kind[i] \in Kinds
  BY DEF KindsKnown
<1>5. ~printed.noise => q[1] = n
  BY <1>2 DEF Below, TP!LossInv, TP!Counting
<1>. QED
  BY <1>1, <1>2, <1>3, <1>4, <1>5

\* What TakeMessage does with it.
LEMMA Taken ==
    ASSUME Below, KindsKnown, TakeMessage
    PROVE  /\ main = "select" /\ UNCHANGED <<kind, printed, cli, closed>>
           /\ received' = Append(received, Head(msgChan.q))
           /\ \/ /\ kind[Head(msgChan.q)] = "unparsable"
                 /\ main' = "close" /\ ret' = "parse" /\ UNCHANGED collected
              \/ /\ kind[Head(msgChan.q)] \in Results
                 /\ main' = "close" /\ ret' = kind[Head(msgChan.q)] /\ UNCHANGED collected
              \/ /\ kind[Head(msgChan.q)] = "assistant"
                 /\ UNCHANGED <<main, ret>> /\ collected' = Append(collected, Head(msgChan.q))
              \/ /\ kind[Head(msgChan.q)] = "other"
                 /\ UNCHANGED <<main, ret, collected>>
<1>. DEFINE k == kind[Head(msgChan.q)]
<1>1. /\ main = "select" /\ msgChan.q # <<>> /\ UNCHANGED <<kind, printed, cli, closed>>
      /\ received' = Append(received, Head(msgChan.q))
  BY DEF TakeMessage, T!TakeMessage, T!process, T!guarded
<1>2. k \in Kinds
  BY <1>1, HeadKnown
<1>3. CASE k = "unparsable"
  BY <1>1, <1>3 DEF TakeMessage, Return, Results
<1>4. CASE k \in Results
  BY <1>1, <1>4 DEF TakeMessage, Return, Results
<1>5. CASE k = "assistant"
  BY <1>1, <1>5 DEF TakeMessage, Results
<1>6. CASE k = "other"
  BY <1>1, <1>6 DEF TakeMessage, Results, call
<1>. QED
  BY <1>2, <1>3, <1>4, <1>5, <1>6 DEF Kinds

LEMMA OthersHandle ==
    ASSUME Below, [Next]_vars, ~TakeMessage, ~CLIPrints
    PROVE  /\ UNCHANGED <<received, printed.messages, printed.mid, printed.noise, kind, collected>>
           /\ \/ UNCHANGED ret
              \/ ret' \in Returns \ Results /\ main' \in Ending
<1>. USE DEF T!app, T!process, T!pipes, T!output, T!guarded, Goto, Return, Returns, Results, Ending
<1>1. CASE UNCHANGED vars \/ Cancel \/ ContextEnds \/ MessagesClosed
  BY <1>1 DEF vars, transport, call, Cancel, ContextEnds, MessagesClosed
<1>2. CASE Connect \/ CallEndInput \/ EndInput \/ TakeError \/ CallClose \/ Close
  BY <1>2 DEF Connect, CallEndInput, EndInput, TakeError, CallClose, Close, T!Connect, T!ConnectFails,
     T!Call, T!EndInput, T!TakeError, T!Close
<1>3. CASE Goroutines \/ (CallLocks /\ UNCHANGED <<kind, ctxDone, call>>)
  BY <1>3 DEF Goroutines, CallLocks, call, T!ReaderStep, T!Fill, T!ScanLine, T!SendMessage,
     T!ReportOverflow, T!ScanEnds, T!ReportScanError, T!SendOnClosedErrors, T!CloseMessages,
     T!StderrStep, T!ScanStderr, T!AppendStderr, T!WaiterStep, T!WaitReturns, T!RecordExit,
     T!ReportExit, T!CloseErrors, T!AnnounceLock
<1>4. CASE CLIPrintsError \/ CLIEnds
  <2>1. printed = [messages |-> printed.messages, mid |-> printed.mid, stray |-> printed.stray,
                   noise |-> printed.noise, stderr |-> printed.stderr]
    BY DEF Below, TP!OutputInv, TP!OutputShapes
  <2>. QED
    BY <1>4, <2>1 DEF CLIPrintsError, CLIEnds, call, T!CLIPrintsError, T!CLIExits, T!ContextDone
<1>. QED
  BY <1>1, <1>2, <1>3, <1>4 DEF Next, MainStep

LEMMA PrintsHandle ==
    ASSUME Below, KindsKnown, CLIPrints
    PROVE  /\ UNCHANGED <<received, main, ret, collected, cli, closed>>
           /\ ~printed'.noise => ~printed.noise
           /\ kind' \in Seq(Kinds) /\ Len(kind') = printed'.messages
           /\ \A n \in DOMAIN kind : n \in DOMAIN kind' /\ kind'[n] = kind[n]
<1>1. PICK line \in T!NextLines : T!CLIPrints(line)
  BY DEF CLIPrints
<1>2. /\ printed = [messages |-> printed.messages, mid |-> printed.mid, stray |-> printed.stray,
                    noise |-> printed.noise, stderr |-> printed.stderr]
      /\ printed.messages \in Nat
  BY DEF Below, TP!OutputInv, TP!OutputShapes
<1>3. /\ UNCHANGED <<received, main, ret, collected, cli, closed>>
      /\ ~printed'.noise => ~printed.noise
      /\ printed'.messages \in {printed.messages, printed.messages + 1}
  BY <1>1, <1>2 DEF CLIPrints, T!CLIPrints, T!app, T!guarded, call
<1>4. kind \in Seq(Kinds) /\ Len(kind) = printed.messages
  BY DEF KindsKnown
<1>5. CASE printed'.messages = printed.messages
  BY <1>3, <1>4, <1>5 DEF CLIPrints
<1>6. CASE printed'.messages = printed.messages + 1
  <2>1. PICK k \in Kinds : kind' = Append(kind, k)
    BY <1>2, <1>6 DEF CLIPrints
  <2>. QED
    BY <1>2, <1>3, <1>4, <1>6, <2>1
<1>. QED
  BY <1>3, <1>5, <1>6

LEMMA KindsStep ==
    ASSUME Below, KindsKnown, [Next]_vars
    PROVE  KindsKnown'
<1>1. kind' \in Seq(Kinds) /\ Len(kind') = printed'.messages
  BY Taken, PrintsHandle, OthersHandle DEF KindsKnown
<1>2. printed.messages \in Nat /\ TP!Out \in Seq(Nat) /\ Len(TP!Out) \in Nat
  BY DEF Below, TP!OutputInv, TP!OutputShapes, TP!Out
<1>3. \/ /\ UNCHANGED TP!Out
         /\ printed'.messages \in {printed.messages, printed.messages + 1}
      \/ /\ printed'.messages = printed.messages
         /\ \E n \in TP!MS!LastOut + 1 .. printed.messages : TP!Out' = Append(TP!Out, n)
  BY BelowStep DEF TP!MS!Next, TP!MS!vars, TP!MS!Emit, TP!MS!Deliver, TP!MS!End, TP!Out
<1>4. CASE UNCHANGED TP!Out
  BY <1>1, <1>2, <1>3, <1>4 DEF KindsKnown
<1>5. ASSUME printed'.messages = printed.messages,
             NEW n \in TP!MS!LastOut + 1 .. printed.messages, TP!Out' = Append(TP!Out, n)
      PROVE  KindsKnown'
  <2>1. TP!MS!LastOut \in Nat
    <3>1. TP!MS!LastOut = IF TP!Out = <<>> THEN 0 ELSE TP!Out[Len(TP!Out)]
      BY DEF TP!MS!LastOut, TP!Out
    <3>2. TP!Out # <<>> => TP!Out[Len(TP!Out)] \in Nat
      BY <1>2
    <3>. QED
      BY <3>1, <3>2
  <2>2. n \in 1 .. printed.messages
    BY <1>2, <2>1
  <2>3. \A i \in 1 .. Len(TP!Out') : TP!Out'[i] \in 1 .. printed.messages
    BY <1>2, <1>5, <2>2 DEF KindsKnown
  <2>. QED
    BY <1>1, <1>5, <2>3 DEF KindsKnown
<1>. QED
  BY <1>3, <1>4, <1>5

LEMMA MainTypedStep ==
    ASSUME Below, KindsKnown, MainTyped, [Next]_vars
    PROVE  MainTyped'
<1>. USE DEF Goto, Return, Returns, Results, Ending, MainTyped
<1>1. CASE UNCHANGED <<main, ret>>
  BY <1>1
<1>2. CASE TakeMessage
  BY <1>2, Taken
<1>3. CASE Connect \/ CallEndInput \/ EndInput \/ TakeError \/ ContextEnds \/ MessagesClosed \/ CallClose \/ Close
  BY <1>3 DEF Connect, CallEndInput, EndInput, TakeError, ContextEnds, MessagesClosed, CallClose, Close
<1>4. CASE \/ UNCHANGED vars \/ Cancel \/ Goroutines \/ (CallLocks /\ UNCHANGED <<kind, ctxDone, call>>)
           \/ CLIPrints \/ CLIPrintsError \/ CLIEnds
  <2>1. UNCHANGED <<main, ret>>
    BY <1>4 DEF vars, Cancel, Goroutines, CLIPrints, CLIPrintsError, CLIEnds, call
  <2>. QED
    BY <1>1, <2>1
<1>. QED
  BY <1>2, <1>3, <1>4 DEF Next, MainStep

-----------------------------------------------------------------------------
(* What is handled stays handled                                           *)

LEMMA HandledStays ==
    ASSUME NEW m, Handled(m), UNCHANGED collected, \A n \in 1 .. m : kind'[n] = kind[n]
    PROVE  Handled(m)'
BY DEF Handled

LEMMA OneMoreHandled ==
    ASSUME NEW n \in Nat \ {0}, collected \in Seq(Nat), Handled(n - 1), UNCHANGED kind,
           \/ kind[n] = "assistant" /\ collected' = Append(collected, n)
           \/ kind[n] = "other" /\ UNCHANGED collected
    PROVE  Handled(n)'
<1>1. \A i \in 1 .. n : i = n \/ i \in 1 .. n - 1
  OBVIOUS
<1>2. \A i \in 1 .. n : kind'[i] \in {"assistant", "other"}
  BY <1>1 DEF Handled
<1>3. CASE kind[n] = "other" /\ UNCHANGED collected
  <2>1. {i \in 1 .. n : kind[i] = "assistant"} = {i \in 1 .. n - 1 : kind[i] = "assistant"}
    BY <1>1, <1>3
  <2>. QED
    BY <1>2, <1>3, <2>1 DEF Handled
<1>4. CASE kind[n] = "assistant" /\ collected' = Append(collected, n)
  <2>1. /\ Len(collected) \in Nat /\ DOMAIN collected' = 1 .. Len(collected) + 1
        /\ DOMAIN collected = 1 .. Len(collected) /\ collected'[Len(collected) + 1] = n
        /\ \A i \in 1 .. Len(collected) : collected'[i] = collected[i]
    BY <1>4
  <2>2. \A i \in DOMAIN collected' : i = Len(collected) + 1 \/ i \in DOMAIN collected
    BY <2>1
  <2>3. \A i \in DOMAIN collected : collected[i] \in 1 .. n - 1 /\ i < Len(collected) + 1
    BY <2>1 DEF Handled
  <2>4. {collected'[i] : i \in DOMAIN collected'} = {collected[i] : i \in DOMAIN collected} \cup {n}
    BY <2>1, <2>2
  <2>5. {i \in 1 .. n : kind'[i] = "assistant"} = {i \in 1 .. n - 1 : kind[i] = "assistant"} \cup {n}
    BY <1>1, <1>4
  <2>6. ASSUME NEW i \in DOMAIN collected', NEW j \in DOMAIN collected', i < j
        PROVE  collected'[i] < collected'[j]
    <3>1. i \in DOMAIN collected
      BY <2>1, <2>2, <2>6
    <3>2. CASE j \in DOMAIN collected
      BY <2>1, <2>6, <3>1, <3>2 DEF Handled
    <3>3. CASE j = Len(collected) + 1
      BY <2>1, <2>3, <3>1, <3>3
    <3>. QED
      BY <2>2, <3>2, <3>3
  <2>. QED
    BY <1>2, <2>4, <2>5, <2>6 DEF Handled
<1>. QED
  BY <1>3, <1>4

LEMMA ReceivedKnown ==
    ASSUME Below, KindsKnown, ~printed.noise
    PROVE  Len(received) \in Nat /\ Len(received) <= Len(kind)
<1>1. received \in Seq(Nat) /\ msgChan.q \in Seq(Nat) /\ printed.messages \in Nat
  BY DEF Below, TP!OutputInv, TP!OutputShapes
<1>2. Len(received) \in Nat /\ Len(TP!Out) = Len(received) + Len(msgChan.q) /\ Len(msgChan.q) \in Nat
  BY <1>1 DEF TP!Out
<1>3. CASE Len(received) = 0
  BY <1>1, <1>3 DEF KindsKnown
<1>4. CASE Len(received) # 0
  <2>1. Len(received) \in 1 .. Len(TP!Out)
    BY <1>2, <1>4
  <2>2. TP!Out[Len(received)] = Len(received)
    BY <2>1 DEF Below, TP!LossInv, TP!Counting
  <2>. QED
    BY <1>1, <1>2, <2>1, <2>2 DEF KindsKnown
<1>. QED
  BY <1>3, <1>4

LEMMA HandledStep ==
    ASSUME Below, ResultInv, [Next]_vars
    PROVE  AllHandled' /\ collected' \in Seq(Nat)
<1>. USE DEF ResultInv
<1>1. CASE TakeMessage
  <2>1. msgChan.q # <<>>
    BY <1>1 DEF TakeMessage, T!TakeMessage
  <2>. PICK n : n = Head(msgChan.q)
    OBVIOUS
  <2>2. /\ n \in DOMAIN kind /\ n \in Nat /\ UNCHANGED <<kind, printed>> /\ received' = Append(received, n)
        /\ ret = "none"
    BY <1>1, <2>1, HeadKnown, Taken DEF MainTyped, Ending
  <2>3. collected' \in Seq(Nat)
    <3>1. collected' = collected \/ collected' = Append(collected, n)
      BY <1>1, Taken
    <3>2. Append(collected, n) \in Seq(Nat)
      BY <2>2
    <3>. QED
      BY <3>1, <3>2
  <2>4. ASSUME ~printed'.noise
        PROVE  n = Len(received) + 1 /\ Handled(n - 1) /\ Len(received') = n /\ n \in Nat \ {0}
    <3>1. n = Len(received) + 1 /\ received \in Seq(Nat)
      BY <2>1, <2>2, <2>4, HeadKnown DEF Below, TP!OutputInv, TP!OutputShapes
    <3>2. Len(received) \in Nat /\ Len(received') = Len(received) + 1 /\ n - 1 = Len(received)
      BY <2>2, <3>1
    <3>. QED
      BY <2>2, <2>4, <3>1, <3>2 DEF AllHandled
  <2>5. CASE kind[n] = "unparsable" /\ ret' = "parse"
    BY <2>3, <2>5 DEF AllHandled, Results
  <2>6. CASE kind[n] \in Results /\ ret' = kind[n] /\ UNCHANGED collected
    <3>1. ~printed'.noise => Handled(n - 1)'
      BY <2>2, <2>4, <2>6, HandledStays
    <3>. QED
      BY <2>2, <2>3, <2>6, <3>1 DEF AllHandled, Results
  <2>7. CASE /\ UNCHANGED ret
             /\ \/ kind[n] = "assistant" /\ collected' = Append(collected, n)
                \/ kind[n] = "other" /\ UNCHANGED collected
    <3>1. ~printed'.noise => Handled(n)'
      BY <2>2, <2>4, <2>7, OneMoreHandled
    <3>. QED
      BY <2>2, <2>3, <2>4, <2>7, <3>1 DEF AllHandled, Results
  <2>. QED
    BY <1>1, <2>5, <2>6, <2>7, Taken
<1>2. CASE CLIPrints
  <2>1. /\ UNCHANGED <<received, ret, collected>> /\ (~printed'.noise => ~printed.noise)
        /\ \A n \in DOMAIN kind : n \in DOMAIN kind' /\ kind'[n] = kind[n]
        /\ DOMAIN kind = 1 .. Len(kind) /\ Len(kind) \in Nat
    BY <1>2, PrintsHandle DEF KindsKnown
  <2>2. ASSUME NEW m \in Nat, m <= Len(kind), Handled(m)
        PROVE  Handled(m)'
    BY <2>1, <2>2, HandledStays
  <2>3. ~printed'.noise /\ ret = "none" => Handled(Len(received))'
    BY <2>1, <2>2, ReceivedKnown DEF AllHandled
  <2>4. ASSUME ~printed'.noise, ret \in Results
        PROVE  \E r \in DOMAIN kind' : kind'[r] = ret' /\ Handled(r - 1)'
    <3>1. PICK r \in DOMAIN kind : kind[r] = ret /\ Handled(r - 1)
      BY <2>1, <2>4 DEF AllHandled
    <3>2. r - 1 \in Nat /\ r - 1 <= Len(kind)
      BY <2>1
    <3>. QED
      BY <2>1, <2>2, <3>1, <3>2
  <2>. QED
    BY <2>1, <2>3, <2>4 DEF AllHandled
<1>3. CASE ~TakeMessage /\ ~CLIPrints
  <2>1. /\ UNCHANGED <<received, printed.noise, kind, collected>>
        /\ UNCHANGED ret \/ ret' \in Returns \ Results
    BY <1>3, OthersHandle
  <2>. QED
    BY <2>1, HandledStays DEF AllHandled, Handled, Returns, Results
<1>. QED
  BY <1>1, <1>2, <1>3

LEMMA ResultStep ==
    ASSUME Below, ResultInv, [Next]_vars
    PROVE  ResultInv'
BY KindsStep, MainTypedStep, HandledStep DEF ResultInv

(* Query: a result it returns is the first one the CLI printed, with every *)
(* message before it that is for the caller, once and in order, as long as *)
(* the CLI prints nothing but messages and blank lines.                    *)
THEOREM QueryResultIsComplete == Spec => []ResultComplete
<1>1. ResultInv => ResultComplete
  BY DEF ResultInv, AllHandled, ResultComplete
<1>2. Below /\ ResultInv /\ [Next]_vars => Below' /\ ResultInv'
  BY BelowStep, ResultStep
<1>. QED
  BY <1>1, <1>2, InitBelow, InitResult, PTL DEF Spec

-----------------------------------------------------------------------------
(* What is left of the process                                             *)

Ended == cli.killed \/ cli.st \in {"failed", "exited"}

\* The first Close kills what is running; nothing brings a process back.
ProcessInv ==
    /\ cli \in [st : {"none", "failed", "running", "exited"},
                code : T!ExitCodes \cup {"none"}, killed : BOOLEAN]
    /\ main # "connect" => cli.st # "none"
    /\ closed => Ended
    /\ main = "returned" => Ended

LEMMA InitProcess == Init => ProcessInv
BY DEF Init, T!Init, ProcessInv, T!ExitCodes

LEMMA ProcessStep ==
    ASSUME Below, ResultInv, ProcessInv, [Next]_vars
    PROVE  ProcessInv'
<1>. USE DEF T!app, T!process, T!pipes, T!output, T!guarded
<1>1. CASE UNCHANGED <<cli, closed, main>>
  BY <1>1 DEF ProcessInv, Ended
<1>2. CASE Connect
  BY <1>2 DEF Connect, T!Connect, T!ConnectFails, Goto, ProcessInv, Ended
<1>3. CASE CallEndInput \/ EndInput \/ ContextEnds \/ TakeError \/ TakeMessage \/ MessagesClosed \/ CallClose
  <2>1. UNCHANGED <<cli, closed>> /\ main # "connect" /\ main' # "returned"
    <3>1. CASE TakeMessage
      BY <3>1, Taken DEF ResultInv
    <3>. QED
      BY <1>3, <3>1 DEF CallEndInput, EndInput, ContextEnds, TakeError, MessagesClosed, CallClose,
         transport, Goto, Return, call, T!Call, T!EndInput, T!TakeError
  <2>. QED
    BY <2>1 DEF ProcessInv, Ended
<1>4. CASE Close
  <2>1. main = "closing" /\ main' = "returned" /\ closed' = TRUE
    BY <1>4 DEF Close, T!Close, Goto
  <2>2. CASE closed
    BY <1>4, <2>1, <2>2 DEF Close, T!Close, ProcessInv, Ended
  <2>3. CASE ~closed
    <3>1. cli' = [cli EXCEPT !.killed = cli.killed \/ cli.st = "running"]
      BY <1>4, <2>3 DEF Close, T!Close
    <3>2. /\ cli'.st = cli.st /\ cli'.killed = (cli.killed \/ cli.st = "running")
          /\ cli' \in [st : {"none", "failed", "running", "exited"},
                        code : T!ExitCodes \cup {"none"}, killed : BOOLEAN]
      BY <3>1 DEF ProcessInv
    <3>. QED
      BY <2>1, <3>2 DEF ProcessInv, Ended
  <2>. QED
    BY <2>2, <2>3
<1>5. CASE Goroutines \/ CLIPrints \/ CLIPrintsError \/ Cancel \/ (CallLocks /\ UNCHANGED call)
  <2>1. UNCHANGED <<cli, closed, main>>
    BY <1>5 DEF Goroutines, CLIPrints, CLIPrintsError, Cancel, CallLocks, transport, call,
       T!ReaderStep, T!Fill, T!ScanLine, T!SendMessage, T!ReportOverflow, T!ScanEnds,
       T!ReportScanError, T!SendOnClosedErrors, T!CloseMessages, T!StderrStep, T!ScanStderr,
       T!AppendStderr, T!WaiterStep, T!WaitReturns, T!RecordExit, T!ReportExit, T!CloseErrors,
       T!AnnounceLock, T!CLIPrints, T!CLIPrintsError
  <2>. QED
    BY <1>1, <2>1
<1>6. CASE CLIEnds
  <2>1. /\ UNCHANGED <<closed, main>> /\ cli.st = "running"
        /\ \/ cli' = [cli EXCEPT !.killed = TRUE]
           \/ \E code \in T!ExitCodes : cli' = [cli EXCEPT !.st = "exited", !.code = code]
    BY <1>6 DEF CLIEnds, call, T!CLIExits, T!ContextDone
  <2>. QED
    BY <2>1 DEF ProcessInv, Ended
<1>. QED
  BY <1>1, <1>2, <1>3, <1>4, <1>5, <1>6 DEF Next, MainStep, vars, transport, call

(* Query: whichever way it returns, and whatever the CLI and the context do *)
(* meanwhile, the CLI has ended or has been killed.                         *)
THEOREM QueryLeavesNoProcess == Spec => []NoProcessLeft
<1>1. ProcessInv => NoProcessLeft
  BY DEF ProcessInv, Ended, NoProcessLeft
<1>2. Below /\ ResultInv /\ ProcessInv /\ [Next]_vars => Below' /\ ResultInv' /\ ProcessInv'
  BY BelowStep, ResultStep, ProcessStep
<1>. QED
  BY <1>1, <1>2, InitBelow, InitResult, InitProcess, PTL DEF Spec

-----------------------------------------------------------------------------
(* Types                                                                   *)

\* A message that is half printed counts: its number is within the bound too.
PrintedBounded ==
    /\ printed.messages <= MaxMessages
    /\ printed.mid => printed.messages < MaxMessages
    /\ collected \in Seq(1 .. MaxMessages)

LEMMA BoundedStep ==
    ASSUME Below, ResultInv, PrintedBounded, [Next]_vars
    PROVE  PrintedBounded'
<1>1. MaxMessages \in Nat
  BY QueryAssumption
<1>2. /\ printed = [messages |-> printed.messages, mid |-> printed.mid, stray |-> printed.stray,
                    noise |-> printed.noise, stderr |-> printed.stderr]
      /\ printed.messages \in Nat /\ printed.mid \in BOOLEAN
  BY DEF Below, TP!OutputInv, TP!OutputShapes
<1>3. CASE TakeMessage
  <2>1. msgChan.q # <<>> /\ KindsKnown
    BY <1>3 DEF TakeMessage, T!TakeMessage, ResultInv
  <2>2. Head(msgChan.q) \in 1 .. printed.messages
    BY <2>1, HeadKnown DEF KindsKnown
  <2>3. Head(msgChan.q) \in 1 .. MaxMessages
    BY <1>1, <1>2, <2>2 DEF PrintedBounded
  <2>4. /\ printed' = printed
        /\ collected' = collected \/ collected' = Append(collected, Head(msgChan.q))
    BY <1>3, <2>1, Taken
  <2>5. collected' \in Seq(1 .. MaxMessages)
    <3>. DEFINE N == 1 .. MaxMessages
    <3>1. collected \in Seq(N) /\ Head(msgChan.q) \in N
      BY <2>3 DEF PrintedBounded
    <3>. HIDE DEF N
    <3>2. collected' \in Seq(N)
      BY <2>4, <3>1
    <3>. QED
      BY <3>2 DEF N
  <2>. QED
    BY <2>4, <2>5 DEF PrintedBounded
<1>4. CASE CLIPrints
  <2>1. PICK line \in T!NextLines : T!CLIPrints(line)
    BY <1>4 DEF CLIPrints
  <2>2. /\ UNCHANGED collected /\ printed'.mid = (line.kind = "head")
        /\ printed'.messages = IF line.kind \in {"whole", "tail"} THEN printed.messages + 1
                                                               ELSE printed.messages
    BY <1>2, <1>4, <2>1 DEF CLIPrints, T!CLIPrints, call
  <2>3. line.kind \in {"whole", "head", "tail"} => printed.messages < MaxMessages
    BY <2>1 DEF T!NextLines, PrintedBounded
  <2>4. printed'.messages <= MaxMessages
    BY <1>1, <1>2, <2>2, <2>3 DEF PrintedBounded
  <2>5. printed'.mid => printed'.messages < MaxMessages
    BY <1>1, <1>2, <2>2, <2>3
  <2>. QED
    BY <2>2, <2>4, <2>5 DEF PrintedBounded
<1>5. CASE ~TakeMessage /\ ~CLIPrints
  BY <1>5, OthersHandle DEF PrintedBounded
<1>. QED
  BY <1>3, <1>4, <1>5

(* Query: each message that was printed has one kind, what was collected is *)
(* among them, and a call past its loop has decided what it returns.       *)
THEOREM QueryTypeCorrect == Spec => []TypeOK
<1>1. Init => PrintedBounded
  BY QueryAssumption DEF Init, T!Init, PrintedBounded
<1>2. Below /\ ResultInv /\ PrintedBounded /\ [Next]_vars => Below' /\ ResultInv' /\ PrintedBounded'
  BY BelowStep, ResultStep, BoundedStep
<1>3. ResultInv /\ PrintedBounded => TypeOK
  BY DEF ResultInv, KindsKnown, MainTyped, Ending, PrintedBounded, TypeOK
<1>. QED
  BY <1>1, <1>2, <1>3, InitBelow, InitResult, PTL DEF Spec
=============================================================================
