----------------------------- MODULE Client_proofs -----------------------------
(***************************************************************************)
(* Proofs about Client for any number of goroutines, methods and messages: *)
(* what the client's RWMutex guarantees to Connect and to Close.           *)
(***************************************************************************)
EXTENDS Client, FiniteSetTheorems, TLAPS

\* Past its lock, a method holds it, alone or shared.
Inside(t) == thread[t].pc \notin {"idle", "lock"}

LocksHeld ==
    \A t \in Callers : Inside(t) =>
        IF thread[t].op \in Exclusive THEN HoldsLock(mu, t) ELSE HoldsRLock(mu, t)

\* Where a method is belongs to it.
MethodsOrdered ==
    \A t \in Callers :
        /\ thread[t].pc \in {"begin", "request", "response"} =>
              thread[t].op \in {"connect", "interrupt", "rewind"}
        /\ thread[t].pc = "store" => thread[t].op = "connect"
        /\ thread[t].pc \in {"hook", "write", "writing"} => thread[t].op \in {"send", "tool_result"}
        /\ thread[t].pc \in {"closeProtocol", "closeTransport"} => thread[t].op = "close"

QuietWhenStopped == stopped => \A t \in Callers : ~InProgress(t)

Registered == {"registered", "writing", "written", "waiting", "leaving"}

\* A request is pending only while a method waits in SendControlRequest.
PendingOwned ==
    /\ \A i \in DOMAIN pendingRequests :
          \E t \in Callers : call[t].pc \in Registered /\ call[t].id = i
    /\ \A t \in Callers : thread[t].pc # "request" => call[t].pc = "idle"

\* The types the steps below rely on.
Shapes ==
    /\ mu \in [writer : SUBSET Callers, readers : SUBSET Callers, blocked : SUBSET Callers]
    /\ thread = [t \in Callers |-> thread[t]]
    /\ \A t \in Callers :
          thread[t] = [op |-> thread[t].op, pc |-> thread[t].pc, sid |-> thread[t].sid]

CallShapes ==
    /\ call = [t \in Callers |-> call[t]]
    /\ \A t \in Callers : call[t] = [pc |-> call[t].pc, id |-> call[t].id, ch |-> call[t].ch]

\* The inductive invariant: of the methods, and of the requests they make.
MethodsInv == Shapes /\ LocksHeld /\ MethodsOrdered /\ QuietWhenStopped
RequestsInv == CallShapes /\ PendingOwned
IInv == MethodsInv /\ RequestsInv

-----------------------------------------------------------------------------
(* What the lock means *)

LEMMA LockExcludes ==
    ASSUME LocksHeld, NEW t \in Callers, HoldsLock(mu, t), NEW u \in Callers, u # t
    PROVE  ~Inside(u)
BY DEF LocksHeld, HoldsLock, HoldsRLock

LEMMA InitializeIsAlone == IInv => InitializeAlone
<1>. SUFFICES ASSUME IInv, NEW t \in Callers, thread[t].op = "connect", InProgress(t),
                     NEW u \in Callers \ {t}
              PROVE  ~InProgress(u) /\ thread[u].pc \notin {"closeProtocol", "closeTransport"}
  BY DEF InitializeAlone
<1>1. HoldsLock(mu, t)
  BY DEF IInv, MethodsInv, LocksHeld, Inside, InProgress, Exclusive
<1>2. ~Inside(u)
  BY <1>1, LockExcludes DEF IInv, MethodsInv
<1>. QED
  BY <1>2 DEF Inside, InProgress

LEMMA NothingAfterClose == IInv => CloseIsLast
<1>. SUFFICES ASSUME IInv, stopped
              PROVE  (\A t \in Callers : ~InProgress(t)) /\ DOMAIN pendingRequests = {}
  BY DEF CloseIsLast
<1>1. \A t \in Callers : ~InProgress(t)
  BY DEF IInv, MethodsInv, QuietWhenStopped
<1>2. \A t \in Callers : call[t].pc = "idle"
  BY <1>1 DEF IInv, RequestsInv, PendingOwned, InProgress
<1>. QED
  BY <1>1, <1>2 DEF IInv, RequestsInv, PendingOwned, Registered

-----------------------------------------------------------------------------
LEMMA InitInv == Init => IInv
<1>. SUFFICES ASSUME Init PROVE IInv
  OBVIOUS
<1>1. Shapes /\ CallShapes
  BY DEF Init, CP!Init, Shapes, CallShapes, Unlocked, Idle
<1>2. LocksHeld /\ MethodsOrdered /\ QuietWhenStopped
  BY DEF Init, LocksHeld, MethodsOrdered, QuietWhenStopped, Inside, InProgress, Idle
<1>3. PendingOwned
  BY DEF Init, CP!Init, PendingOwned
<1>. QED
  BY <1>1, <1>2, <1>3 DEF IInv, MethodsInv, RequestsInv

-----------------------------------------------------------------------------
(* What a step of a method does to the methods                             *)

\* Goroutine t goes on to m.
Goes(t, m) ==
    /\ thread' = [thread EXCEPT ![t] = m]
    /\ m = [op |-> m.op, pc |-> m.pc, sid |-> m.sid]

LEMMA GoesFacts ==
    ASSUME Shapes, NEW t \in Callers, NEW m, Goes(t, m)
    PROVE  /\ thread' = [u \in Callers |-> thread'[u]]
           /\ \A u \in Callers :
                 thread'[u] = [op |-> thread'[u].op, pc |-> thread'[u].pc, sid |-> thread'[u].sid]
           /\ thread'[t] = m
           /\ \A u \in Callers \ {t} : thread'[u] = thread[u]
BY DEF Shapes, Goes

\* The places that m may be at.
Fits(m) ==
    /\ m.pc \in {"begin", "request", "response"} => m.op \in {"connect", "interrupt", "rewind"}
    /\ m.pc = "store" => m.op = "connect"
    /\ m.pc \in {"hook", "write", "writing"} => m.op \in {"send", "tool_result"}
    /\ m.pc \in {"closeProtocol", "closeTransport"} => m.op = "close"

\* A method that calls gets in line for the lock, or shares it at once.
LEMMA Enters ==
    ASSUME MethodsInv, NEW t \in Callers, NEW m, Goes(t, m), thread[t].pc = "idle",
           m.pc = "lock", mu' = mu \/ mu' = RLock(mu, t), UNCHANGED stopped
    PROVE  MethodsInv'
<1>1. /\ thread'[t] = m /\ \A u \in Callers \ {t} : thread'[u] = thread[u]
      /\ thread' = [u \in Callers |-> thread'[u]]
      /\ \A u \in Callers :
            thread'[u] = [op |-> thread'[u].op, pc |-> thread'[u].pc, sid |-> thread'[u].sid]
  BY GoesFacts DEF MethodsInv
<1>2. Shapes'
  BY <1>1 DEF MethodsInv, Shapes, RLock
<1>3. \A u \in Callers \ {t} :
         /\ HoldsLock(mu, u) => HoldsLock(mu', u)
         /\ HoldsRLock(mu, u) => HoldsRLock(mu', u)
  BY DEF MethodsInv, Shapes, RLock, HoldsLock, HoldsRLock
<1>4. LocksHeld' /\ MethodsOrdered' /\ QuietWhenStopped'
  BY <1>1, <1>3 DEF MethodsInv, LocksHeld, MethodsOrdered, QuietWhenStopped, Inside, InProgress
<1>. QED
  BY <1>2, <1>4 DEF MethodsInv

\* A method that has the lock goes in, if the client is not closed, or closes it.
LEMMA Begins ==
    ASSUME MethodsInv, NEW t \in Callers, NEW m, Goes(t, m), thread[t].pc = "lock",
           m.op = thread[t].op, Fits(m), UNCHANGED mu,
           IF m.op \in Exclusive THEN HoldsLock(mu, t) ELSE HoldsRLock(mu, t),
           \/ ~stopped /\ UNCHANGED stopped
           \/ m.pc \in {"closeProtocol", "closeTransport"}
    PROVE  MethodsInv'
<1>1. /\ thread'[t] = m /\ \A u \in Callers \ {t} : thread'[u] = thread[u]
      /\ thread' = [u \in Callers |-> thread'[u]]
      /\ \A u \in Callers :
            thread'[u] = [op |-> thread'[u].op, pc |-> thread'[u].pc, sid |-> thread'[u].sid]
  BY GoesFacts DEF MethodsInv
<1>2. Shapes' /\ LocksHeld' /\ MethodsOrdered'
  BY <1>1 DEF MethodsInv, Shapes, LocksHeld, MethodsOrdered, Fits, Inside
<1>3. QuietWhenStopped'
  <2>1. CASE ~stopped /\ UNCHANGED stopped
    BY <2>1 DEF QuietWhenStopped
  <2>2. CASE m.pc \in {"closeProtocol", "closeTransport"}
    <3>1. HoldsLock(mu, t)
      BY <2>2 DEF Fits, Exclusive
    <3>2. \A u \in Callers \ {t} : ~Inside(u)
      BY <3>1, LockExcludes DEF MethodsInv
    <3>. QED
      BY <1>1, <2>2, <3>2 DEF QuietWhenStopped, Inside, InProgress
  <2>. QED
    BY <2>1, <2>2
<1>. QED
  BY <1>2, <1>3 DEF MethodsInv

\* A method goes on with what it has of the lock.
LEMMA Continues ==
    ASSUME MethodsInv, NEW t \in Callers, NEW m, Goes(t, m), Inside(t), UNCHANGED <<mu, stopped>>,
           m.op = thread[t].op, Fits(m),
           m.pc \in {"closeProtocol", "closeTransport"} \/ InProgress(t)
    PROVE  MethodsInv'
<1>1. /\ thread'[t] = m /\ \A u \in Callers \ {t} : thread'[u] = thread[u]
      /\ thread' = [u \in Callers |-> thread'[u]]
      /\ \A u \in Callers :
            thread'[u] = [op |-> thread'[u].op, pc |-> thread'[u].pc, sid |-> thread'[u].sid]
  BY GoesFacts DEF MethodsInv
<1>2. Shapes' /\ LocksHeld' /\ MethodsOrdered'
  BY <1>1 DEF MethodsInv, Shapes, LocksHeld, MethodsOrdered, Fits, Inside
<1>3. QuietWhenStopped'
  BY <1>1 DEF MethodsInv, QuietWhenStopped, InProgress
<1>. QED
  BY <1>2, <1>3 DEF MethodsInv

\* A method gives back the lock, or its share, and returns.
LEMMA Leaves ==
    ASSUME MethodsInv, NEW t \in Callers, Goes(t, Idle),
           \/ HoldsLock(mu, t) /\ mu' = Unlock(mu)
           \/ HoldsRLock(mu, t) /\ mu' = RUnlock(mu, t),
           stopped' = stopped \/ HoldsLock(mu, t)
    PROVE  MethodsInv'
<1>1. /\ thread'[t] = Idle /\ \A u \in Callers \ {t} : thread'[u] = thread[u]
      /\ thread' = [u \in Callers |-> thread'[u]]
      /\ \A u \in Callers :
            thread'[u] = [op |-> thread'[u].op, pc |-> thread'[u].pc, sid |-> thread'[u].sid]
  BY GoesFacts DEF MethodsInv
<1>2. Shapes'
  BY <1>1 DEF MethodsInv, Shapes, Unlock, RUnlock
<1>3. MethodsOrdered'
  BY <1>1 DEF MethodsInv, MethodsOrdered, Idle
<1>4. CASE HoldsLock(mu, t) /\ mu' = Unlock(mu)
  <2>1. \A u \in Callers : ~Inside(u)'
    BY <1>1, <1>4, LockExcludes DEF MethodsInv, Inside, Idle
  <2>2. LocksHeld' /\ QuietWhenStopped'
    BY <2>1 DEF LocksHeld, QuietWhenStopped, Inside, InProgress
  <2>. QED
    BY <1>2, <1>3, <2>2 DEF MethodsInv
<1>5. CASE HoldsRLock(mu, t) /\ mu' = RUnlock(mu, t)
  <2>1. stopped' = stopped
    BY <1>5 DEF HoldsLock, HoldsRLock
  <2>2. \A u \in Callers \ {t} :
           /\ HoldsLock(mu, u) => HoldsLock(mu', u)
           /\ HoldsRLock(mu, u) => HoldsRLock(mu', u)
    BY <1>5 DEF MethodsInv, Shapes, RUnlock, HoldsLock, HoldsRLock
  <2>3. LocksHeld' /\ QuietWhenStopped'
    BY <1>1, <2>1, <2>2 DEF MethodsInv, LocksHeld, QuietWhenStopped, Inside, InProgress, Idle
  <2>. QED
    BY <1>2, <1>3, <2>3 DEF MethodsInv
<1>. QED
  BY <1>4, <1>5

\* Lock announces itself when no other writer is there.
LEMMA Announces ==
    ASSUME MethodsInv, NEW t \in Callers, AnnounceLock(t)
    PROVE  MethodsInv'
<1>1. mu.writer = {} /\ mu' = [mu EXCEPT !.writer = {t}] /\ UNCHANGED <<thread, stopped>>
  BY DEF AnnounceLock, CanAnnounce, Announce
<1>2. Shapes'
  BY <1>1 DEF MethodsInv, Shapes
<1>3. \A u \in Callers : ~HoldsLock(mu, u) /\ (HoldsRLock(mu, u) => HoldsRLock(mu', u))
  BY <1>1 DEF MethodsInv, Shapes, HoldsLock, HoldsRLock
<1>4. LocksHeld' /\ MethodsOrdered' /\ QuietWhenStopped'
  BY <1>1, <1>3 DEF MethodsInv, LocksHeld, MethodsOrdered, QuietWhenStopped, Inside, InProgress
<1>. QED
  BY <1>2, <1>4 DEF MethodsInv

LEMMA MethodsUntouched ==
    ASSUME MethodsInv, UNCHANGED <<mu, thread, stopped>>
    PROVE  MethodsInv'
BY DEF MethodsInv, Shapes, LocksHeld, MethodsOrdered, QuietWhenStopped, Inside, InProgress,
       HoldsLock, HoldsRLock

\* What goroutine t is at when it goes to l.
MovedTo(t, l) == [op |-> thread[t].op, pc |-> l, sid |-> thread[t].sid]

LEMMA GotoGoes ==
    ASSUME Shapes, NEW t \in Callers, NEW l, Goto(t, l)
    PROVE  Goes(t, MovedTo(t, l))
<1>1. thread[t] = [op |-> thread[t].op, pc |-> thread[t].pc, sid |-> thread[t].sid]
  BY DEF Shapes
<1>2. [thread[t] EXCEPT !.pc = l] = MovedTo(t, l)
  BY <1>1 DEF MovedTo
<1>3. [thread EXCEPT ![t].pc = l] = [thread EXCEPT ![t] = [thread[t] EXCEPT !.pc = l]]
  OBVIOUS
<1>. QED
  BY <1>2, <1>3 DEF Goto, Goes, MovedTo

LEMMA ReturnsGoes ==
    ASSUME NEW t \in Callers, Returns(t)
    PROVE  Goes(t, Idle)
BY DEF Returns, Goes, Idle

-----------------------------------------------------------------------------
(* Every action is one of these steps                                      *)

LEMMA EnterMethods ==
    ASSUME MethodsInv, NEW t \in Callers, NEW op, Enter(t, op)
    PROVE  MethodsInv'
<1>. DEFINE m == [op |-> op, pc |-> "lock", sid |-> None]
<1>1. Goes(t, m) /\ m.pc = "lock"
  BY DEF Enter, Goes
<1>2. thread[t].pc = "idle" /\ UNCHANGED stopped /\ (mu' = mu \/ mu' = RLock(mu, t))
  BY DEF Enter, Idle
<1>. QED
  BY <1>1, <1>2, Enters

\* A method that has the lock and finds the client open.
LEMMA OpensMethods ==
    ASSUME MethodsInv, NEW t \in Callers, NEW l, Goto(t, l), thread[t].pc = "lock",
           UNCHANGED <<mu, stopped>>, ~stopped, Fits(MovedTo(t, l)),
           IF thread[t].op \in Exclusive THEN HoldsLock(mu, t) ELSE HoldsRLock(mu, t)
    PROVE  MethodsInv'
<1>1. Goes(t, MovedTo(t, l)) /\ MovedTo(t, l).op = thread[t].op
  BY GotoGoes DEF MethodsInv, MovedTo
<1>. QED
  BY <1>1, Begins

\* A method that is inside and goes on.
LEMMA GoesOnMethods ==
    ASSUME MethodsInv, NEW t \in Callers, NEW l, Goto(t, l), Inside(t),
           UNCHANGED <<mu, stopped>>, Fits(MovedTo(t, l)),
           l \in {"closeProtocol", "closeTransport"} \/ InProgress(t)
    PROVE  MethodsInv'
<1>1. Goes(t, MovedTo(t, l)) /\ MovedTo(t, l).op = thread[t].op /\ MovedTo(t, l).pc = l
  BY GotoGoes DEF MethodsInv, MovedTo
<1>. QED
  BY <1>1, Continues

\* A method that is inside and returns.
LEMMA ReturnsMethods ==
    ASSUME MethodsInv, NEW t \in Callers, Returns(t), UNCHANGED stopped, Inside(t),
           mu' = IF thread[t].op \in Exclusive THEN Unlock(mu) ELSE RUnlock(mu, t)
    PROVE  MethodsInv'
<1>1. Goes(t, Idle)
  BY ReturnsGoes
<1>2. IF thread[t].op \in Exclusive THEN HoldsLock(mu, t) ELSE HoldsRLock(mu, t)
  BY DEF MethodsInv, LocksHeld
<1>. QED
  BY <1>1, <1>2, Leaves

LEMMA ConnectMethods ==
    ASSUME MethodsInv, NEW t \in Callers, ConnectRefused(t) \/ Connect(t)
    PROVE  MethodsInv'
<1>1. CASE ConnectRefused(t)
  BY <1>1, ReturnsGoes, Leaves DEF ConnectRefused
<1>2. CASE Connect(t)
  BY <1>2, OpensMethods DEF Connect, At, Exclusive, Fits, MovedTo
<1>. QED
  BY <1>1, <1>2

LEMMA CheckOpenMethods ==
    ASSUME MethodsInv, NEW t \in Callers, CheckOpen(t)
    PROVE  MethodsInv'
<1>1. CASE stopped \/ attached # "yes"
  BY <1>1, ReturnsGoes, Leaves DEF CheckOpen
<1>2. CASE ~(stopped \/ attached # "yes")
  BY <1>2, OpensMethods DEF CheckOpen, Exclusive, Fits, MovedTo
<1>. QED
  BY <1>1, <1>2

LEMMA RequestMethods ==
    ASSUME MethodsInv, NEW t \in Callers, BeginRequest(t) \/ EndRequest(t) \/ RequestReturns(t)
    PROVE  MethodsInv'
<1>1. CASE BeginRequest(t)
  <2>1. thread[t].op \in {"connect", "interrupt", "rewind"}
    BY <1>1 DEF BeginRequest, MethodsInv, MethodsOrdered
  <2>. QED
    BY <1>1, <2>1, GoesOnMethods DEF BeginRequest, Inside, InProgress, Fits, MovedTo, shared
<1>2. CASE EndRequest(t)
  <2>1. thread[t].op \in {"connect", "interrupt", "rewind"}
    BY <1>2 DEF EndRequest, MethodsInv, MethodsOrdered
  <2>. QED
    BY <1>2, <2>1, GoesOnMethods DEF EndRequest, Inside, InProgress, Fits, MovedTo, shared
<1>3. CASE RequestReturns(t)
  BY <1>3, ReturnsMethods DEF RequestReturns, Inside, Exclusive
<1>. QED
  BY <1>1, <1>2, <1>3

LEMMA HandshakeMethods ==
    ASSUME MethodsInv, NEW t \in Callers,
           InitializeFails(t) \/ LoadFromResponse(t) \/ StoreFromResponse(t)
    PROVE  MethodsInv'
<1>1. CASE InitializeFails(t)
  BY <1>1, ReturnsMethods DEF InitializeFails, At, Inside, Exclusive
<1>2. CASE LoadFromResponse(t)
  <2>1. CASE Returns(t) /\ mu' = Unlock(mu)
    BY <1>2, <2>1, ReturnsMethods DEF LoadFromResponse, At, Inside, Exclusive
  <2>2. ASSUME NEW sid \in Sessions, UNCHANGED mu,
               thread' = [thread EXCEPT ![t] = [op |-> "connect", pc |-> "store", sid |-> sid]]
        PROVE  MethodsInv'
    <3>. DEFINE m == [op |-> "connect", pc |-> "store", sid |-> sid]
    <3>1. Goes(t, m)
      BY <2>2 DEF Goes
    <3>2. Fits(m) /\ m.op = thread[t].op /\ Inside(t) /\ InProgress(t)
          /\ UNCHANGED <<mu, stopped>>
      BY <1>2, <2>2 DEF LoadFromResponse, At, Fits, Inside, InProgress
    <3>. QED
      BY <3>1, <3>2, Continues
  <2>. QED
    BY <1>2, <2>1, <2>2 DEF LoadFromResponse
<1>3. CASE StoreFromResponse(t)
  BY <1>3, ReturnsMethods DEF StoreFromResponse, At, Inside, Exclusive
<1>. QED
  BY <1>1, <1>2, <1>3

LEMMA SendMethods ==
    ASSUME MethodsInv, NEW t \in Callers, CheckSend(t) \/ HookReturns(t) \/ WriteBlocks(t) \/ Write(t) \/ WriteFails(t)
    PROVE  MethodsInv'
<1>1. CASE CheckSend(t)
  <2>1. CASE stopped \/ attached = "no"
    BY <1>1, <2>1, ReturnsGoes, Leaves DEF CheckSend
  <2>2. CASE ~(stopped \/ attached = "no")
    <3>1. PICK l \in {"hook", "write"} : Goto(t, l)
      BY <1>1, <2>2 DEF CheckSend
    <3>. QED
      BY <1>1, <2>2, <3>1, OpensMethods DEF CheckSend, Exclusive, Fits, MovedTo
  <2>. QED
    BY <2>1, <2>2
<1>2. CASE HookReturns(t)
  <2>1. thread[t].op \in {"send", "tool_result"}
    BY <1>2 DEF HookReturns, MethodsInv, MethodsOrdered
  <2>2. CASE Goto(t, "write") /\ UNCHANGED mu
    BY <1>2, <2>1, <2>2, GoesOnMethods DEF HookReturns, Inside, InProgress, Fits, MovedTo
  <2>3. CASE Returns(t) /\ mu' = RUnlock(mu, t)
    BY <1>2, <2>1, <2>3, ReturnsMethods DEF HookReturns, Inside, Exclusive
  <2>. QED
    BY <1>2, <2>2, <2>3 DEF HookReturns
<1>3. CASE WriteBlocks(t)
  <2>1. thread[t].op \in {"send", "tool_result"}
    BY <1>3 DEF WriteBlocks, MethodsInv, MethodsOrdered
  <2>. QED
    BY <1>3, <2>1, GoesOnMethods DEF WriteBlocks, Inside, InProgress, Fits, MovedTo, shared
<1>4. CASE Write(t) \/ WriteFails(t)
  <2>1. thread[t].op \in {"send", "tool_result"}
    BY <1>4 DEF Write, WriteFails, MethodsInv, MethodsOrdered
  <2>. QED
    BY <1>4, <2>1, ReturnsMethods DEF Write, WriteFails, Inside, Exclusive
<1>. QED
  BY <1>1, <1>2, <1>3, <1>4

LEMMA CloseMethods ==
    ASSUME MethodsInv, NEW t \in Callers, Close(t) \/ CloseProtocol(t) \/ CloseTransport(t)
    PROVE  MethodsInv'
<1>1. CASE Close(t)
  <2>1. CASE stopped \/ attached = "no"
    BY <1>1, <2>1, ReturnsGoes, Leaves DEF Close
  <2>2. CASE ~(stopped \/ attached = "no")
    <3>1. PICK l \in {"closeProtocol", "closeTransport"} : Goto(t, l)
      BY <1>1, <2>2 DEF Close
    <3>2. Goes(t, MovedTo(t, l))
      BY <3>1, GotoGoes DEF MethodsInv
    <3>3. /\ thread[t].pc = "lock" /\ MovedTo(t, l).op = thread[t].op /\ Fits(MovedTo(t, l))
          /\ UNCHANGED mu /\ MovedTo(t, l).op \in Exclusive /\ HoldsLock(mu, t)
          /\ MovedTo(t, l).pc \in {"closeProtocol", "closeTransport"}
      BY <1>1, <2>2, <3>1 DEF Close, At, Fits, MovedTo, Exclusive
    <3>. QED
      BY <3>2, <3>3, Begins
  <2>. QED
    BY <2>1, <2>2
<1>2. CASE CloseProtocol(t)
  <2>1. thread[t].op = "close"
    BY <1>2 DEF CloseProtocol, MethodsInv, MethodsOrdered
  <2>. QED
    BY <1>2, <2>1, GoesOnMethods DEF CloseProtocol, Inside, Fits, MovedTo, shared
<1>3. CASE CloseTransport(t)
  <2>1. thread[t].op = "close"
    BY <1>3 DEF CloseTransport, MethodsInv, MethodsOrdered
  <2>. QED
    BY <1>3, <2>1, ReturnsMethods DEF CloseTransport, Inside, Exclusive
<1>. QED
  BY <1>1, <1>2, <1>3

-----------------------------------------------------------------------------
(* The receive loop, the CLI and the application leave methods and requests   *)
(* alone                                                                   *)

LEMMA LoopQuiet ==
    LoopStep => UNCHANGED <<mu, thread, stopped, call, pendingRequests>>
<1>. SUFFICES ASSUME LoopStep
              PROVE  UNCHANGED <<mu, thread, stopped, call, pendingRequests>>
  OBVIOUS
<1>1. CASE LoopStops \/ LoopReceives \/ LoadFromMessage \/ StoreFromMessage \/ Report
  BY <1>1 DEF LoopStops, LoopReceives, LoadFromMessage, StoreFromMessage, Report, protocol, shared
<1>2. CASE HandleMessage
  BY <1>2 DEF HandleMessage, shared, CP!ReceiveGarbage, CP!ReceiveResponse, CP!ReceiveRequest,
              CP!ReceiveStream, CP!Arrived, CP!callVars
<1>3. CASE HandleStep
  BY <1>3 DEF HandleStep, shared, CP!Deliver, CP!ReplyBlocks, CP!Reply, CP!Push, CP!DropOldest,
              CP!SendAfterDrop, CP!SendOnClosed, CP!CallbackReturns, CP!CallbackPanics, CP!callVars
<1>4. CASE HandleFails
  BY <1>4 DEF HandleFails, shared, CP!ErrorReturned, CP!callVars
<1>. QED
  BY <1>1, <1>2, <1>3, <1>4 DEF LoopStep

LEMMA EnvironmentQuiet ==
    TransportError \/ TakeError \/ Environment
        => UNCHANGED <<mu, thread, stopped, call, pendingRequests>>
<1>1. TransportError \/ TakeError => UNCHANGED <<mu, thread, stopped, call, pendingRequests>>
  BY DEF TransportError, TakeError, protocol, shared
<1>2. Environment => UNCHANGED <<mu, thread, stopped, call, pendingRequests>>
  BY DEF Environment, client, shared, CP!CLIStep, CP!CLIAnswers, CP!CLIEmits, CP!CLIReads,
         CP!TransportDown, CP!TakeMessage, CP!callVars
<1>. QED
  BY <1>1, <1>2

-----------------------------------------------------------------------------
(* Requests *)

LEMMA RequestsUntouched ==
    ASSUME RequestsInv, UNCHANGED <<call, pendingRequests>>,
           \A t \in Callers : thread'[t].pc = thread[t].pc \/ thread[t].pc # "request"
    PROVE  RequestsInv'
BY DEF RequestsInv, CallShapes, PendingOwned

\* Goroutine t leaves the request alone, and is not in it before or after.
LEMMA RequestsElsewhere ==
    ASSUME Shapes, RequestsInv, UNCHANGED <<call, pendingRequests>>, NEW t \in Callers, NEW m,
           Goes(t, m), thread[t].pc # "request"
    PROVE  RequestsInv'
<1>1. \A u \in Callers \ {t} : thread'[u] = thread[u]
  BY GoesFacts
<1>. QED
  BY <1>1, RequestsUntouched

\* The call of goroutine t moves to another place.
LEMMA CallMoves ==
    ASSUME CallShapes, NEW t \in Callers, NEW l, call' = [call EXCEPT ![t].pc = l]
    PROVE  /\ CallShapes'
           /\ call'[t].pc = l /\ call'[t].id = call[t].id
           /\ \A u \in Callers \ {t} : call'[u] = call[u]
<1>1. call[t] = [pc |-> call[t].pc, id |-> call[t].id, ch |-> call[t].ch]
  BY DEF CallShapes
<1>2. [call[t] EXCEPT !.pc = l] = [pc |-> l, id |-> call[t].id, ch |-> call[t].ch]
  BY <1>1
<1>3. call' = [call EXCEPT ![t] = [call[t] EXCEPT !.pc = l]]
  OBVIOUS
<1>. QED
  BY <1>2, <1>3 DEF CallShapes

LEMMA BeginRequests ==
    ASSUME Shapes, RequestsInv, NEW t \in Callers, BeginRequest(t)
    PROVE  RequestsInv'
<1>. DEFINE c == [pc |-> "made", id |-> CP!NewID, ch |-> Len(respChan) + 1]
<1>1. call' = [call EXCEPT ![t] = c] /\ UNCHANGED pendingRequests /\ call[t].pc = "idle"
  BY DEF BeginRequest, CP!Begin
<1>2. Goes(t, MovedTo(t, "request"))
  BY GotoGoes DEF BeginRequest
<1>3. thread'[t].pc = "request" /\ \A u \in Callers \ {t} : thread'[u] = thread[u]
  BY <1>2, GoesFacts DEF MovedTo
<1>4. CallShapes'
  BY <1>1 DEF RequestsInv, CallShapes
<1>5. \A u \in Callers \ {t} : call'[u] = call[u]
  BY <1>1 DEF RequestsInv, CallShapes
<1>6. PendingOwned'
  BY <1>1, <1>3, <1>5 DEF RequestsInv, PendingOwned, Registered
<1>. QED
  BY <1>4, <1>6 DEF RequestsInv

LEMMA StepRequests ==
    ASSUME RequestsInv, NEW t \in Callers, RequestStep(t) \/ RequestTimesOut(t)
    PROVE  RequestsInv'
<1>1. thread[t].pc = "request" /\ UNCHANGED thread
  BY DEF RequestStep, RequestTimesOut, client
<1>2. CASE CP!Register(t)
  <2>1. CallShapes' /\ call'[t].pc = "registered" /\ call'[t].id = call[t].id
        /\ \A u \in Callers \ {t} : call'[u] = call[u]
    BY <1>2, CallMoves DEF RequestsInv, CP!Register
  <2>2. call[t].pc = "made" /\ DOMAIN pendingRequests' = DOMAIN pendingRequests \cup {call[t].id}
    BY <1>2 DEF CP!Register
  <2>3. PendingOwned'
    BY <1>1, <2>1, <2>2 DEF RequestsInv, PendingOwned, Registered
  <2>. QED
    BY <2>1, <2>3 DEF RequestsInv
<1>3. ASSUME NEW l \in {"writing", "written", "waiting", "leaving"}, UNCHANGED pendingRequests,
             call' = [call EXCEPT ![t].pc = l]
      PROVE  RequestsInv'
  <2>1. CallShapes' /\ call'[t].pc = l /\ call'[t].id = call[t].id
        /\ \A u \in Callers \ {t} : call'[u] = call[u]
    BY <1>3, CallMoves DEF RequestsInv
  <2>2. PendingOwned'
    BY <1>1, <1>3, <2>1 DEF RequestsInv, PendingOwned, Registered
  <2>. QED
    BY <2>1, <2>2 DEF RequestsInv
<1>4. CASE CP!WriteBlocks(t) \/ CP!WriteRequest(t) \/ CP!Wait(t)
  BY <1>3, <1>4 DEF CP!WriteBlocks, CP!WriteRequest, CP!Wait
<1>5. CASE CP!WriteFails(t) \/ CP!TakeResponse(t) \/ CP!TimeOut(t)
  BY <1>3, <1>5 DEF CP!WriteFails, CP!TakeResponse, CP!TimeOut, CP!Leave
<1>. QED
  BY <1>2, <1>4, <1>5 DEF RequestStep, RequestTimesOut

LEMMA EndRequests ==
    ASSUME Shapes, RequestsInv, NEW t \in Callers, EndRequest(t)
    PROVE  RequestsInv'
<1>1. Goes(t, MovedTo(t, "response"))
  BY GotoGoes DEF EndRequest
<1>2. \A u \in Callers \ {t} : thread'[u] = thread[u]
  BY <1>1, GoesFacts
<1>3. CallShapes' /\ call'[t].pc = "idle" /\ \A u \in Callers \ {t} : call'[u] = call[u]
  BY CallMoves DEF EndRequest, CP!Unregister, RequestsInv
<1>4. DOMAIN pendingRequests' = DOMAIN pendingRequests \ {call[t].id}
  BY DEF EndRequest, CP!Unregister
<1>5. PendingOwned'
  BY <1>2, <1>3, <1>4 DEF RequestsInv, PendingOwned
<1>. QED
  BY <1>3, <1>5 DEF RequestsInv

\* Enter and the steps of a method outside SendControlRequest make no request.
LEMMA MethodsMakeNoRequest ==
    ASSUME Shapes, NEW t \in Callers,
           \/ \E op \in Methods : Enter(t, op)
           \/ ConnectRefused(t) \/ Connect(t) \/ CheckOpen(t) \/ RequestReturns(t)
           \/ InitializeFails(t) \/ LoadFromResponse(t) \/ StoreFromResponse(t)
           \/ CheckSend(t) \/ HookReturns(t) \/ WriteBlocks(t) \/ Write(t) \/ WriteFails(t)
           \/ Close(t) \/ CloseProtocol(t) \/ CloseTransport(t)
    PROVE  /\ UNCHANGED <<call, pendingRequests>>
           /\ thread[t].pc # "request"
           /\ \E m : Goes(t, m)
<1>1. CASE \E op \in Methods : Enter(t, op)
  <2>1. PICK op \in Methods : Enter(t, op)
    BY <1>1
  <2>2. Goes(t, [op |-> op, pc |-> "lock", sid |-> None])
    BY <2>1 DEF Enter, Goes
  <2>. QED
    BY <2>1, <2>2 DEF Enter, Idle, protocol
<1>2. CASE ConnectRefused(t) \/ Connect(t)
  BY <1>2, ReturnsGoes, GotoGoes
     DEF ConnectRefused, Connect, At, protocol, CP!SetCallback, CP!callVars
<1>3. CASE CheckOpen(t) \/ RequestReturns(t)
  BY <1>3, ReturnsGoes, GotoGoes DEF CheckOpen, RequestReturns, protocol
<1>4. CASE InitializeFails(t) \/ StoreFromResponse(t)
  BY <1>4, ReturnsGoes
     DEF InitializeFails, StoreFromResponse, At, protocol, TransportCloses,
         CP!TransportDown, CP!callVars
<1>5. CASE LoadFromResponse(t)
  <2>1. \E m : Goes(t, m)
    <3>1. CASE Returns(t)
      BY <3>1, ReturnsGoes
    <3>2. ASSUME NEW sid \in Sessions,
                 thread' = [thread EXCEPT ![t] = [op |-> "connect", pc |-> "store", sid |-> sid]]
          PROVE  Goes(t, [op |-> "connect", pc |-> "store", sid |-> sid])
      BY <3>2 DEF Goes
    <3>. QED
      BY <1>5, <3>1, <3>2 DEF LoadFromResponse
  <2>. QED
    BY <1>5, <2>1 DEF LoadFromResponse, At, protocol
<1>6. CASE CheckSend(t)
  <2>1. Returns(t) \/ \E l \in {"hook", "write"} : Goto(t, l)
    BY <1>6 DEF CheckSend
  <2>. QED
    BY <1>6, <2>1, ReturnsGoes, GotoGoes DEF CheckSend, protocol
<1>7. CASE HookReturns(t) \/ WriteBlocks(t) \/ Write(t) \/ WriteFails(t)
  BY <1>7, ReturnsGoes, GotoGoes
     DEF HookReturns, WriteBlocks, Write, WriteFails, CP!WriteMessage, CP!callVars, protocol
<1>8. CASE Close(t)
  <2>1. Returns(t) \/ \E l \in {"closeProtocol", "closeTransport"} : Goto(t, l)
    BY <1>8 DEF Close
  <2>. QED
    BY <1>8, <2>1, ReturnsGoes, GotoGoes DEF Close, At, protocol
<1>9. CASE CloseProtocol(t) \/ CloseTransport(t)
  BY <1>9, ReturnsGoes, GotoGoes
     DEF CloseProtocol, CloseTransport, protocol, TransportCloses, CP!Close,
         CP!TransportDown, CP!callVars
<1>. QED
  BY <1>1, <1>2, <1>3, <1>4, <1>5, <1>6, <1>7, <1>8, <1>9

-----------------------------------------------------------------------------
(* The invariant is inductive *)

LEMMA StepMethods ==
    ASSUME IInv, Next
    PROVE  MethodsInv'
<1>1. ASSUME NEW t \in Callers, NEW op \in Methods, Enter(t, op)
      PROVE  MethodsInv'
  BY <1>1, EnterMethods DEF IInv
<1>2. ASSUME NEW t \in Callers, MethodStep(t)
      PROVE  MethodsInv'
  <2>1. CASE AnnounceLock(t)
    BY <2>1, Announces DEF IInv
  <2>2. CASE ConnectRefused(t) \/ Connect(t)
    BY <2>2, ConnectMethods DEF IInv
  <2>3. CASE CheckOpen(t)
    BY <2>3, CheckOpenMethods DEF IInv
  <2>4. CASE BeginRequest(t) \/ EndRequest(t) \/ RequestReturns(t)
    BY <2>4, RequestMethods DEF IInv
  <2>5. CASE RequestStep(t)
    BY <2>5, MethodsUntouched DEF IInv, RequestStep, client, shared
  <2>6. CASE InitializeFails(t) \/ LoadFromResponse(t) \/ StoreFromResponse(t)
    BY <2>6, HandshakeMethods DEF IInv
  <2>7. CASE CheckSend(t) \/ HookReturns(t) \/ WriteBlocks(t) \/ Write(t) \/ WriteFails(t)
    BY <2>7, SendMethods DEF IInv
  <2>8. CASE Close(t) \/ CloseProtocol(t) \/ CloseTransport(t)
    BY <2>8, CloseMethods DEF IInv
  <2>. QED
    BY <1>2, <2>1, <2>2, <2>3, <2>4, <2>5, <2>6, <2>7, <2>8 DEF MethodStep
<1>3. ASSUME NEW t \in Callers, RequestTimesOut(t)
      PROVE  MethodsInv'
  BY <1>3, MethodsUntouched DEF IInv, RequestTimesOut, client, shared
<1>4. CASE LoopStep \/ TransportError \/ TakeError \/ Environment
  BY <1>4, LoopQuiet, EnvironmentQuiet, MethodsUntouched DEF IInv
<1>. QED
  BY <1>1, <1>2, <1>3, <1>4 DEF Next

LEMMA StepRequestsInv ==
    ASSUME IInv, Next
    PROVE  RequestsInv'
<1>1. Shapes /\ RequestsInv
  BY DEF IInv, MethodsInv
<1>2. ASSUME NEW t \in Callers, (\E op \in Methods : Enter(t, op)) \/ MethodStep(t)
      PROVE  RequestsInv'
  <2>1. CASE AnnounceLock(t)
    BY <1>1, <2>1, RequestsUntouched DEF AnnounceLock, protocol
  <2>2. CASE BeginRequest(t)
    BY <1>1, <2>2, BeginRequests
  <2>3. CASE RequestStep(t)
    BY <1>1, <2>3, StepRequests
  <2>4. CASE EndRequest(t)
    BY <1>1, <2>4, EndRequests
  <2>5. CASE \/ \E op \in Methods : Enter(t, op)
             \/ ConnectRefused(t) \/ Connect(t) \/ CheckOpen(t) \/ RequestReturns(t)
             \/ InitializeFails(t) \/ LoadFromResponse(t) \/ StoreFromResponse(t)
             \/ CheckSend(t) \/ HookReturns(t) \/ WriteBlocks(t) \/ Write(t) \/ WriteFails(t)
             \/ Close(t) \/ CloseProtocol(t) \/ CloseTransport(t)
    BY <1>1, <2>5, MethodsMakeNoRequest, RequestsElsewhere
  <2>. QED
    BY <1>2, <2>1, <2>2, <2>3, <2>4, <2>5 DEF MethodStep
<1>3. ASSUME NEW t \in Callers, RequestTimesOut(t)
      PROVE  RequestsInv'
  BY <1>1, <1>3, StepRequests
<1>4. CASE LoopStep \/ TransportError \/ TakeError \/ Environment
  BY <1>1, <1>4, LoopQuiet, EnvironmentQuiet, RequestsUntouched
<1>. QED
  BY <1>2, <1>3, <1>4 DEF Next

LEMMA StutterInv ==
    ASSUME IInv, UNCHANGED vars
    PROVE  IInv'
<1>1. UNCHANGED <<mu, thread, stopped, call, pendingRequests>>
  BY DEF vars, protocol, client, shared
<1>. QED
  BY <1>1, MethodsUntouched, RequestsUntouched DEF IInv

-----------------------------------------------------------------------------
\* Who holds the client's lock, where each method may be, and whose requests
\* are pending: the invariant the two theorems below rest on.
THEOREM Invariant == Spec => []IInv
<1>1. Init => IInv
  BY InitInv
<1>2. IInv /\ [Next]_vars => IInv'
  BY StepMethods, StepRequestsInv, StutterInv DEF IInv
<1>. QED
  BY <1>1, <1>2, PTL DEF Spec

\* Whatever the CLI sends and however many goroutines call methods: while
\* Connect waits for the answer to initialize nothing else is written.
THEOREM InitializesAlone == Spec => []InitializeAlone
<1>1. IInv => InitializeAlone
  BY InitializeIsAlone
<1>. QED
  BY <1>1, Invariant, PTL

\* Close never closes the handler and the transport under a method that is
\* using them, and leaves no request pending.
THEOREM ClosesLast == Spec => []CloseIsLast
<1>1. IInv => CloseIsLast
  BY NothingAfterClose
<1>. QED
  BY <1>1, Invariant, PTL

-----------------------------------------------------------------------------
(* The session id *)

LEMMA MethodKeepsSession ==
    ASSUME NEW t \in Callers, MethodStep(t), sessionID # None
    PROVE  sessionID' = sessionID
<1>1. CASE StoreFromResponse(t)
  BY <1>1 DEF StoreFromResponse, CompareAndSwap
<1>2. CASE BeginRequest(t) \/ RequestStep(t) \/ EndRequest(t) \/ CloseProtocol(t)
  BY <1>2 DEF BeginRequest, RequestStep, EndRequest, CloseProtocol, client, shared
<1>3. CASE \/ AnnounceLock(t) \/ ConnectRefused(t) \/ Connect(t) \/ CheckOpen(t)
           \/ RequestReturns(t) \/ InitializeFails(t) \/ LoadFromResponse(t)
           \/ CheckSend(t) \/ HookReturns(t) \/ WriteBlocks(t) \/ Write(t) \/ WriteFails(t) \/ Close(t) \/ CloseTransport(t)
  BY <1>3 DEF AnnounceLock, ConnectRefused, Connect, CheckOpen, RequestReturns, InitializeFails,
              LoadFromResponse, CheckSend, HookReturns, WriteBlocks, Write, WriteFails, Close,
              CloseTransport, shared
<1>. QED
  BY <1>1, <1>2, <1>3 DEF MethodStep

LEMMA LoopKeepsSession ==
    ASSUME LoopStep, sessionID # None
    PROVE  sessionID' = sessionID
<1>1. CASE StoreFromMessage
  BY <1>1 DEF StoreFromMessage, CompareAndSwap
<1>2. CASE \/ LoopStops \/ LoopReceives \/ LoadFromMessage \/ HandleMessage
           \/ HandleStep \/ HandleFails \/ Report
  BY <1>2 DEF LoopStops, LoopReceives, LoadFromMessage, HandleMessage, HandleStep, HandleFails,
              Report, shared
<1>. QED
  BY <1>1, <1>2 DEF LoopStep

\* Connect and the receive loop may each find a session id, in messages that
\* cross; the first one found is the client's for good.
THEOREM SessionStays == Spec => SessionIDStable
<1>1. ASSUME Next, sessionID # None
      PROVE  sessionID' = sessionID
  <2>1. ASSUME NEW t \in Callers, NEW op \in Methods, Enter(t, op)
        PROVE  sessionID' = sessionID
    BY <2>1 DEF Enter
  <2>2. ASSUME NEW t \in Callers, RequestTimesOut(t)
        PROVE  sessionID' = sessionID
    BY <2>2 DEF RequestTimesOut, client, shared
  <2>3. CASE TransportError \/ TakeError \/ Environment
    BY <2>3 DEF TransportError, TakeError, Environment, client, shared
  <2>. QED
    BY <1>1, <2>1, <2>2, <2>3, MethodKeepsSession, LoopKeepsSession DEF Next
<1>2. [Next]_vars => [sessionID # None => sessionID' = sessionID]_vars
  BY <1>1
<1>. QED
  BY <1>2, PTL DEF Spec, SessionIDStable

-----------------------------------------------------------------------------
(* Types *)

ThreadTyped ==
    thread \in [Callers -> [op : Methods \cup {None}, pc : MethodPCs, sid : Sessions \cup {None}]]
LoopTyped == loop \in [pc : LoopPCs, sid : Sessions \cup {None}]
CountersTyped == errors \in 0 .. ErrCap /\ failures \in 0 .. MaxErrors /\ ops \in 0 .. MaxOps
FlagsTyped == stopped \in BOOLEAN /\ attached \in {"no", "failed", "yes"}
              /\ sessionID \in Sessions \cup {None}

\* The steps that set no variable of the client but thread and mu.
Quiet(t) ==
    \/ AnnounceLock(t) \/ CheckOpen(t) \/ BeginRequest(t) \/ EndRequest(t) \/ RequestReturns(t)
    \/ InitializeFails(t) \/ LoadFromResponse(t) \/ CheckSend(t) \/ HookReturns(t) \/ WriteBlocks(t) \/ Write(t) \/ WriteFails(t)
    \/ CloseProtocol(t) \/ CloseTransport(t) \/ RequestStep(t) \/ RequestTimesOut(t)

LEMMA QuietFacts ==
    ASSUME NEW t \in Callers, Quiet(t)
    PROVE  UNCHANGED <<stopped, attached, sessionID, loop, errors, failures, ops>>
<1>1. CASE AnnounceLock(t) \/ CheckOpen(t) \/ RequestReturns(t) \/ InitializeFails(t) \/ LoadFromResponse(t)
           \/ CheckSend(t) \/ HookReturns(t) \/ WriteBlocks(t) \/ Write(t) \/ WriteFails(t) \/ CloseTransport(t)
  BY <1>1 DEF AnnounceLock, CheckOpen, RequestReturns, InitializeFails, LoadFromResponse, CheckSend,
     HookReturns, WriteBlocks, Write, WriteFails, CloseTransport, shared, reports
<1>2. CASE BeginRequest(t) \/ EndRequest(t) \/ CloseProtocol(t) \/ RequestStep(t) \/ RequestTimesOut(t)
  BY <1>2 DEF BeginRequest, EndRequest, CloseProtocol, RequestStep, RequestTimesOut, client,
     shared, reports
<1>. QED
  BY <1>1, <1>2 DEF Quiet

LEMMA MutexKept ==
    ASSUME mu \in MutexOver(Callers), NEW t \in Callers
    PROVE  {Announce(mu, t), Unlock(mu), RLock(mu, t), RUnlock(mu, t)} \subseteq MutexOver(Callers)
<1>1. /\ mu = [writer |-> mu.writer, readers |-> mu.readers, blocked |-> mu.blocked]
      /\ mu.writer \in {T \in SUBSET Callers : Cardinality(T) <= 1}
      /\ mu.readers \in SUBSET Callers /\ mu.blocked \in SUBSET Callers
  BY DEF MutexOver
<1>2. {t} \in {T \in SUBSET Callers : Cardinality(T) <= 1}
  BY FS_Singleton
<1>3. {} \in {T \in SUBSET Callers : Cardinality(T) <= 1}
  BY FS_EmptySet
<1>4. Announce(mu, t) \in MutexOver(Callers)
  BY <1>1, <1>2 DEF Announce, MutexOver
<1>5. Unlock(mu) \in MutexOver(Callers)
  BY <1>1, <1>3 DEF Unlock, MutexOver
<1>6. RLock(mu, t) \in MutexOver(Callers)
  BY <1>1 DEF RLock, MutexOver
<1>7. RUnlock(mu, t) \in MutexOver(Callers)
  BY <1>1 DEF RUnlock, MutexOver
<1>. QED
  BY <1>4, <1>5, <1>6, <1>7

\* A method does one operation on the mutex, or none.
LEMMA MethodLocks ==
    ASSUME NEW t \in Callers,
           (\E op \in Methods : Enter(t, op)) \/ MethodStep(t) \/ RequestTimesOut(t)
    PROVE  mu' \in {mu, Announce(mu, t), Unlock(mu), RLock(mu, t), RUnlock(mu, t)}
<1>1. CASE \E op \in Methods : Enter(t, op)
  BY <1>1 DEF Enter
<1>2. CASE AnnounceLock(t) \/ ConnectRefused(t) \/ Connect(t) \/ CheckOpen(t) \/ RequestReturns(t)
  BY <1>2 DEF AnnounceLock, ConnectRefused, Connect, CheckOpen, RequestReturns
<1>3. CASE InitializeFails(t) \/ LoadFromResponse(t) \/ StoreFromResponse(t)
           \/ CheckSend(t) \/ HookReturns(t) \/ WriteBlocks(t) \/ Write(t) \/ WriteFails(t) \/ Close(t) \/ CloseTransport(t)
  BY <1>3 DEF InitializeFails, LoadFromResponse, StoreFromResponse, CheckSend, HookReturns,
     WriteBlocks, Write, WriteFails, Close, CloseTransport, shared
<1>4. CASE BeginRequest(t) \/ EndRequest(t) \/ CloseProtocol(t) \/ RequestStep(t) \/ RequestTimesOut(t)
  BY <1>4 DEF BeginRequest, EndRequest, CloseProtocol, RequestStep, RequestTimesOut, client, shared
<1>. QED
  BY <1>1, <1>2, <1>3, <1>4 DEF MethodStep

LEMMA MutexStep ==
    ASSUME mu \in MutexOver(Callers), [Next]_vars
    PROVE  mu' \in MutexOver(Callers)
<1>1. CASE UNCHANGED vars
  BY <1>1 DEF vars, client, shared
<1>2. CASE LoopStep \/ TransportError \/ TakeError \/ Environment
  BY <1>2, LoopQuiet, EnvironmentQuiet
<1>3. ASSUME NEW t \in Callers,
             (\E op \in Methods : Enter(t, op)) \/ MethodStep(t) \/ RequestTimesOut(t)
      PROVE  mu' \in MutexOver(Callers)
  BY <1>3, MethodLocks, MutexKept
<1>. QED
  BY <1>1, <1>2, <1>3 DEF Next

\* A method stays where it is, goes on, returns, is called, or has a session id.
LEMMA ThreadStep ==
    ASSUME ThreadTyped, [Next]_vars
    PROVE  ThreadTyped'
<1>. DEFINE R == [op : Methods \cup {None}, pc : MethodPCs, sid : Sessions \cup {None}]
<1>1. ASSUME NEW t \in Callers, NEW l \in MethodPCs, Goto(t, l)
      PROVE  ThreadTyped'
  <2>1. [thread[t] EXCEPT !.pc = l] \in R
    BY DEF ThreadTyped
  <2>2. thread' = [thread EXCEPT ![t] = [thread[t] EXCEPT !.pc = l]]
    BY <1>1 DEF Goto
  <2>. HIDE DEF R
  <2>3. thread \in [Callers -> R]
    BY DEF ThreadTyped, R
  <2>4. thread' \in [Callers -> R]
    BY <2>1, <2>2, <2>3
  <2>. QED
    BY <2>4 DEF ThreadTyped, R
<1>2. ASSUME NEW t \in Callers, NEW m \in R, thread' = [thread EXCEPT ![t] = m]
      PROVE  ThreadTyped'
  <2>. HIDE DEF R
  <2>1. thread \in [Callers -> R]
    BY DEF ThreadTyped, R
  <2>2. thread' \in [Callers -> R]
    BY <1>2, <2>1
  <2>. QED
    BY <2>2 DEF ThreadTyped, R
<1>3. Idle \in R
  BY DEF Idle, MethodPCs
<1>4. ASSUME NEW t \in Callers, Returns(t)
      PROVE  ThreadTyped'
  BY <1>2, <1>3, <1>4 DEF Returns
<1>5. CASE UNCHANGED thread
  BY <1>5 DEF ThreadTyped
<1>6. ASSUME NEW t \in Callers, NEW op \in Methods, Enter(t, op)
      PROVE  ThreadTyped'
  <2>1. [op |-> op, pc |-> "lock", sid |-> None] \in R
    BY DEF MethodPCs
  <2>. QED
    BY <1>2, <1>6, <2>1 DEF Enter
<1>7. ASSUME NEW t \in Callers, LoadFromResponse(t)
      PROVE  ThreadTyped'
  <2>1. ASSUME NEW sid \in Sessions,
               thread' = [thread EXCEPT ![t] = [op |-> "connect", pc |-> "store", sid |-> sid]]
        PROVE  ThreadTyped'
    <3>1. thread[t].op = "connect" /\ thread[t].op \in Methods \cup {None}
      BY <1>7 DEF LoadFromResponse, At, ThreadTyped
    <3>2. [op |-> "connect", pc |-> "store", sid |-> sid] \in R
      BY <3>1 DEF MethodPCs
    <3>. QED
      BY <1>2, <2>1, <3>2
  <2>. QED
    BY <1>4, <1>7, <2>1 DEF LoadFromResponse
<1>8. ASSUME NEW t \in Callers, MethodStep(t) \/ RequestTimesOut(t), ~LoadFromResponse(t)
      PROVE  UNCHANGED thread \/ Returns(t) \/ \E l \in MethodPCs : Goto(t, l)
  <2>1. CASE AnnounceLock(t) \/ ConnectRefused(t) \/ Connect(t) \/ CheckOpen(t) \/ BeginRequest(t)
             \/ RequestStep(t) \/ EndRequest(t) \/ RequestReturns(t) \/ RequestTimesOut(t)
    BY <2>1 DEF AnnounceLock, ConnectRefused, Connect, CheckOpen, BeginRequest, RequestStep,
       EndRequest, RequestReturns, RequestTimesOut, client, MethodPCs
  <2>2. CASE InitializeFails(t) \/ StoreFromResponse(t) \/ CheckSend(t) \/ HookReturns(t) \/ WriteBlocks(t) \/ Write(t) \/ WriteFails(t)
             \/ Close(t) \/ CloseProtocol(t) \/ CloseTransport(t)
    BY <2>2 DEF InitializeFails, StoreFromResponse, CheckSend, HookReturns, WriteBlocks,
       Write, WriteFails, Close, CloseProtocol, CloseTransport, MethodPCs
  <2>. QED
    BY <1>8, <2>1, <2>2 DEF MethodStep
<1>9. CASE UNCHANGED vars \/ LoopStep \/ TransportError \/ TakeError \/ Environment
  BY <1>5, <1>9, LoopQuiet, EnvironmentQuiet DEF vars, client
<1>. QED
  BY <1>1, <1>4, <1>5, <1>6, <1>7, <1>8, <1>9 DEF Next

\* The receive loop moves by its own steps, and Connect starts it.
LEMMA LoopStepTyped ==
    ASSUME LoopTyped, [Next]_vars
    PROVE  LoopTyped'
<1>1. ASSUME NEW l \in LoopPCs, NEW sid \in Sessions \cup {None}, loop' = [pc |-> l, sid |-> sid]
      PROVE  LoopTyped'
  BY <1>1 DEF LoopTyped
<1>2. CASE UNCHANGED loop
  BY <1>2 DEF LoopTyped
<1>3. CASE LoopStops \/ LoopReceives \/ StoreFromMessage \/ HandleMessage \/ HandleStep
           \/ HandleFails \/ Report \/ TransportError
  <2>1. \E l \in LoopPCs : loop' = [pc |-> l, sid |-> None]
    BY <1>3 DEF LoopStops, LoopReceives, StoreFromMessage, HandleMessage, HandleStep,
       HandleFails, Report, TransportError, LoopGoto, LoopPCs
  <2>. QED
    BY <1>1, <2>1
<1>4. CASE LoadFromMessage
  <2>1. \E l \in LoopPCs, sid \in Sessions \cup {None} : loop' = [pc |-> l, sid |-> sid]
    BY <1>4 DEF LoadFromMessage, LoopGoto, LoopPCs
  <2>. QED
    BY <1>1, <2>1
<1>5. ASSUME NEW t \in Callers,
             Quiet(t) \/ (\E op \in Methods : Enter(t, op)) \/ ConnectRefused(t)
             \/ StoreFromResponse(t) \/ Close(t)
      PROVE  LoopTyped'
  BY <1>2, <1>5, QuietFacts DEF Enter, ConnectRefused, StoreFromResponse, Close
<1>6. ASSUME NEW t \in Callers, Connect(t)
      PROVE  LoopTyped'
  BY <1>6 DEF Connect, LoopTyped, LoopPCs
<1>7. CASE UNCHANGED vars \/ TakeError \/ Environment
  BY <1>2, <1>7 DEF vars, TakeError, Environment, client
<1>. QED
  BY <1>3, <1>4, <1>5, <1>6, <1>7 DEF Next, MethodStep, LoopStep, Quiet

LEMMA FlagsStep ==
    ASSUME FlagsTyped, ThreadTyped, LoopTyped, [Next]_vars
    PROVE  FlagsTyped'
<1>. USE DEF FlagsTyped
<1>1. CASE UNCHANGED <<stopped, attached, sessionID>>
  BY <1>1
<1>2. ASSUME NEW t \in Callers, Quiet(t) \/ (\E op \in Methods : Enter(t, op))
      PROVE  FlagsTyped'
  BY <1>1, <1>2, QuietFacts DEF Enter
<1>3. ASSUME NEW t \in Callers, ConnectRefused(t) \/ Connect(t) \/ Close(t)
      PROVE  FlagsTyped'
  BY <1>3 DEF ConnectRefused, Connect, Close
<1>4. ASSUME NEW t \in Callers, StoreFromResponse(t)
      PROVE  FlagsTyped'
  <2>1. thread[t].sid \in Sessions \cup {None}
    BY DEF ThreadTyped
  <2>. QED
    BY <1>4, <2>1 DEF StoreFromResponse, CompareAndSwap
<1>5. CASE StoreFromMessage
  <2>1. loop.sid \in Sessions \cup {None}
    BY DEF LoopTyped
  <2>. QED
    BY <1>5, <2>1 DEF StoreFromMessage, CompareAndSwap
<1>6. CASE \/ UNCHANGED vars \/ LoopStops \/ LoopReceives \/ LoadFromMessage \/ HandleMessage
           \/ HandleStep \/ HandleFails \/ Report \/ TransportError \/ TakeError \/ Environment
  BY <1>1, <1>6 DEF vars, LoopStops, LoopReceives, LoadFromMessage, HandleMessage, HandleStep,
     HandleFails, Report, TransportError, TakeError, Environment, client, shared
<1>. QED
  BY <1>2, <1>3, <1>4, <1>5, <1>6 DEF Next, MethodStep, LoopStep, Quiet

LEMMA CountersStep ==
    ASSUME CountersTyped, [Next]_vars
    PROVE  CountersTyped'
<1>. USE ClientAssumption DEF CountersTyped
<1>1. CASE UNCHANGED <<errors, failures, ops>>
  BY <1>1
<1>2. ASSUME NEW t \in Callers, NEW op \in Methods, Enter(t, op)
      PROVE  CountersTyped'
  BY <1>2 DEF Enter, reports
<1>3. ASSUME NEW t \in Callers,
             Quiet(t) \/ ConnectRefused(t) \/ Connect(t) \/ StoreFromResponse(t) \/ Close(t)
      PROVE  CountersTyped'
  BY <1>1, <1>3, QuietFacts DEF ConnectRefused, Connect, StoreFromResponse, Close, reports
<1>4. CASE TransportError
  BY <1>4 DEF TransportError
<1>5. CASE Report
  BY <1>5 DEF Report
<1>6. CASE TakeError
  BY <1>6 DEF TakeError
<1>7. CASE \/ UNCHANGED vars \/ LoopStops \/ LoopReceives \/ LoadFromMessage \/ StoreFromMessage
           \/ HandleMessage \/ HandleStep \/ HandleFails \/ Environment
  BY <1>1, <1>7 DEF vars, LoopStops, LoopReceives, LoadFromMessage, StoreFromMessage, HandleMessage,
     HandleStep, HandleFails, Environment, client, reports
<1>. QED
  BY <1>2, <1>3, <1>4, <1>5, <1>6, <1>7 DEF Next, MethodStep, LoopStep, Quiet

\* The mutex has one writer at most, every method and the receive loop are at
\* a place of theirs, and errChan never holds more than its capacity.
THEOREM ClientTypeCorrect == Spec => []TypeOK
<1>. DEFINE Inv == /\ mu \in MutexOver(Callers)
                   /\ ThreadTyped /\ LoopTyped /\ FlagsTyped /\ CountersTyped
<1>1. Init => Inv
  <2>. SUFFICES ASSUME Init PROVE Inv
    OBVIOUS
  <2>1. mu \in MutexOver(Callers)
    BY FS_EmptySet DEF Init, Unlocked, MutexOver
  <2>2. ThreadTyped /\ LoopTyped /\ FlagsTyped
    BY DEF Init, Idle, ThreadTyped, LoopTyped, FlagsTyped, MethodPCs, LoopPCs
  <2>3. CountersTyped
    BY ClientAssumption DEF Init, CountersTyped
  <2>. QED
    BY <2>1, <2>2, <2>3
<1>2. Inv /\ [Next]_vars => Inv'
  BY MutexStep, ThreadStep, LoopStepTyped, FlagsStep, CountersStep
<1>3. Inv => TypeOK
  BY DEF ThreadTyped, LoopTyped, FlagsTyped, CountersTyped, TypeOK
<1>. QED
  BY <1>1, <1>2, <1>3, PTL DEF Spec

-----------------------------------------------------------------------------
(* The handler under the client: every step of the client is a step of the *)
(* handler or leaves it alone, so that what is proved about ControlProtocol *)
(* holds of the handler as the client uses it.                             *)

LEMMA MethodHandles ==
    ASSUME NEW t \in Callers, ~crashed,
           (\E op \in Methods : Enter(t, op)) \/ MethodStep(t) \/ RequestTimesOut(t)
    PROVE  CP!Next \/ UNCHANGED protocol
<1>1. CASE \/ \E op \in Methods : Enter(t, op)
           \/ AnnounceLock(t) \/ ConnectRefused(t) \/ CheckOpen(t) \/ RequestReturns(t)
           \/ LoadFromResponse(t) \/ StoreFromResponse(t)
           \/ CheckSend(t) \/ HookReturns(t) \/ WriteBlocks(t) \/ WriteFails(t) \/ Close(t)
  BY <1>1 DEF Enter, AnnounceLock, ConnectRefused, CheckOpen, RequestReturns, LoadFromResponse,
     StoreFromResponse, CheckSend, HookReturns, WriteBlocks, WriteFails, Close
<1>2. CASE BeginRequest(t) \/ RequestStep(t) \/ EndRequest(t) \/ RequestTimesOut(t)
  <2>1. CP!CallerStep(t)
    BY <1>2 DEF BeginRequest, RequestStep, EndRequest, RequestTimesOut, CP!CallerStep
  <2>. QED
    BY <2>1 DEF CP!Next
<1>3. CASE Connect(t) \/ Write(t) \/ CloseProtocol(t)
  <2>1. CP!UserStep \/ UNCHANGED protocol
    BY <1>3 DEF Connect, Write, CloseProtocol, CP!UserStep, CP!CallbackKinds
  <2>. QED
    BY <2>1 DEF CP!Next
<1>4. CASE InitializeFails(t) \/ CloseTransport(t)
  <2>1. CP!CLIStep \/ UNCHANGED protocol
    BY <1>4 DEF InitializeFails, CloseTransport, TransportCloses, CP!CLIStep
  <2>. QED
    BY <2>1 DEF CP!Next
<1>. QED
  BY <1>1, <1>2, <1>3, <1>4 DEF MethodStep

LEMMA LoopHandles ==
    ASSUME ~crashed, LoopStep
    PROVE  CP!Next \/ UNCHANGED protocol
<1>1. CASE LoopStops \/ LoopReceives \/ LoadFromMessage \/ StoreFromMessage \/ Report
  BY <1>1 DEF LoopStops, LoopReceives, LoadFromMessage, StoreFromMessage, Report
<1>2. CASE HandleMessage \/ HandleStep \/ HandleFails
  <2>1. CP!HandlerStep
    BY <1>2 DEF HandleMessage, HandleStep, HandleFails, CP!HandlerStep
  <2>. QED
    BY <2>1 DEF CP!Next
<1>. QED
  BY <1>1, <1>2 DEF LoopStep

LEMMA ClientHandles == [Next]_vars => [CP!Next]_(CP!vars)
<1>1. UNCHANGED protocol => UNCHANGED CP!vars
  BY DEF protocol, CP!vars, CP!callVars, CP!queueVars, CP!userVars, CP!cliVars
<1>2. ASSUME Next PROVE CP!Next \/ UNCHANGED protocol
  <2>1. CASE Environment
    <3>1. CP!CLIStep \/ CP!UserStep
      BY <2>1 DEF Environment, CP!UserStep
    <3>. QED
      BY <1>2, <3>1 DEF Next, CP!Next
  <2>2. CASE TransportError \/ TakeError
    BY <2>2 DEF TransportError, TakeError
  <2>. QED
    BY <1>2, <2>1, <2>2, MethodHandles, LoopHandles DEF Next
<1>3. UNCHANGED vars => UNCHANGED protocol
  BY DEF vars
<1>. QED
  BY <1>1, <1>2, <1>3

\* Whatever the methods, the receive loop and the application do, the handler
\* of a client is used as ControlProtocol says: one goroutine in HandleIncoming,
\* one request of a caller at a time, callbacks set before the first message.
THEOREM ClientImplementsHandler == Spec => CP!Spec
<1>1. Init => CP!Init
  BY DEF Init
<1>. QED
  BY <1>1, ClientHandles, PTL DEF Spec, CP!Spec

-----------------------------------------------------------------------------
\* The handler of the client, with what was proved about it.
PP == INSTANCE ControlProtocol_proofs

LEMMA HandlerBounds == PP!BoundsAssumption
BY ClientAssumption DEF PP!BoundsAssumption

(* Both instances name the same actions.                                   *)

LEMMA SameInit == CP!Init => PP!Init
BY DEF CP!Init, PP!Init, CP!Resting, PP!Resting, CP!Nothing, PP!Nothing, CP!CallbackKinds,
   PP!CallbackKinds, CP!Requests, PP!Requests

LEMMA SameCallerSteps ==
    ASSUME NEW c \in Callers, CP!CallerStep(c)
    PROVE  PP!CallerStep(c)
BY DEF CP!CallerStep, PP!CallerStep, CP!Begin, PP!Begin, CP!NewID, PP!NewID, CP!Register,
   PP!Register, CP!WriteBlocks, PP!WriteBlocks, CP!WriteRequest, PP!WriteRequest, CP!WriteLine,
   PP!WriteLine, CP!WriteFails, PP!WriteFails, CP!Wait,
   PP!Wait, CP!TakeResponse, PP!TakeResponse, CP!TimeOut, PP!TimeOut, CP!Unregister,
   PP!Unregister, CP!Leave, PP!Leave, CP!callVars, PP!callVars, CP!queueVars, PP!queueVars,
   CP!userVars, PP!userVars, CP!cliVars, PP!cliVars

LEMMA SameHandlerSteps == CP!HandlerStep => PP!HandlerStep
BY DEF CP!HandlerStep, PP!HandlerStep, CP!ReceiveGarbage, PP!ReceiveGarbage, CP!ReceiveResponse,
   PP!ReceiveResponse, CP!ReceiveRequest, PP!ReceiveRequest, CP!ReceiveStream, PP!ReceiveStream,
   CP!Deliver, PP!Deliver, CP!CallbackReturns, PP!CallbackReturns, CP!CallbackPanics,
   PP!CallbackPanics, CP!Verdicts, PP!Verdicts, CP!ReplyBlocks, PP!ReplyBlocks, CP!Reply, PP!Reply,
   CP!WriteLine, PP!WriteLine, CP!Push,
   PP!Push, CP!DropOldest, PP!DropOldest, CP!SendAfterDrop, PP!SendAfterDrop, CP!SendOnClosed,
   PP!SendOnClosed, CP!ErrorReturned, PP!ErrorReturned, CP!Arrived, PP!Arrived, CP!Finish,
   PP!Finish, CP!Enqueue, PP!Enqueue, CP!Resting, PP!Resting, CP!Nothing, PP!Nothing,
   CP!RequestKinds, PP!RequestKinds, CP!CallbackKinds, PP!CallbackKinds, CP!callVars,
   PP!callVars, CP!queueVars, PP!queueVars, CP!userVars, PP!userVars, CP!cliVars, PP!cliVars

LEMMA SameOtherSteps == CP!CLIStep \/ CP!UserStep => PP!CLIStep \/ PP!UserStep
BY DEF CP!CLIStep, PP!CLIStep, CP!CLIAnswers, PP!CLIAnswers, CP!CLIEmits, PP!CLIEmits,
   CP!CLIReads, PP!CLIReads, CP!TransportDown, PP!TransportDown, CP!UserStep, PP!UserStep,
   CP!SetCallback, PP!SetCallback, CP!TakeMessage, PP!TakeMessage, CP!WriteMessage,
   PP!WriteMessage, CP!WriteLine, PP!WriteLine, CP!Close, PP!Close, CP!RequestKinds,
   PP!RequestKinds, CP!StreamKinds, PP!StreamKinds, CP!CallbackKinds, PP!CallbackKinds,
   CP!callVars, PP!callVars, CP!queueVars, PP!queueVars, CP!userVars, PP!userVars, CP!cliVars,
   PP!cliVars

LEMMA SameSteps == [CP!Next]_(CP!vars) => [PP!Next]_(PP!vars)
<1>1. CP!Next => PP!Next
  BY SameCallerSteps, SameHandlerSteps, SameOtherSteps DEF CP!Next, PP!Next
<1>2. UNCHANGED CP!vars => UNCHANGED PP!vars
  BY DEF CP!vars, PP!vars, CP!callVars, PP!callVars, CP!queueVars, PP!queueVars, CP!userVars,
     PP!userVars, CP!cliVars, PP!cliVars
<1>. QED
  BY <1>1, <1>2

LEMMA ClientHandlesAsProved == Spec => PP!Spec
BY ClientImplementsHandler, SameInit, SameSteps, PTL DEF CP!Spec, PP!Spec

(* What ControlProtocol promises holds in a client: an answer reaches the    *)
(* method that asked for it, the pending map is exact, the receive loop is   *)
(* not stopped by a full msgChan, which never drops the newest message, and    *)
(* every request of the CLI is answered once, in spite of the methods, the   *)
(* lock and the session id around it.                                        *)
THEOREM HandlerKeepsPromises ==
    Spec => [](/\ CP!OwnAnswer /\ CP!PendingExact /\ CP!PushNeverBlocks
               /\ CP!QueueKeepsNewest /\ CP!RepliedOnce)
<1>1. PP!OwnAnswer /\ PP!PendingExact /\ PP!PushNeverBlocks
        => CP!OwnAnswer /\ CP!PendingExact /\ CP!PushNeverBlocks
  BY DEF PP!OwnAnswer, CP!OwnAnswer, PP!PendingExact, CP!PendingExact, PP!Active, CP!Active,
     PP!PushNeverBlocks, CP!PushNeverBlocks, PP!Requests, CP!Requests
<1>2. PP!QueueKeepsNewest /\ PP!RepliedOnce => CP!QueueKeepsNewest /\ CP!RepliedOnce
  BY DEF PP!QueueKeepsNewest, CP!QueueKeepsNewest, PP!RepliedOnce, CP!RepliedOnce, PP!Requests,
     CP!Requests
<1>3. PP!Spec => [](PP!OwnAnswer /\ PP!PendingExact /\ PP!PushNeverBlocks)
  BY HandlerBounds, PP!AnswersNeverCrossed, PP!PendingMapExact, PP!ReceiveLoopNeverBlocked, PTL
<1>4. PP!Spec => [](PP!QueueKeepsNewest /\ PP!RepliedOnce)
  BY HandlerBounds, PP!NewestIsKept, PP!EveryRequestRepliedOnce, PTL
<1>. QED
  BY <1>1, <1>2, <1>3, <1>4, ClientHandlesAsProved, PTL

(* SendControlRequest, as the methods of a client call it: a request is made *)
(* once and ends once, by an error or by an answer that the CLI gave to it.  *)
THEOREM MethodsImplementRequestReply == Spec => CP!ImplementsRequestReply
<1>1. PP!RR!Init => CP!RR!Init
  BY DEF PP!RR!Init, CP!RR!Init, PP!Outcome, CP!Outcome, PP!Requests, CP!Requests
<1>2. [PP!RR!Next]_(PP!RR!vars) => [CP!RR!Next]_(CP!RR!vars)
  BY DEF PP!RR!Next, CP!RR!Next, PP!RR!vars, CP!RR!vars, PP!Outcome, CP!Outcome, PP!Requests,
     CP!Requests, PP!RR!Make, CP!RR!Make, PP!RR!Answer, CP!RR!Answer, PP!RR!Return,
     CP!RR!Return, PP!RR!GiveUp, CP!RR!GiveUp
<1>3. PP!Spec => PP!RR!Spec
  BY HandlerBounds, PP!ProtocolImplementsRequestReply DEF PP!ImplementsRequestReply
<1>. QED
  BY <1>1, <1>2, <1>3, ClientHandlesAsProved, PTL DEF CP!ImplementsRequestReply, CP!RR!Spec,
     PP!RR!Spec
=============================================================================
