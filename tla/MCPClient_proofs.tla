--------------------------- MODULE MCPClient_proofs ---------------------------
(***************************************************************************)
(* Proofs about MCPClient for any finite number of goroutines and any      *)
(* number of requests, and for a server that may answer anything at any    *)
(* time: the map of pending requests, for which nothing is needed of the   *)
(* transports; who owns the connection, for which they open and close; the *)
(* life of the client; the session id, which is the business of HTTP; and  *)
(* the request and its reply, end to end.                                  *)
(***************************************************************************)
EXTENDS MCPClient, FiniteSetTheorems, SequenceTheorems, TLAPS

\* Where a goroutine is between making a request and the end of request.
InRequest == {"send", "sending", "wait", "abandon"}

Shapes ==
    /\ thread = [t \in Callers |-> thread[t]]
    /\ \A t \in Callers : thread[t] = [op |-> thread[t].op, pc |-> thread[t].pc, id |-> thread[t].id]
    /\ loop = [pc |-> loop.pc, id |-> loop.id, ok |-> loop.ok]
    /\ respChan = [r \in Requests |-> respChan[r]]
    /\ reqID \in Nat

\* Ids in use are below the counter, and no two goroutines have the same.
IdsUnique ==
    /\ pendingReqs \subseteq 1 .. reqID
    /\ \A t \in Callers : thread[t].pc \in InRequest => thread[t].id \in 1 .. reqID
    /\ \A t, u \in Callers :
          thread[t].pc \in InRequest /\ thread[u].pc \in InRequest /\ thread[t].id = thread[u].id
              => t = u

\* What is not made yet has no answer.
FutureUntouched ==
    /\ loop.pc = "deliver" => loop.id \in 1 .. reqID
    /\ \A r \in Requests : r > reqID => respChan[r] = <<>>

IInv == Shapes /\ IdsUnique /\ FutureUntouched /\ PendingExact

\* The receive loop starts with Connect.
LoopStarts == phase = "new" => loop.pc = "none"

-----------------------------------------------------------------------------
LEMMA InitInv == Init => IInv
<1>. SUFFICES ASSUME Init PROVE IInv
  OBVIOUS
<1>1. Shapes
  BY DEF Init, Shapes, Idle
<1>2. IdsUnique /\ FutureUntouched
  BY DEF Init, IdsUnique, FutureUntouched, Idle, InRequest
<1>3. PendingExact
  BY DEF Init, PendingExact, Waiting, InHand, Idle
<1>. QED
  BY <1>1, <1>2, <1>3 DEF IInv

-----------------------------------------------------------------------------
(* How a goroutine moves *)

\* Goroutine t goes on to m.
Goes(t, m) ==
    /\ thread' = [thread EXCEPT ![t] = m]
    /\ m = [op |-> m.op, pc |-> m.pc, id |-> m.id]

LEMMA GoesFacts ==
    ASSUME Shapes, NEW t \in Callers, NEW m, Goes(t, m)
    PROVE  /\ thread' = [u \in Callers |-> thread'[u]]
           /\ \A u \in Callers :
                 thread'[u] = [op |-> thread'[u].op, pc |-> thread'[u].pc, id |-> thread'[u].id]
           /\ thread'[t] = m
           /\ \A u \in Callers \ {t} : thread'[u] = thread[u]
BY DEF Shapes, Goes

\* What goroutine t is at when it goes to l.
MovedTo(t, l) == [op |-> thread[t].op, pc |-> l, id |-> thread[t].id]

LEMMA GotoGoes ==
    ASSUME Shapes, NEW t \in Callers, NEW l, Goto(t, l)
    PROVE  Goes(t, MovedTo(t, l))
<1>1. thread[t] = [op |-> thread[t].op, pc |-> thread[t].pc, id |-> thread[t].id]
  BY DEF Shapes
<1>2. [thread[t] EXCEPT !.pc = l] = MovedTo(t, l)
  BY <1>1 DEF MovedTo
<1>3. [thread EXCEPT ![t].pc = l] = [thread EXCEPT ![t] = [thread[t] EXCEPT !.pc = l]]
  OBVIOUS
<1>. QED
  BY <1>2, <1>3 DEF Goto, Goes, MovedTo

LEMMA ReturnGoes ==
    ASSUME NEW t \in Callers, Return(t)
    PROVE  Goes(t, Idle)
BY DEF Return, Goes, Idle

-----------------------------------------------------------------------------
(* The kinds of step *)

\* Nobody enters or leaves a request, and the loop neither takes nor gives an
\* answer.
LEMMA Quiet ==
    ASSUME IInv, Shapes', UNCHANGED <<reqID, pendingReqs, respChan>>,
           \A t \in Callers :
              /\ thread'[t].pc \in InRequest <=> thread[t].pc \in InRequest
              /\ thread[t].pc \in InRequest => thread'[t].id = thread[t].id,
           loop'.pc = "deliver" <=> loop.pc = "deliver",
           loop.pc = "deliver" => loop'.id = loop.id
    PROVE  IInv'
<1>1. IdsUnique' /\ FutureUntouched'
  BY DEF IInv, IdsUnique, FutureUntouched
<1>2. \A r \in Requests : /\ Waiting(r)' <=> Waiting(r)
                          /\ InHand(r)' <=> InHand(r)
  BY DEF Waiting, InHand, InRequest
<1>3. PendingExact'
  BY <1>2 DEF IInv, PendingExact
<1>. QED
  BY <1>1, <1>3 DEF IInv

\* Goroutine t moves on within a request, or outside one.
LEMMA Moves ==
    ASSUME IInv, NEW t \in Callers, NEW m, Goes(t, m),
           UNCHANGED <<reqID, pendingReqs, respChan>>,
           loop' = loop,
           m.pc \in InRequest <=> thread[t].pc \in InRequest,
           m.pc \in InRequest => m.id = thread[t].id
    PROVE  IInv'
<1>1. /\ thread'[t] = m /\ \A u \in Callers \ {t} : thread'[u] = thread[u]
      /\ thread' = [u \in Callers |-> thread'[u]]
      /\ \A u \in Callers :
            thread'[u] = [op |-> thread'[u].op, pc |-> thread'[u].pc, id |-> thread'[u].id]
  BY GoesFacts DEF IInv
<1>2. Shapes'
  BY <1>1 DEF IInv, Shapes
<1>. QED
  BY <1>1, <1>2, Quiet DEF IInv, Shapes

\* Goroutine t makes request reqID + 1.
LEMMA Makes ==
    ASSUME IInv, NEW t \in Callers, Register(t)
    PROVE  IInv'
<1>. DEFINE m == [op |-> thread[t].op, pc |-> "send", id |-> reqID + 1]
<1>1. /\ Goes(t, m) /\ thread[t].pc = "request" /\ reqID' = reqID + 1 /\ UNCHANGED <<respChan, loop>>
      /\ pendingReqs' = pendingReqs \cup {reqID + 1}
  BY DEF Register, Goes, At
<1>2. /\ thread'[t] = m /\ \A u \in Callers \ {t} : thread'[u] = thread[u]
      /\ thread' = [u \in Callers |-> thread'[u]]
      /\ \A u \in Callers :
            thread'[u] = [op |-> thread'[u].op, pc |-> thread'[u].pc, id |-> thread'[u].id]
  BY <1>1, GoesFacts DEF IInv
<1>3. Shapes'
  BY <1>1, <1>2 DEF IInv, Shapes
<1>4. IdsUnique' /\ FutureUntouched'
  BY <1>1, <1>2 DEF IInv, Shapes, IdsUnique, FutureUntouched, InRequest, Requests
<1>5. ASSUME NEW r \in Requests
      PROVE  /\ r \in pendingReqs' <=> Waiting(r)' /\ ~InHand(r)' /\ respChan'[r] = <<>>
             /\ InHand(r)' => respChan'[r] = <<>>
  <2>1. InHand(r)' <=> InHand(r)
    BY <1>1 DEF InHand
  <2>2. CASE r = reqID + 1
    <3>1. Waiting(r)'
      BY <1>2, <2>2 DEF Waiting
    <3>2. ~InHand(r) /\ respChan[r] = <<>>
      BY <2>2, MCPAssumption DEF IInv, Shapes, FutureUntouched, InHand, Requests
    <3>. QED
      BY <1>1, <2>1, <2>2, <3>1, <3>2
  <2>3. CASE r # reqID + 1
    <3>1. Waiting(r)' <=> Waiting(r)
      BY <1>1, <1>2, <2>3 DEF Waiting
    <3>. QED
      BY <1>1, <2>1, <2>3, <3>1 DEF IInv, PendingExact
  <2>. QED
    BY <2>2, <2>3
<1>. QED
  BY <1>3, <1>4, <1>5 DEF IInv, PendingExact

\* Goroutine t ends its request: with the answer taken, or the entry removed.
LEMMA Ends ==
    ASSUME IInv, NEW t \in Callers, NEW m, Goes(t, m), thread[t].pc \in InRequest,
           m.pc \notin InRequest, UNCHANGED <<reqID, loop>>,
           respChan' = [r \in Requests |-> respChan'[r]],
           \A r \in Requests : r # thread[t].id =>
              /\ respChan'[r] = respChan[r]
              /\ r \in pendingReqs' <=> r \in pendingReqs,
           pendingReqs' \subseteq pendingReqs,
           thread[t].id \in Requests => thread[t].id \notin pendingReqs',
           InHand(thread[t].id) => respChan'[thread[t].id] = respChan[thread[t].id]
    PROVE  IInv'
<1>1. /\ thread'[t] = m /\ \A u \in Callers \ {t} : thread'[u] = thread[u]
      /\ thread' = [u \in Callers |-> thread'[u]]
      /\ \A u \in Callers :
            thread'[u] = [op |-> thread'[u].op, pc |-> thread'[u].pc, id |-> thread'[u].id]
  BY GoesFacts DEF IInv
<1>2. Shapes'
  BY <1>1 DEF IInv, Shapes
<1>3. IdsUnique'
  BY <1>1 DEF IInv, IdsUnique
<1>4. FutureUntouched'
  <2>1. thread[t].id \in 1 .. reqID
    BY DEF IInv, IdsUnique
  <2>. QED
    BY <2>1, MCPAssumption DEF IInv, Shapes, FutureUntouched, Requests
<1>5. ASSUME NEW r \in Requests
      PROVE  /\ r \in pendingReqs' <=> Waiting(r)' /\ ~InHand(r)' /\ respChan'[r] = <<>>
             /\ InHand(r)' => respChan'[r] = <<>>
  <2>1. InHand(r)' <=> InHand(r)
    BY DEF InHand
  <2>2. CASE r = thread[t].id
    <3>1. ~Waiting(r)'
      BY <1>1, <2>2 DEF IInv, IdsUnique, Waiting, InRequest
    <3>. QED
      BY <2>1, <2>2, <3>1 DEF IInv, PendingExact
  <2>3. CASE r # thread[t].id
    <3>1. Waiting(r)' <=> Waiting(r)
      BY <1>1, <2>3 DEF Waiting, InRequest
    <3>. QED
      BY <2>1, <2>3, <3>1 DEF IInv, PendingExact
  <2>. QED
    BY <2>2, <2>3
<1>. QED
  BY <1>2, <1>3, <1>4, <1>5 DEF IInv, PendingExact

-----------------------------------------------------------------------------
(* Every action is one of these steps                                      *)

\* A goroutine that goes to another place, and nothing else of the client.
LEMMA GotoInv ==
    ASSUME IInv, NEW t \in Callers, NEW l, Goto(t, l),
           UNCHANGED <<reqID, pendingReqs, respChan, loop>>,
           l \in InRequest <=> thread[t].pc \in InRequest
    PROVE  IInv'
<1>1. Goes(t, MovedTo(t, l))
  BY GotoGoes DEF IInv
<1>. QED
  BY <1>1, Moves DEF MovedTo

LEMMA ReturnInv ==
    ASSUME IInv, NEW t \in Callers, Return(t),
           UNCHANGED <<reqID, pendingReqs, respChan, loop>>, thread[t].pc \notin InRequest
    PROVE  IInv'
<1>1. Goes(t, Idle)
  BY ReturnGoes
<1>. QED
  BY <1>1, Moves DEF Idle, InRequest

\* The first step of Connect starts the receive loop as well.
LEMMA ConnectInv ==
    ASSUME IInv, LoopStarts, NEW t \in Callers, Connect(t)
    PROVE  IInv'
<1>. DEFINE m == [op |-> "connect", pc |-> "request", id |-> 0]
<1>1. Goes(t, m)
  BY DEF Connect, Goes
<1>2. /\ thread'[t] = m /\ \A u \in Callers \ {t} : thread'[u] = thread[u]
      /\ thread' = [u \in Callers |-> thread'[u]]
      /\ \A u \in Callers :
            thread'[u] = [op |-> thread'[u].op, pc |-> thread'[u].pc, id |-> thread'[u].id]
  BY <1>1, GoesFacts DEF IInv
<1>3. UNCHANGED <<reqID, pendingReqs, respChan>> /\ loop' = [loop EXCEPT !.pc = "check"]
      /\ thread[t].pc = "idle" /\ loop.pc = "none"
  BY DEF Connect, LoopStarts, requests, At
<1>4. loop' = [pc |-> "check", id |-> loop.id, ok |-> loop.ok]
  BY <1>3 DEF IInv, Shapes
<1>5. Shapes'
  BY <1>2, <1>3, <1>4 DEF IInv, Shapes
<1>. QED
  BY <1>2, <1>3, <1>4, <1>5, Quiet DEF InRequest

LEMMA StartsInv ==
    ASSUME IInv, NEW t \in Callers, CallTool(t) \/ Close(t)
    PROVE  IInv'
<1>1. PICK m \in {[op |-> "call", pc |-> "request", id |-> 0], [op |-> "close", pc |-> "fail", id |-> 0]} :
         Goes(t, m)
  BY DEF CallTool, Close, Goes
<1>2. UNCHANGED <<reqID, pendingReqs, respChan, loop>> /\ thread[t].pc = "idle"
  BY DEF CallTool, Close, At, requests
<1>. QED
  BY <1>1, <1>2, Moves DEF InRequest

LEMMA TakeResponseInv ==
    ASSUME IInv, NEW t \in Callers, TakeResponse(t)
    PROVE  IInv'
<1>. DEFINE id == thread[t].id
<1>1. /\ thread[t].pc = "wait" /\ respChan[id] # <<>>
      /\ respChan' = [respChan EXCEPT ![id] = Tail(respChan[id])]
      /\ UNCHANGED <<reqID, pendingReqs, loop>>
  BY DEF TakeResponse, At
<1>2. PICK m : Goes(t, m) /\ m.pc \notin InRequest
  <2>1. CASE Return(t)
    BY <2>1, ReturnGoes DEF Idle, InRequest
  <2>2. ASSUME NEW l \in {"notify", "fail"}, Goto(t, l)
        PROVE  Goes(t, MovedTo(t, l)) /\ MovedTo(t, l).pc \notin InRequest
    BY <2>2, GotoGoes DEF IInv, MovedTo, InRequest
  <2>3. Return(t) \/ \E l \in {"notify", "fail"} : Goto(t, l)
    BY DEF TakeResponse
  <2>. QED
    BY <2>1, <2>2, <2>3
<1>3. respChan' = [r \in Requests |-> respChan'[r]]
      /\ \A r \in Requests : r # id => respChan'[r] = respChan[r]
  BY <1>1 DEF IInv, Shapes
<1>4. id \in Requests => id \notin pendingReqs /\ ~InHand(id)
  BY <1>1 DEF IInv, PendingExact
<1>5. InHand(id) => respChan'[id] = respChan[id]
  BY <1>1, <1>4 DEF IInv, Shapes
<1>. QED
  BY <1>1, <1>2, <1>3, <1>4, <1>5, Ends DEF InRequest

LEMMA AbandonInv ==
    ASSUME IInv, NEW t \in Callers, Abandon(t)
    PROVE  IInv'
<1>1. /\ thread[t].pc = "abandon" /\ pendingReqs' = pendingReqs \ {thread[t].id}
      /\ UNCHANGED <<reqID, respChan, loop>>
  BY DEF Abandon, At
<1>2. PICK m : Goes(t, m) /\ m.pc \notin InRequest
  <2>1. CASE Return(t)
    BY <2>1, ReturnGoes DEF Idle, InRequest
  <2>2. CASE Goto(t, "fail")
    <3>1. Goes(t, MovedTo(t, "fail")) /\ MovedTo(t, "fail").pc \notin InRequest
      BY <2>2, GotoGoes DEF IInv, MovedTo, InRequest
    <3>. QED
      BY <3>1
  <2>. QED
    BY <2>1, <2>2 DEF Abandon
<1>. QED
  BY <1>1, <1>2, Ends DEF IInv, Shapes, InRequest

LEMMA CallStepInv ==
    ASSUME IInv, NEW t \in Callers, CallStep(t)
    PROVE  IInv'
<1>1. CASE Register(t)
  BY <1>1, Makes
<1>2. CASE Send(t)
  BY <1>2, GotoInv DEF Send, At, requests, InRequest
<1>3. CASE SendReturns(t)
  BY <1>3, GotoInv DEF SendReturns, At, requests, InRequest
<1>4. CASE SendFails(t)
  BY <1>4, GotoInv DEF SendFails, At, requests, InRequest
<1>5. CASE SendPanics(t)
  BY <1>5, Quiet DEF SendPanics, client, requests, IInv, Shapes
<1>6. CASE TakeResponse(t)
  BY <1>6, TakeResponseInv
<1>7. CASE ContextEnds(t)
  BY <1>7, GotoInv DEF ContextEnds, At, requests, InRequest
<1>8. CASE Abandon(t)
  BY <1>8, AbandonInv
<1>9. CASE Publish(t)
  BY <1>9, ReturnInv DEF Publish, At, requests, InRequest
<1>10. CASE CloseTransport(t)
  BY <1>10, GotoInv DEF CloseTransport, At, requests, InRequest
<1>11. CASE TransportClosed(t)
  BY <1>11, ReturnInv DEF TransportClosed, At, requests, InRequest
<1>. QED
  BY <1>1, <1>2, <1>3, <1>4, <1>5, <1>6, <1>7, <1>8, <1>9, <1>10, <1>11 DEF CallStep

-----------------------------------------------------------------------------
(* The receive loop *)

LEMMA RouteInv ==
    ASSUME IInv, Route
    PROVE  IInv'
<1>. DEFINE id == loop.id
<1>1. /\ loop.pc = "route" /\ pendingReqs' = pendingReqs \ {id}
      /\ UNCHANGED <<reqID, respChan, thread>>
  BY DEF Route
<1>2. loop' = IF id \in pendingReqs THEN [pc |-> "deliver", id |-> id, ok |-> loop.ok]
              ELSE [pc |-> "check", id |-> 0, ok |-> FALSE]
  <2>1. [loop EXCEPT !.pc = "deliver"] = [pc |-> "deliver", id |-> id, ok |-> loop.ok]
    BY DEF IInv, Shapes
  <2>. QED
    BY <2>1 DEF Route, LoopGoto
<1>3. Shapes'
  BY <1>1, <1>2 DEF IInv, Shapes
<1>4. IdsUnique' /\ FutureUntouched'
  BY <1>1, <1>2 DEF IInv, IdsUnique, FutureUntouched
<1>5. ASSUME NEW r \in Requests
      PROVE  /\ r \in pendingReqs' <=> Waiting(r)' /\ ~InHand(r)' /\ respChan'[r] = <<>>
             /\ InHand(r)' => respChan'[r] = <<>>
  <2>1. Waiting(r)' <=> Waiting(r)
    BY <1>1 DEF Waiting
  <2>2. InHand(r)' <=> id \in pendingReqs /\ r = id
    BY <1>2 DEF InHand
  <2>3. ~InHand(r)
    BY <1>1 DEF InHand
  <2>. QED
    BY <1>1, <2>1, <2>2, <2>3 DEF IInv, PendingExact
<1>. QED
  BY <1>3, <1>4, <1>5 DEF IInv, PendingExact

LEMMA DeliverInv ==
    ASSUME IInv, Deliver
    PROVE  IInv'
<1>. DEFINE id == loop.id
<1>1. /\ loop.pc = "deliver" /\ loop' = [pc |-> "check", id |-> 0, ok |-> FALSE]
      /\ respChan' = IF respChan[id] = <<>> THEN [respChan EXCEPT ![id] = <<loop.ok>>] ELSE respChan
      /\ UNCHANGED <<reqID, pendingReqs, thread>>
  BY DEF Deliver, LoopGoto
<1>2. id \in 1 .. reqID
  BY <1>1 DEF IInv, FutureUntouched
<1>3. /\ respChan' = [r \in Requests |-> respChan'[r]]
      /\ \A r \in Requests : r # id => respChan'[r] = respChan[r]
      /\ id \in Requests => respChan'[id] # <<>>
  BY <1>1 DEF IInv, Shapes
<1>4. Shapes' /\ IdsUnique'
  BY <1>1, <1>3 DEF IInv, Shapes, IdsUnique
<1>5. FutureUntouched'
  BY <1>1, <1>2, <1>3, MCPAssumption DEF IInv, Shapes, FutureUntouched, Requests
<1>6. ASSUME NEW r \in Requests
      PROVE  /\ r \in pendingReqs' <=> Waiting(r)' /\ ~InHand(r)' /\ respChan'[r] = <<>>
             /\ InHand(r)' => respChan'[r] = <<>>
  <2>1. Waiting(r)' <=> Waiting(r)
    BY <1>1 DEF Waiting
  <2>2. ~InHand(r)' /\ (InHand(r) <=> r = id)
    BY <1>1 DEF InHand
  <2>. QED
    BY <1>1, <1>3, <2>1, <2>2 DEF IInv, PendingExact
<1>. QED
  BY <1>4, <1>5, <1>6 DEF IInv, PendingExact

\* The loop goes from one place to another, and has no answer for anybody.
LEMMA LoopMoves ==
    ASSUME IInv, loop.pc # "deliver", UNCHANGED <<reqID, pendingReqs, respChan, thread>>,
           \E pc \in {"check", "receive", "read", "route", "done"} : \E id, ok :
              loop' = [pc |-> pc, id |-> id, ok |-> ok]
    PROVE  IInv'
<1>1. Shapes' /\ loop'.pc # "deliver"
  BY DEF IInv, Shapes
<1>. QED
  BY <1>1, Quiet

LEMMA LoopStepInv ==
    ASSUME IInv, LoopStep
    PROVE  IInv'
<1>1. CASE CheckStopped
  BY <1>1, LoopMoves DEF CheckStopped, LoopGoto, requests
<1>2. CASE Receive
  BY <1>2, LoopMoves DEF Receive, LoopGoto, requests
<1>3. CASE ReadLine
  <2>1. PICK pc, id, ok : /\ pc \in {"route", "check", "done"}
                             /\ loop' = [pc |-> pc, id |-> id, ok |-> ok]
    BY <1>3 DEF ReadLine, LoopGoto
  <2>. QED
    BY <1>3, <2>1, LoopMoves DEF ReadLine, requests
<1>4. CASE ReadFails
  BY <1>4, LoopMoves DEF ReadFails, LoopGoto, requests
<1>5. CASE Route \/ Deliver
  BY <1>5, RouteInv, DeliverInv
<1>6. CASE RoutePanics
  BY <1>6, Quiet DEF RoutePanics, client, requests, IInv, Shapes
<1>. QED
  BY <1>1, <1>2, <1>3, <1>4, <1>5, <1>6 DEF LoopStep

-----------------------------------------------------------------------------
(* The invariant is inductive *)

LEMMA StepStarts ==
    ASSUME LoopStarts, Next
    PROVE  LoopStarts'
<1>1. CASE ConnectFails \/ Stream \/ Server
  BY <1>1 DEF ConnectFails, Stream, Server, client, LoopStarts
<1>2. ASSUME NEW t \in Callers, Connect(t) \/ CallTool(t) \/ Close(t)
      PROVE  LoopStarts'
  BY <1>2 DEF Connect, CallTool, Close, LoopStarts
<1>3. ASSUME NEW t \in Callers, CallStep(t)
      PROVE  LoopStarts'
  BY <1>3 DEF CallStep, Register, Send, SendReturns, SendFails, SendPanics, TakeResponse,
     ContextEnds, Abandon, Publish, CloseTransport, TransportClosed, LoopStarts, client
<1>4. CASE LoopStep
  BY <1>4 DEF LoopStep, CheckStopped, Receive, ReadLine, ReadFails, Route, RoutePanics, Deliver, LoopStarts, client
<1>. QED
  BY <1>1, <1>2, <1>3, <1>4 DEF Next

LEMMA StepInv ==
    ASSUME IInv, LoopStarts, Next
    PROVE  IInv'
<1>1. CASE ConnectFails \/ Stream \/ Server
  BY <1>1, Quiet DEF ConnectFails, Stream, Server, client, requests, IInv, Shapes
<1>2. ASSUME NEW t \in Callers, Connect(t) \/ CallTool(t) \/ Close(t)
      PROVE  IInv'
  BY <1>2, ConnectInv, StartsInv
<1>3. ASSUME NEW t \in Callers, CallStep(t)
      PROVE  IInv'
  BY <1>3, CallStepInv
<1>4. CASE LoopStep
  BY <1>4, LoopStepInv
<1>. QED
  BY <1>1, <1>2, <1>3, <1>4 DEF Next

LEMMA StutterInv ==
    ASSUME IInv, LoopStarts, UNCHANGED vars
    PROVE  IInv' /\ LoopStarts'
<1>1. IInv'
  BY Quiet DEF vars, client, requests, IInv, Shapes
<1>2. LoopStarts'
  BY DEF vars, client, LoopStarts
<1>. QED
  BY <1>1, <1>2

-----------------------------------------------------------------------------
\* Ids are unique, nothing arrives for a request that is not made, and the map
\* is exact: the invariant the theorem below rests on.
THEOREM Invariant == Spec => [](IInv /\ LoopStarts)
<1>1. Init => IInv /\ LoopStarts
  BY InitInv DEF Init, LoopStarts
<1>2. (IInv /\ LoopStarts) /\ [Next]_vars => (IInv /\ LoopStarts)'
  BY StepInv, StepStarts, StutterInv
<1>. QED
  BY <1>1, <1>2, PTL DEF Spec

\* For every server, which may repeat, invent and delay answers, and every
\* transport: the map of pending requests holds exactly the requests that are
\* waited for, and no answer finds its channel full.
THEOREM PendingIsExact == Spec => []PendingExact
<1>1. IInv /\ LoopStarts => PendingExact
  BY DEF IInv
<1>. QED
  BY <1>1, Invariant, PTL

-----------------------------------------------------------------------------
(* What the transports do to closed and to the server process              *)

\* A server by pipes; there is no process behind HTTP.
ServerShape ==
    /\ server = [st |-> server.st, out |-> server.out]
    /\ type # "stdio" => server.st = "none"

\* The transport stays open or closed, and no process starts.
Calm ==
    /\ closed' = closed
    /\ ServerShape'
    /\ server'.st = server.st \/ server'.st = "exited"

LEMMA SendCalm ==
    ASSUME ServerShape, NEW t, NEW n,
           \/ T!SendRefused \/ T!SendBegins(t, n) \/ T!SendEnds(t, n)
           \/ T!SendBreaks(t) \/ T!SendPanics(t)
    PROVE  Calm
BY DEF ServerShape, Calm, T!SendRefused, T!SendBegins, T!SendEnds, T!SendBreaks, T!SendPanics,
   T!Stdio, T!HTTP, T!httpVars, T!stdioVars, T!S!SendRefused, T!S!SendBegins, T!S!SendEnds,
   T!S!SendBreaks, T!S!vars, T!S!pipes, T!S!process, T!H!SendRefused, T!H!SendBegins,
   T!H!SendEnds, T!H!SendBreaks, T!H!vars

LEMMA ReceiveCalm ==
    ASSUME ServerShape, T!ReceiveRefused \/ T!ReceiveBegins \/ T!ReceiveEnds \/ T!ReceiveFails
    PROVE  Calm
BY DEF ServerShape, Calm, T!ReceiveRefused, T!ReceiveBegins, T!ReceiveEnds, T!ReceiveFails,
   T!Stdio, T!HTTP, T!httpVars, T!stdioVars, T!S!ReceiveRefused, T!S!ReceiveBegins,
   T!S!ReceiveEnds, T!S!ReceiveFails, T!S!vars, T!S!pipes, T!S!process, T!H!ReceiveRefused,
   T!H!ReceiveBegins, T!H!ReceiveEnds, T!H!ReceiveFails, T!H!vars

LEMMA ServerCalm ==
    ASSUME ServerShape, T!StreamStep \/ T!ServerStep
    PROVE  Calm
<1>1. CASE T!StreamStep
  BY <1>1 DEF ServerShape, Calm, T!StreamStep, T!HTTP, T!stdioVars, T!H!StreamStep, T!H!SetResponse,
              T!H!PushEvent, T!H!StreamFails, T!H!onlyStream
<1>2. CASE type = "stdio" /\ T!S!ServerStep /\ UNCHANGED type
  <2>1. CASE T!S!ServerExits
    BY <1>2, <2>1 DEF ServerShape, Calm, T!S!ServerExits
  <2>2. ASSUME UNCHANGED closed, NEW line, server' = server \/ server' = [server EXCEPT !.out = line]
        PROVE  Calm
    BY <1>2, <2>2 DEF ServerShape, Calm
  <2>3. CASE T!S!ServerReads
    <3>1. PICK line : server' = server \/ server' = [server EXCEPT !.out = line]
      BY <2>3 DEF T!S!ServerReads
    <3>. QED
      BY <2>2, <2>3, <3>1 DEF T!S!ServerReads
  <2>4. CASE T!S!ServerAdds
    BY <2>2, <2>4 DEF T!S!ServerAdds
  <2>5. CASE T!S!ServerWrites
    BY <2>2, <2>5 DEF T!S!ServerWrites
  <2>. QED
    BY <1>2, <2>1, <2>3, <2>4, <2>5 DEF T!S!ServerStep
<1>3. CASE UNCHANGED T!stdioVars /\ T!H!ServerStep
  BY <1>3 DEF ServerShape, Calm, T!stdioVars, T!H!ServerStep, T!H!ServerResponds,
     T!H!ServerOpensStream, T!H!ServerSendsEvent, T!H!StreamFails, T!H!onlyStream
<1>. QED
  BY <1>1, <1>2, <1>3 DEF T!ServerStep, T!Stdio, T!HTTP

LEMMA OpenAndClose ==
    ASSUME ServerShape, NEW t
    PROVE  /\ T!Connect => closed' = FALSE /\ ServerShape'
           /\ T!ConnectFails => Calm
           /\ T!CloseBegins(t) => ~closed /\ closed' = TRUE /\ ServerShape' /\ UNCHANGED server
           /\ T!CloseEnds(t) => Calm /\ server'.st # "running"
<1>1. T!Connect => closed' = FALSE /\ ServerShape'
  <2>1. CASE T!Stdio(T!S!Connect)
    BY <2>1 DEF ServerShape, T!Stdio, T!S!Connect
  <2>2. CASE T!HTTP(T!H!Connect)
    BY <2>2 DEF ServerShape, T!HTTP, T!H!Connect, T!stdioVars
  <2>. QED
    BY <2>1, <2>2 DEF T!Connect
<1>2. T!ConnectFails => Calm
  BY DEF ServerShape, Calm, T!ConnectFails, T!Stdio, T!S!ConnectFails, T!S!vars, T!S!process
<1>3. T!CloseBegins(t) => ~closed /\ closed' = TRUE /\ ServerShape' /\ UNCHANGED server
  <2>1. CASE T!Stdio(T!S!CloseBegins(t))
    BY <2>1 DEF ServerShape, T!Stdio, T!S!CloseBegins, T!S!process
  <2>2. CASE T!HTTP(T!H!Close)
    BY <2>2 DEF ServerShape, T!HTTP, T!H!Close, T!stdioVars
  <2>. QED
    BY <2>1, <2>2 DEF T!CloseBegins
<1>4. T!CloseEnds(t) => Calm /\ server'.st # "running"
  BY DEF ServerShape, Calm, T!CloseEnds, T!Stdio, T!HTTP, T!S!CloseEnds, T!S!process, T!stdioVars
<1>. QED
  BY <1>1, <1>2, <1>3, <1>4

-----------------------------------------------------------------------------
(* Who owns the connection *)

Owner(t) == thread[t].op \in {"connect", "close"}

\* Where a goroutine is belongs to the call it is in.
CallsOrdered ==
    \A t \in Callers :
        /\ thread[t].pc = "idle" <=> thread[t].op = "none"
        /\ thread[t].pc \in InRequest \cup {"request"} => thread[t].op \in {"connect", "call"}
        /\ thread[t].pc \in {"notify", "notifying", "publish"} => thread[t].op = "connect"
        /\ thread[t].pc \in {"fail", "reap"} => Owner(t)

\* The owner closes the transport in the last of its steps but one.
OwnerAlone ==
    \A t \in Callers : Owner(t) =>
        /\ ~connected
        /\ closed <=> thread[t].pc = "reap"
        /\ phase # "new"
        /\ \A u \in Callers : Owner(u) => u = t

\* Without an owner the client is as its transport.
Unowned ==
    (\A t \in Callers : ~Owner(t)) => /\ connected <=> ~closed
                                      /\ server.st = "running" => connected

NewIsQuiet == phase = "new" => ~connected /\ \A t \in Callers : thread[t].op = "none"

LifeInv == ServerShape /\ CallsOrdered /\ OwnerAlone /\ Unowned /\ NewIsQuiet

LEMMA LifeIsExact == LifeInv => NoServerLeft
BY DEF LifeInv, Unowned, NoServerLeft, Owner

LEMMA InitLife == Init => LifeInv
<1>. SUFFICES ASSUME Init PROVE LifeInv
  OBVIOUS
<1>1. closed = TRUE /\ server = [st |-> "none", out |-> T!S!NoLine]
  BY DEF Init, T!Init, T!S!Init
<1>. QED
  BY <1>1 DEF Init, Idle, LifeInv, ServerShape, CallsOrdered, OwnerAlone, Unowned, NewIsQuiet,
     Owner, InRequest

\* Where a goroutine in call m.op may be.
Fits(m) ==
    /\ m.pc = "idle" <=> m.op = "none"
    /\ m.pc \in InRequest \cup {"request"} => m.op \in {"connect", "call"}
    /\ m.pc \in {"notify", "notifying", "publish"} => m.op = "connect"
    /\ m.pc \in {"fail", "reap"} => m.op \in {"connect", "close"}

\* A goroutine goes on, and owns the connection after as before.
LEMMA GoesOn ==
    ASSUME Shapes, LifeInv, Calm, NEW t \in Callers, NEW m, Goes(t, m), Fits(m),
           m.op = thread[t].op \/ {m.op, thread[t].op} \subseteq {"none", "call"},
           m.pc # "reap", thread[t].pc # "reap", UNCHANGED <<connected, phase>>,
           phase # "new"
    PROVE  LifeInv'
<1>1. thread'[t] = m /\ \A u \in Callers \ {t} : thread'[u] = thread[u]
  BY GoesFacts
<1>2. \A u \in Callers : Owner(u)' <=> Owner(u)
  BY <1>1 DEF Owner
<1>3. ServerShape' /\ closed' = closed /\ (server'.st = server.st \/ server'.st = "exited")
  BY DEF Calm
<1>4. CallsOrdered'
  BY <1>1 DEF LifeInv, CallsOrdered, Fits, Owner
<1>5. OwnerAlone'
  BY <1>1, <1>2, <1>3 DEF LifeInv, OwnerAlone
<1>6. Unowned' /\ NewIsQuiet'
  BY <1>2, <1>3 DEF LifeInv, Unowned, NewIsQuiet
<1>. QED
  BY <1>3, <1>4, <1>5, <1>6 DEF LifeInv

\* The owner returns, connected or with the transport closed.
LEMMA OwnerReturns ==
    ASSUME Shapes, LifeInv, Calm, NEW t \in Callers, Return(t), Owner(t), phase' # "new",
           \/ connected' = TRUE /\ thread[t].pc # "reap"
           \/ connected' = connected /\ thread[t].pc = "reap" /\ server'.st # "running"
    PROVE  LifeInv'
<1>1. Goes(t, Idle)
  BY ReturnGoes
<1>2. thread'[t] = Idle /\ \A u \in Callers \ {t} : thread'[u] = thread[u]
  BY <1>1, GoesFacts
<1>3. \A u \in Callers : ~Owner(u)'
  BY <1>2 DEF LifeInv, OwnerAlone, Owner, Idle
<1>4. ~connected /\ (closed <=> thread[t].pc = "reap")
  BY DEF LifeInv, OwnerAlone
<1>5. ServerShape' /\ closed' = closed
  BY DEF Calm
<1>6. CallsOrdered'
  BY <1>2 DEF LifeInv, CallsOrdered, Owner, Idle, InRequest
<1>7. OwnerAlone' /\ Unowned' /\ NewIsQuiet'
  BY <1>3, <1>4, <1>5 DEF OwnerAlone, Unowned, NewIsQuiet
<1>. QED
  BY <1>5, <1>6, <1>7 DEF LifeInv

LEMMA LifeUntouched ==
    ASSUME LifeInv, Calm, UNCHANGED <<thread, connected, phase>>
    PROVE  LifeInv'
BY DEF LifeInv, Calm, CallsOrdered, OwnerAlone, Unowned, NewIsQuiet, Owner

-----------------------------------------------------------------------------
LEMMA StartsLife ==
    ASSUME Shapes, LifeInv, NEW t \in Callers, Connect(t) \/ CallTool(t) \/ Close(t)
    PROVE  LifeInv'
<1>1. thread[t].pc = "idle" /\ thread[t].op = "none"
  BY DEF Connect, CallTool, Close, At, LifeInv, CallsOrdered
<1>2. CASE Connect(t)
  <2>. DEFINE m == [op |-> "connect", pc |-> "request", id |-> 0]
  <2>1. Goes(t, m) /\ phase = "new" /\ phase' = "connecting" /\ UNCHANGED connected
    BY <1>2 DEF Connect, Goes
  <2>2. thread'[t] = m /\ \A u \in Callers \ {t} : thread'[u] = thread[u]
    BY <2>1, GoesFacts
  <2>3. closed' = FALSE /\ ServerShape'
    BY <1>2, OpenAndClose DEF Connect, LifeInv
  <2>4. CallsOrdered'
    BY <2>2 DEF LifeInv, CallsOrdered, Owner, InRequest
  <2>5. OwnerAlone' /\ Unowned' /\ NewIsQuiet'
    BY <2>1, <2>2, <2>3 DEF LifeInv, OwnerAlone, Unowned, NewIsQuiet, Owner
  <2>. QED
    BY <2>3, <2>4, <2>5 DEF LifeInv
<1>3. CASE CallTool(t)
  <2>1. Calm /\ UNCHANGED <<connected, phase>> /\ phase # "new"
    BY <1>3 DEF CallTool, transport, LifeInv, ServerShape, Calm, NewIsQuiet
  <2>2. Goes(t, [op |-> "call", pc |-> "request", id |-> 0])
    BY <1>3 DEF CallTool, Goes
  <2>. QED
    BY <1>1, <2>1, <2>2, GoesOn DEF Fits, InRequest
<1>4. CASE Close(t)
  <2>. DEFINE m == [op |-> "close", pc |-> "fail", id |-> 0]
  <2>1. Goes(t, m) /\ connected /\ connected' = FALSE /\ UNCHANGED <<closed, server, type, phase>>
    BY <1>4 DEF Close, Goes, transport
  <2>2. thread'[t] = m /\ \A u \in Callers \ {t} : thread'[u] = thread[u]
    BY <2>1, GoesFacts
  <2>3. \A u \in Callers : ~Owner(u)
    BY <2>1 DEF LifeInv, OwnerAlone
  <2>4. ~closed /\ phase # "new"
    BY <2>1, <2>3 DEF LifeInv, Unowned, NewIsQuiet
  <2>5. CallsOrdered' /\ ServerShape'
    BY <2>1, <2>2 DEF LifeInv, CallsOrdered, ServerShape, Owner, InRequest
  <2>6. OwnerAlone' /\ Unowned' /\ NewIsQuiet'
    BY <2>1, <2>2, <2>3, <2>4 DEF OwnerAlone, Unowned, NewIsQuiet, Owner
  <2>. QED
    BY <2>5, <2>6 DEF LifeInv
<1>. QED
  BY <1>2, <1>3, <1>4

LEMMA Busy ==
    ASSUME LifeInv, NEW t \in Callers, thread[t].pc # "idle"
    PROVE  phase # "new"
BY DEF LifeInv, CallsOrdered, NewIsQuiet

\* A goroutine goes to l, within its call.
LEMMA GotoLife ==
    ASSUME Shapes, LifeInv, Calm, NEW t \in Callers, NEW l, Goto(t, l), Fits(MovedTo(t, l)),
           thread[t].pc \notin {"idle", "reap"}, l # "reap", UNCHANGED <<connected, phase>>
    PROVE  LifeInv'
<1>1. Goes(t, MovedTo(t, l)) /\ MovedTo(t, l).op = thread[t].op /\ MovedTo(t, l).pc = l
  BY GotoGoes DEF MovedTo
<1>. QED
  BY <1>1, Busy, GoesOn

LEMMA CallReturns ==
    ASSUME Shapes, LifeInv, Calm, NEW t \in Callers, Return(t), thread[t].op = "call",
           UNCHANGED <<connected, phase>>
    PROVE  LifeInv'
<1>1. Goes(t, Idle)
  BY ReturnGoes
<1>2. thread[t].pc # "idle" /\ thread[t].pc # "reap"
  BY DEF LifeInv, CallsOrdered, Owner
<1>. QED
  BY <1>1, <1>2, Busy, GoesOn DEF Idle, Fits, InRequest

LEMMA RequestLife ==
    ASSUME Shapes, LifeInv, NEW t \in Callers,
           Register(t) \/ TakeResponse(t) \/ ContextEnds(t) \/ Abandon(t)
    PROVE  LifeInv'
<1>1. Calm /\ UNCHANGED <<connected, phase>> /\ thread[t].pc \in InRequest \cup {"request"}
  BY DEF Register, TakeResponse, ContextEnds, Abandon, transport, LifeInv, ServerShape, Calm,
     At, InRequest
<1>2. thread[t].op \in {"connect", "call"}
  BY <1>1 DEF LifeInv, CallsOrdered
<1>3. CASE Register(t)
  <2>. DEFINE m == [op |-> thread[t].op, pc |-> "send", id |-> reqID + 1]
  <2>1. Goes(t, m) /\ Fits(m)
    BY <1>2, <1>3 DEF Register, Goes, Fits, InRequest
  <2>. QED
    BY <1>1, <2>1, Busy, GoesOn DEF InRequest
<1>4. CASE TakeResponse(t) \/ Abandon(t)
  <2>1. CASE thread[t].op = "call"
    BY <1>1, <1>4, <2>1, CallReturns DEF TakeResponse, Abandon
  <2>2. CASE thread[t].op = "connect"
    <3>1. PICK l \in {"notify", "fail"} : Goto(t, l)
      BY <1>4, <2>2 DEF TakeResponse, Abandon
    <3>. QED
      BY <1>1, <2>2, <3>1, GotoLife DEF Fits, MovedTo, InRequest
  <2>. QED
    BY <1>2, <2>1, <2>2
<1>5. CASE ContextEnds(t)
  <2>1. Goto(t, "abandon")
    BY <1>5 DEF ContextEnds
  <2>. QED
    BY <1>1, <1>2, <2>1, GotoLife DEF Fits, MovedTo, InRequest
<1>. QED
  BY <1>3, <1>4, <1>5

LEMMA SendLife ==
    ASSUME Shapes, LifeInv, NEW t \in Callers, Send(t) \/ SendReturns(t) \/ SendFails(t) \/ SendPanics(t)
    PROVE  LifeInv'
<1>1. Calm /\ UNCHANGED <<connected, phase>>
  BY SendCalm DEF Send, SendReturns, SendFails, SendPanics, LifeInv, client
<1>2. /\ thread[t].pc \in InRequest => thread[t].op \in {"connect", "call"}
      /\ thread[t].pc \in {"notify", "notifying"} => thread[t].op = "connect"
  BY DEF LifeInv, CallsOrdered
<1>3. CASE Send(t) \/ SendReturns(t) \/ SendFails(t)
  <2>1. PICK l : /\ Goto(t, l)
                 /\ \/ thread[t].pc \in {"send", "sending"} /\ l \in {"sending", "wait", "abandon"}
                    \/ thread[t].pc \in {"notify", "notifying"} /\ l \in {"notifying", "publish", "fail"}
    BY <1>3 DEF Send, SendReturns, SendFails, At
  <2>2. Fits(MovedTo(t, l))
    BY <1>2, <2>1 DEF Fits, MovedTo, InRequest
  <2>. QED
    BY <1>1, <2>1, <2>2, GotoLife
<1>4. CASE SendPanics(t)
  BY <1>1, <1>4, LifeUntouched DEF SendPanics, client
<1>. QED
  BY <1>3, <1>4

LEMMA EndsLife ==
    ASSUME Shapes, LifeInv, NEW t \in Callers, Publish(t) \/ CloseTransport(t) \/ TransportClosed(t)
    PROVE  LifeInv'
<1>1. CASE Publish(t)
  <2>1. Calm /\ thread[t].pc = "publish" /\ thread[t].op = "connect"
    BY <1>1 DEF Publish, transport, LifeInv, ServerShape, Calm, At, CallsOrdered
  <2>. QED
    BY <1>1, <2>1, OwnerReturns DEF Publish, Owner
<1>2. CASE CloseTransport(t)
  <2>1. /\ ~closed /\ closed' = TRUE /\ ServerShape' /\ UNCHANGED <<server, connected, phase>>
        /\ Goto(t, "reap") /\ thread[t].pc = "fail"
    BY <1>2, OpenAndClose DEF CloseTransport, LifeInv, At
  <2>2. thread'[t] = MovedTo(t, "reap") /\ \A u \in Callers \ {t} : thread'[u] = thread[u]
    BY <2>1, GotoGoes, GoesFacts
  <2>3. Owner(t)
    BY <2>1 DEF LifeInv, CallsOrdered
  <2>4. \A u \in Callers : Owner(u)' <=> Owner(u)
    BY <2>2 DEF Owner, MovedTo
  <2>5. CallsOrdered'
    BY <2>2, <2>3 DEF LifeInv, CallsOrdered, Owner, MovedTo, InRequest
  <2>6. OwnerAlone' /\ Unowned' /\ NewIsQuiet'
    BY <2>1, <2>2, <2>3, <2>4 DEF LifeInv, OwnerAlone, Unowned, NewIsQuiet, Owner, MovedTo
  <2>. QED
    BY <2>1, <2>5, <2>6 DEF LifeInv
<1>3. CASE TransportClosed(t)
  <2>1. Calm /\ server'.st # "running" /\ thread[t].pc = "reap" /\ Return(t) /\ UNCHANGED connected
    BY <1>3, OpenAndClose DEF TransportClosed, LifeInv, At
  <2>2. Owner(t)
    BY <2>1 DEF LifeInv, CallsOrdered
  <2>3. phase' # "new"
    BY <1>3, <2>1, Busy DEF TransportClosed
  <2>. QED
    BY <2>1, <2>2, <2>3, OwnerReturns
<1>. QED
  BY <1>1, <1>2, <1>3

LEMMA LoopLife ==
    ASSUME LifeInv, LoopStep
    PROVE  LifeInv'
<1>1. Calm
  <2>1. CASE CheckStopped \/ Route \/ Deliver
    BY <2>1 DEF CheckStopped, Route, Deliver, transport, LifeInv, ServerShape, Calm
  <2>2. CASE Receive \/ ReadLine \/ ReadFails
    BY <2>2, ReceiveCalm DEF Receive, ReadLine, ReadFails, LifeInv
  <2>3. CASE RoutePanics
    BY <2>3 DEF RoutePanics, LifeInv, ServerShape, Calm
  <2>. QED
    BY <2>1, <2>2, <2>3 DEF LoopStep
<1>2. UNCHANGED <<thread, connected, phase>>
  BY DEF LoopStep, CheckStopped, Receive, ReadLine, ReadFails, Route, RoutePanics, Deliver, client
<1>. QED
  BY <1>1, <1>2, LifeUntouched

LEMMA StepLife ==
    ASSUME Shapes, LifeInv, Next
    PROVE  LifeInv'
<1>1. CASE ConnectFails
  <2>1. Calm /\ UNCHANGED <<thread, connected>> /\ phase = "new" /\ phase' = "done"
    BY <1>1, OpenAndClose DEF ConnectFails, LifeInv
  <2>2. \A t \in Callers : ~Owner(t)
    BY <2>1 DEF LifeInv, NewIsQuiet, Owner
  <2>. QED
    BY <2>1, <2>2 DEF LifeInv, Calm, CallsOrdered, OwnerAlone, Unowned, NewIsQuiet, Owner
<1>2. CASE Stream \/ Server
  BY <1>2, ServerCalm, LifeUntouched DEF Stream, Server, client, LifeInv
<1>3. ASSUME NEW t \in Callers, Connect(t) \/ CallTool(t) \/ Close(t)
      PROVE  LifeInv'
  BY <1>3, StartsLife
<1>4. ASSUME NEW t \in Callers, CallStep(t)
      PROVE  LifeInv'
  BY <1>4, RequestLife, SendLife, EndsLife DEF CallStep
<1>5. CASE LoopStep
  BY <1>5, LoopLife
<1>. QED
  BY <1>1, <1>2, <1>3, <1>4, <1>5 DEF Next

LEMMA StutterLife ==
    ASSUME LifeInv, UNCHANGED vars
    PROVE  LifeInv'
<1>1. Calm /\ UNCHANGED <<thread, connected, phase>>
  BY DEF vars, transport, client, LifeInv, ServerShape, Calm
<1>. QED
  BY <1>1, LifeUntouched

\* Behind any of the transports, whenever Connect fails and whoever closes: when
\* neither is in progress a client is connected exactly if its transport is
\* open, and no server process runs without one.
THEOREM NoServerIsLeft == Spec => []NoServerLeft
<1>1. Init => LifeInv
  BY InitLife
<1>2. (IInv /\ LoopStarts) /\ LifeInv /\ [Next]_vars => LifeInv'
  BY StepLife, StutterLife DEF IInv
<1>3. LifeInv => NoServerLeft
  BY LifeIsExact
<1>. QED
  BY <1>1, <1>2, <1>3, Invariant, PTL DEF Spec

-----------------------------------------------------------------------------
(* The refinement of Connection *)

\* The calls of Connect and Close that the state of the client speaks of.
PhaseInv ==
    /\ phase \in {"new", "connecting", "done"} /\ closes \in Nat
    /\ phase # "done" => ~connected /\ closes = 0
    /\ \A t \in Callers : thread[t].op = "connect" => phase = "connecting"
    /\ \A t \in Callers : thread[t].op = "close" => phase = "done" /\ closes > 0 /\ ~connected

Closing == \E t \in Callers : thread[t].op = "close"

LEMMA StateMoves ==
    ASSUME NEW a, State = a, NEW b, State' = b,
           <<a, b>> \in {<<"new", "connecting">>, <<"new", "failed">>, <<"connecting", "connected">>,
                         <<"connecting", "failed">>, <<"connected", "closing">>, <<"closing", "closed">>}
    PROVE  Life!Next
<1>. DEFINE conn == [c \in {"client"} |-> State]
<1>1. conn["client"] = a /\ conn' = [conn EXCEPT !["client"] = b]
  OBVIOUS
<1>. QED
  BY <1>1 DEF Life!Next, Life!Begin, Life!Succeed, Life!Fail, Life!CloseBegins, Life!CloseEnds,
     Life!Moves

LEMMA StateStays ==
    ASSUME UNCHANGED <<phase, connected, closes>>, Closing' <=> Closing
    PROVE  State' = State
BY DEF State, Closing

\* Neither Connect nor Close begins or ends.
LEMMA PhaseStays ==
    ASSUME Shapes, PhaseInv, NEW t \in Callers, NEW m, Goes(t, m),
           UNCHANGED <<phase, connected, closes>>,
           m.op = thread[t].op \/ {m.op, thread[t].op} \subseteq {"none", "call"}
    PROVE  PhaseInv' /\ State' = State
<1>1. thread'[t] = m /\ \A u \in Callers \ {t} : thread'[u] = thread[u]
  BY GoesFacts
<1>2. Closing' <=> Closing
  BY <1>1 DEF Closing
<1>. QED
  BY <1>1, <1>2, StateStays DEF PhaseInv

LEMMA RefinesStarts ==
    ASSUME Shapes, LifeInv, PhaseInv, NEW t \in Callers, Connect(t) \/ CallTool(t) \/ Close(t)
    PROVE  PhaseInv' /\ (Life!Next \/ State' = State)
<1>1. thread[t].op = "none"
  BY DEF Connect, CallTool, Close, At, LifeInv, CallsOrdered
<1>2. CASE Connect(t)
  <2>. DEFINE m == [op |-> "connect", pc |-> "request", id |-> 0]
  <2>1. Goes(t, m) /\ phase = "new" /\ phase' = "connecting" /\ UNCHANGED <<connected, closes>>
    BY <1>2 DEF Connect, Goes
  <2>2. thread'[t] = m /\ \A u \in Callers \ {t} : thread'[u] = thread[u]
    BY <2>1, GoesFacts
  <2>3. State = "new" /\ State' = "connecting"
    BY <2>1 DEF State
  <2>4. PhaseInv'
    BY <2>1, <2>2 DEF PhaseInv
  <2>. QED
    BY <2>3, <2>4, StateMoves
<1>3. CASE CallTool(t)
  <2>1. Goes(t, [op |-> "call", pc |-> "request", id |-> 0])
    BY <1>3 DEF CallTool, Goes
  <2>. QED
    BY <1>1, <1>3, <2>1, PhaseStays DEF CallTool
<1>4. CASE Close(t)
  <2>. DEFINE m == [op |-> "close", pc |-> "fail", id |-> 0]
  <2>1. Goes(t, m) /\ connected /\ connected' = FALSE /\ phase' = phase /\ closes' = closes + 1
    BY <1>4 DEF Close, Goes
  <2>2. thread'[t] = m /\ \A u \in Callers \ {t} : thread'[u] = thread[u]
    BY <2>1, GoesFacts
  <2>3. phase = "done" /\ closes \in Nat
    BY <2>1 DEF PhaseInv
  <2>4. PhaseInv'
    BY <2>1, <2>2, <2>3 DEF PhaseInv
  <2>5. State = "connected" /\ State' = "closing"
    BY <2>1, <2>2, <2>3 DEF State
  <2>. QED
    BY <2>4, <2>5, StateMoves
<1>. QED
  BY <1>2, <1>3, <1>4

\* The last step of Connect, or of Close.
LEMMA RefinesEnds ==
    ASSUME Shapes, LifeInv, PhaseInv, NEW t \in Callers, Publish(t) \/ TransportClosed(t)
    PROVE  PhaseInv' /\ Life!Next
<1>1. Return(t) /\ UNCHANGED closes /\ Owner(t)
  BY DEF Publish, TransportClosed, At, LifeInv, CallsOrdered, Owner
<1>2. thread'[t] = Idle /\ \A u \in Callers \ {t} : thread'[u] = thread[u]
  BY <1>1, ReturnGoes, GoesFacts
<1>3. ~connected /\ \A u \in Callers : thread'[u].op \notin {"connect", "close"}
  BY <1>1, <1>2 DEF LifeInv, OwnerAlone, Owner, Idle
<1>4. CASE Publish(t)
  <2>1. thread[t].op = "connect" /\ connected' = TRUE /\ phase' = "done"
    BY <1>4 DEF Publish, At, LifeInv, CallsOrdered
  <2>2. State = "connecting" /\ State' = "connected"
    BY <2>1 DEF PhaseInv, State
  <2>3. PhaseInv'
    BY <1>1, <1>3, <2>1 DEF PhaseInv
  <2>. QED
    BY <2>2, <2>3, StateMoves
<1>5. CASE TransportClosed(t) /\ thread[t].op = "connect"
  <2>1. phase = "connecting" /\ phase' = "done" /\ UNCHANGED connected /\ closes = 0
    BY <1>5 DEF TransportClosed, PhaseInv
  <2>2. State = "connecting" /\ State' = "failed"
    BY <1>1, <1>3, <2>1 DEF State
  <2>3. PhaseInv'
    BY <1>1, <1>3, <2>1 DEF PhaseInv
  <2>. QED
    BY <2>2, <2>3, StateMoves
<1>6. CASE TransportClosed(t) /\ thread[t].op = "close"
  <2>1. phase = "done" /\ UNCHANGED <<phase, connected>> /\ closes > 0
    BY <1>6 DEF TransportClosed, PhaseInv
  <2>2. State = "closing" /\ State' = "closed"
    BY <1>1, <1>3, <1>6, <2>1 DEF State
  <2>3. PhaseInv'
    BY <1>1, <1>3, <2>1 DEF PhaseInv
  <2>. QED
    BY <2>2, <2>3, StateMoves
<1>. QED
  BY <1>1, <1>4, <1>5, <1>6 DEF Owner

\* A step of a call that is neither its first nor its last.
LEMMA RefinesCall ==
    ASSUME Shapes, LifeInv, PhaseInv, NEW t \in Callers, CallStep(t),
           ~(Publish(t) \/ TransportClosed(t))
    PROVE  PhaseInv' /\ State' = State
<1>1. UNCHANGED <<phase, connected, closes>>
  BY DEF CallStep, Register, Send, SendReturns, SendFails, SendPanics, TakeResponse, ContextEnds,
         Abandon, CloseTransport, client
<1>2. CASE SendPanics(t)
  BY <1>1, <1>2, StateStays DEF SendPanics, client, PhaseInv, Closing
<1>3. CASE Register(t)
  <2>1. Goes(t, [op |-> thread[t].op, pc |-> "send", id |-> reqID + 1])
    BY <1>3 DEF Register, Goes
  <2>. QED
    BY <1>1, <2>1, PhaseStays
<1>4. ASSUME NEW l, Goto(t, l)
      PROVE  PhaseInv' /\ State' = State
  <2>1. Goes(t, MovedTo(t, l)) /\ MovedTo(t, l).op = thread[t].op
    BY <1>4, GotoGoes DEF MovedTo
  <2>. QED
    BY <1>1, <2>1, PhaseStays
<1>5. CASE Return(t) /\ thread[t].op = "call"
  <2>1. Goes(t, Idle)
    BY <1>5, ReturnGoes
  <2>. QED
    BY <1>1, <1>5, <2>1, PhaseStays DEF Idle
<1>6. CASE Send(t) \/ SendReturns(t) \/ SendFails(t) \/ ContextEnds(t) \/ CloseTransport(t)
  BY <1>4, <1>6 DEF Send, SendReturns, SendFails, ContextEnds, CloseTransport
<1>7. CASE TakeResponse(t) \/ Abandon(t)
  <2>1. (Return(t) /\ thread[t].op = "call") \/ \E l : Goto(t, l)
    BY <1>7 DEF TakeResponse, Abandon
  <2>. QED
    BY <1>4, <1>5, <2>1
<1>. QED
  BY <1>2, <1>3, <1>6, <1>7 DEF CallStep

LEMMA RefinesStep ==
    ASSUME Shapes, LifeInv, PhaseInv, Next
    PROVE  PhaseInv' /\ (Life!Next \/ State' = State)
<1>1. CASE ConnectFails
  <2>1. phase = "new" /\ phase' = "done" /\ UNCHANGED <<thread, connected, closes>>
    BY <1>1 DEF ConnectFails, requests
  <2>2. ~connected /\ closes = 0 /\ \A t \in Callers : thread[t].op = "none"
    BY <2>1 DEF LifeInv, NewIsQuiet, PhaseInv
  <2>3. State = "new" /\ State' = "failed" /\ PhaseInv'
    BY <2>1, <2>2 DEF State, PhaseInv
  <2>. QED
    BY <2>3, StateMoves
<1>2. CASE LoopStep \/ Stream \/ Server
  <2>1. UNCHANGED <<thread, phase, connected, closes>>
    BY <1>2 DEF LoopStep, CheckStopped, Receive, ReadLine, ReadFails, Route, RoutePanics, Deliver, Stream,
       Server, client
  <2>. QED
    BY <2>1, StateStays DEF PhaseInv, Closing
<1>3. ASSUME NEW t \in Callers, Connect(t) \/ CallTool(t) \/ Close(t)
      PROVE  PhaseInv' /\ (Life!Next \/ State' = State)
  BY <1>3, RefinesStarts
<1>4. ASSUME NEW t \in Callers, CallStep(t)
      PROVE  PhaseInv' /\ (Life!Next \/ State' = State)
  BY <1>4, RefinesEnds, RefinesCall
<1>. QED
  BY <1>1, <1>2, <1>3, <1>4 DEF Next

\* For every server and any number of goroutines: to its owner the client is
\* what Connection says, which is what MCPManager takes it for.
THEOREM ClientImplementsConnection == Spec => ImplementsConnection
<1>. DEFINE I == IInv /\ LoopStarts /\ LifeInv /\ PhaseInv
            Conn == [c \in {"client"} |-> State]
<1>1. Init => I /\ Life!Init
  BY InitInv, InitLife DEF Init, LoopStarts, PhaseInv, Idle, State, Life!Init
<1>2. I /\ [Next]_vars => I' /\ (Life!Next \/ UNCHANGED Conn)
  <2>1. CASE I /\ Next
    BY <2>1, StepInv, StepStarts, StepLife, RefinesStep DEF IInv
  <2>2. CASE I /\ UNCHANGED vars
    <3>1. UNCHANGED <<thread, phase, connected, closes>>
      BY <2>2 DEF vars, client
    <3>2. PhaseInv' /\ State' = State
      BY <2>2, <3>1, StateStays DEF PhaseInv, Closing
    <3>. QED
      BY <2>2, <3>2, StutterInv, StutterLife
  <2>. QED
    BY <2>1, <2>2
<1>3. I /\ [Next]_vars => I' /\ [Life!Next]_Conn
  BY <1>2
<1>. QED
  BY <1>1, <1>3, PTL DEF Spec, Life!Spec, ImplementsConnection

-----------------------------------------------------------------------------
(* The session id                                                           *)

NoSession == T!H!NoSession

\* Request 1 is that of Connect.
FirstRequest ==
    /\ phase = "new" => reqID = 0
    /\ connected => reqID > 0
    /\ \A t \in Callers :
          /\ thread[t].op = "connect" => (thread[t].pc = "request" <=> reqID = 0)
          /\ thread[t].op = "call" => phase = "done" /\ reqID > 0
          /\ thread[t].pc \in InRequest => (thread[t].id = 1 <=> thread[t].op = "connect")

\* A POST is on its way for the request its goroutine is in.
PostsBelong ==
    \A t \in Callers :
        /\ posts[t].st \in {"none", "posted", "responded"}
        /\ posts[t].st # "none" => thread[t].pc \in {"sending", "notifying"} /\ type # "stdio"
        /\ posts[t].st = "posted" /\ thread[t].pc = "sending" => posts[t].n = thread[t].id
        /\ posts[t].st = "posted" /\ thread[t].pc = "notifying" => posts[t].n = 0

\* Connect has not yet kept what the response to initialize carries.
Early(t) == thread[t].op = "connect" /\ thread[t].pc \in {"request", "send", "sending"}

\* From then on the client has the id the server has assigned.
SessionAgreed ==
    /\ phase = "new" => sessionID = NoSession /\ assigned = NoSession
    /\ \A t \in Callers : Early(t) => /\ sessionID = NoSession
                                      /\ posts[t].st # "responded" => assigned = NoSession
    /\ phase # "new" /\ (\A t \in Callers : ~Early(t)) => sessionID = assigned

ResponsesAgree ==
    \A t \in Callers : posts[t].st = "responded" =>
        IF Early(t) THEN posts[t].session = assigned
        ELSE posts[t].session \in {assigned, NoSession}

PostShape == posts = [t \in Callers |-> posts[t]]

SessionInv == /\ PostShape /\ PostsBelong /\ ResponsesAgree /\ SessionCarried
              /\ crashed \/ SessionAgreed

\* During Connect no other goroutine is in a call.
LEMMA ConnectAlone ==
    ASSUME LifeInv, PhaseInv, FirstRequest, NEW t \in Callers, thread[t].op = "connect",
           NEW u \in Callers, u # t
    PROVE  /\ thread[u].op \notin {"connect", "call", "close"}
           /\ thread[u].pc \notin InRequest \cup {"request", "notify", "notifying", "publish", "fail", "reap"}
<1>1. thread[u].op \notin {"connect", "call", "close"}
  BY DEF LifeInv, OwnerAlone, Owner, PhaseInv, FirstRequest
<1>. QED
  BY <1>1 DEF LifeInv, CallsOrdered, Owner

\* A goroutine goes on in its call, or returns from a call of a tool.
LEMMA FirstGoesOn ==
    ASSUME Shapes, FirstRequest, NEW t \in Callers, NEW m, Goes(t, m),
           UNCHANGED <<reqID, connected, phase>>,
           \/ /\ m.op = thread[t].op /\ m.id = thread[t].id
              /\ m.pc # "request" /\ thread[t].pc # "request"
              /\ m.pc \in InRequest => thread[t].pc \in InRequest
           \/ m = Idle
    PROVE  FirstRequest'
<1>1. thread'[t] = m /\ \A u \in Callers \ {t} : thread'[u] = thread[u]
  BY GoesFacts
<1>2. CASE m = Idle
  BY <1>1, <1>2 DEF FirstRequest, Idle, InRequest
<1>3. CASE m.op = thread[t].op /\ m.id = thread[t].id
  BY <1>1, <1>3 DEF FirstRequest, Idle
<1>. QED
  BY <1>2, <1>3

LEMMA FirstStarts ==
    ASSUME Shapes, LifeInv, PhaseInv, FirstRequest, NEW t \in Callers,
           Connect(t) \/ CallTool(t) \/ Close(t) \/ Register(t)
    PROVE  FirstRequest'
<1>1. CASE Connect(t)
  <2>. DEFINE m == [op |-> "connect", pc |-> "request", id |-> 0]
  <2>1. Goes(t, m) /\ phase = "new" /\ phase' = "connecting" /\ UNCHANGED <<reqID, connected>>
    BY <1>1 DEF Connect, Goes, requests
  <2>2. thread'[t] = m /\ \A u \in Callers \ {t} : thread'[u] = thread[u]
    BY <2>1, GoesFacts
  <2>3. \A u \in Callers : thread[u].op = "none" /\ thread[u].pc = "idle"
    BY <2>1 DEF LifeInv, NewIsQuiet, CallsOrdered
  <2>. QED
    BY <2>1, <2>2, <2>3 DEF FirstRequest, InRequest
<1>2. CASE CallTool(t)
  <2>. DEFINE m == [op |-> "call", pc |-> "request", id |-> 0]
  <2>1. Goes(t, m) /\ connected /\ UNCHANGED <<reqID, connected, phase>>
    BY <1>2 DEF CallTool, Goes, requests
  <2>2. thread'[t] = m /\ \A u \in Callers \ {t} : thread'[u] = thread[u]
    BY <2>1, GoesFacts
  <2>. QED
    BY <2>1, <2>2 DEF FirstRequest, PhaseInv, InRequest
<1>3. CASE Close(t)
  <2>. DEFINE m == [op |-> "close", pc |-> "fail", id |-> 0]
  <2>1. Goes(t, m) /\ connected' = FALSE /\ UNCHANGED <<reqID, phase>>
    BY <1>3 DEF Close, Goes, requests
  <2>2. thread'[t] = m /\ \A u \in Callers \ {t} : thread'[u] = thread[u]
    BY <2>1, GoesFacts
  <2>. QED
    BY <2>1, <2>2 DEF FirstRequest, InRequest
<1>4. CASE Register(t)
  <2>. DEFINE m == [op |-> thread[t].op, pc |-> "send", id |-> reqID + 1]
  <2>1. /\ Goes(t, m) /\ thread[t].pc = "request" /\ reqID' = reqID + 1
        /\ UNCHANGED <<connected, phase>>
    BY <1>4 DEF Register, Goes, At
  <2>2. thread'[t] = m /\ \A u \in Callers \ {t} : thread'[u] = thread[u]
    BY <2>1, GoesFacts
  <2>3. thread[t].op \in {"connect", "call"} /\ reqID \in Nat
    BY <2>1 DEF LifeInv, CallsOrdered, Shapes
  <2>4. phase # "new"
    BY <2>3 DEF LifeInv, NewIsQuiet
  <2>5. CASE thread[t].op = "connect"
    <3>1. reqID = 0
      BY <2>1, <2>5 DEF FirstRequest
    <3>. QED
      BY <2>1, <2>2, <2>4, <2>5, <3>1, ConnectAlone DEF FirstRequest
  <2>6. CASE thread[t].op = "call"
    <3>1. reqID > 0 /\ \A u \in Callers : thread[u].op # "connect"
      BY <2>6 DEF FirstRequest, PhaseInv
    <3>. QED
      BY <2>1, <2>2, <2>3, <2>4, <2>6, <3>1 DEF FirstRequest
  <2>. QED
    BY <2>3, <2>5, <2>6
<1>. QED
  BY <1>1, <1>2, <1>3, <1>4

LEMMA FirstCalls ==
    ASSUME Shapes, LifeInv, PhaseInv, FirstRequest, NEW t \in Callers, CallStep(t), ~Register(t)
    PROVE  FirstRequest'
<1>1. CASE SendPanics(t)
  BY <1>1 DEF SendPanics, client, requests, FirstRequest
<1>2. ASSUME NEW l, Goto(t, l), l # "request", thread[t].pc # "request",
             l \in InRequest => thread[t].pc \in InRequest,
             UNCHANGED <<reqID, connected, phase>>
      PROVE  FirstRequest'
  <2>1. Goes(t, MovedTo(t, l))
    BY <1>2, GotoGoes
  <2>. QED
    BY <1>2, <2>1, FirstGoesOn DEF MovedTo
<1>3. CASE Return(t) /\ UNCHANGED <<reqID, connected, phase>>
  BY <1>3, ReturnGoes, FirstGoesOn
<1>4. CASE Send(t) \/ SendReturns(t) \/ SendFails(t) \/ ContextEnds(t) \/ CloseTransport(t)
  BY <1>2, <1>4 DEF Send, SendReturns, SendFails, ContextEnds, CloseTransport, At, InRequest,
     requests
<1>5. CASE TakeResponse(t) \/ Abandon(t)
  <2>1. UNCHANGED <<reqID, connected, phase>> /\ thread[t].pc \in {"wait", "abandon"}
    BY <1>5 DEF TakeResponse, Abandon, At
  <2>2. Return(t) \/ \E l \in {"notify", "fail"} : Goto(t, l)
    BY <1>5 DEF TakeResponse, Abandon
  <2>. QED
    BY <1>2, <1>3, <2>1, <2>2 DEF InRequest
<1>6. CASE Publish(t) \/ TransportClosed(t)
  <2>1. /\ Return(t) /\ UNCHANGED reqID /\ phase' \in {phase, "done"} /\ phase # "new"
        /\ connected' => connected \/ thread[t].pc = "publish"
    BY <1>6, Busy DEF Publish, TransportClosed, requests, At
  <2>2. thread'[t] = Idle /\ \A u \in Callers \ {t} : thread'[u] = thread[u]
    BY <2>1, ReturnGoes, GoesFacts
  <2>3. connected' => reqID > 0
    BY <2>1 DEF FirstRequest, LifeInv, CallsOrdered, Shapes
  <2>. QED
    BY <2>1, <2>2, <2>3 DEF FirstRequest, Idle, InRequest
<1>. QED
  BY <1>1, <1>4, <1>5, <1>6 DEF CallStep

LEMMA FirstStep ==
    ASSUME Shapes, LifeInv, PhaseInv, FirstRequest, Next
    PROVE  FirstRequest'
<1>1. CASE ConnectFails \/ Stream \/ Server \/ LoopStep
  <2>1. UNCHANGED <<thread, connected, reqID>> /\ (phase' = phase \/ phase' = "done")
    BY <1>1 DEF ConnectFails, Stream, Server, client, requests, LoopStep, CheckStopped, Receive,
       ReadLine, ReadFails, Route, RoutePanics, Deliver
  <2>. QED
    BY <2>1 DEF FirstRequest
<1>2. ASSUME NEW t \in Callers, Connect(t) \/ CallTool(t) \/ Close(t) \/ CallStep(t)
      PROVE  FirstRequest'
  BY <1>2, FirstStarts, FirstCalls
<1>. QED
  BY <1>1, <1>2 DEF Next

-----------------------------------------------------------------------------
(* What the transports do to the POSTs and to the session id                *)

Still == UNCHANGED <<type, posts, sessionID, assigned>>

LEMMA OpenStill ==
    ASSUME NEW t, \/ T!Connect \/ T!ConnectFails \/ T!CloseBegins(t) \/ T!CloseEnds(t)
                  \/ T!ReceiveRefused \/ T!ReceiveBegins \/ T!ReceiveEnds \/ T!ReceiveFails
                  \/ T!SendRefused \/ T!StreamStep
    PROVE  Still
<1>1. CASE \/ T!Connect \/ T!ConnectFails \/ T!CloseBegins(t) \/ T!CloseEnds(t) \/ T!SendRefused
  BY <1>1 DEF Still, T!Connect, T!ConnectFails, T!CloseBegins, T!CloseEnds, T!SendRefused,
     T!Stdio, T!HTTP, T!httpVars, T!H!Connect, T!H!Close, T!H!SendRefused, T!H!vars,
     T!H!serverSide
<1>2. CASE T!ReceiveRefused \/ T!ReceiveBegins \/ T!ReceiveEnds \/ T!ReceiveFails
  BY <1>2 DEF Still, T!ReceiveRefused, T!ReceiveBegins, T!ReceiveEnds, T!ReceiveFails, T!Stdio,
     T!HTTP, T!httpVars, T!H!ReceiveRefused, T!H!ReceiveBegins, T!H!ReceiveEnds,
     T!H!ReceiveFails, T!H!vars, T!H!serverSide
<1>3. CASE T!StreamStep
  BY <1>3 DEF Still, T!StreamStep, T!HTTP, T!H!StreamStep, T!H!SetResponse, T!H!PushEvent,
     T!H!StreamFails, T!H!onlyStream, T!H!serverSide
<1>. QED
  BY <1>1, <1>2, <1>3

LEMMA SendBeginsPosts ==
    ASSUME NEW t, NEW n, T!SendBegins(t, n)
    PROVE  /\ UNCHANGED <<type, sessionID, assigned>>
           /\ \/ type = "stdio" /\ UNCHANGED posts
              \/ /\ type # "stdio"
                 /\ posts' = [posts EXCEPT ![t] = [T!H!NoPost EXCEPT !.st = "posted", !.n = n,
                                                                   !.sid = sessionID]]
BY DEF T!SendBegins, T!Stdio, T!HTTP, T!httpVars, T!H!SendBegins

LEMMA SendLeaves ==
    ASSUME NEW t, NEW n, T!SendEnds(t, n) \/ T!SendBreaks(t) \/ T!SendPanics(t)
    PROVE  /\ UNCHANGED <<type, assigned>>
           /\ \/ type = "stdio" /\ UNCHANGED <<posts, sessionID>>
              \/ /\ posts[t].st = "responded"
                 /\ posts' = [posts EXCEPT ![t] = T!H!NoPost]
                 /\ sessionID' = IF posts[t].session = NoSession THEN sessionID ELSE posts[t].session
           /\ T!SendPanics(t) => crashed'
BY DEF T!SendEnds, T!SendBreaks, T!SendPanics, T!Stdio, T!HTTP, T!httpVars, T!H!SendEnds,
   T!H!SendBreaks, T!H!KeepSession, T!H!Offer, T!H!serverSide, NoSession

Responds(t) ==
    /\ posts[t].st = "posted"
    /\ UNCHANGED <<type, sessionID>>
    /\ \E msg, session :
          /\ session \in {assigned, NoSession} \/ posts[t].n = 1
          /\ assigned' = IF posts[t].n = 1 THEN session ELSE assigned
          /\ posts' = [posts EXCEPT ![t] = [T!H!NoPost EXCEPT !.st = "responded", !.msg = msg,
                                                             !.session = session]]

LEMMA ServerResponds ==
    ASSUME T!ServerStep
    PROVE  Still \/ \E t \in Callers : Responds(t)
<1>1. CASE T!Stdio(T!S!ServerStep)
  BY <1>1 DEF Still, T!Stdio, T!httpVars
<1>2. CASE T!H!ServerOpensStream \/ T!H!ServerSendsEvent \/ T!H!StreamFails
  BY <1>2 DEF Still, T!H!ServerOpensStream, T!H!ServerSendsEvent, T!H!StreamFails, T!H!onlyStream,
              T!H!serverSide
<1>3. ASSUME NEW t \in Callers, T!H!ServerResponds(t)
      PROVE  Responds(t)
  BY <1>3 DEF T!H!ServerResponds, Responds, NoSession
<1>. QED
  BY <1>1, <1>2, <1>3 DEF T!ServerStep, T!HTTP, T!H!ServerStep

-----------------------------------------------------------------------------
\* Nothing happens to the POSTs, and no goroutine with one moves.
LEMMA SessionStill ==
    ASSUME SessionInv, ~crashed, Still,
           \A u \in Callers : posts[u].st # "none" => thread'[u] = thread[u],
           \A u \in Callers : Early(u)' => Early(u) \/ phase = "new",
           phase' = "new" => phase = "new"
    PROVE  SessionInv'
<1>1. PostShape' /\ PostsBelong' /\ SessionCarried'
  BY DEF SessionInv, Still, PostShape, PostsBelong, SessionCarried
<1>2. \A u \in Callers : posts[u].st # "none" => (Early(u)' <=> Early(u))
  BY DEF Early
<1>3. ResponsesAgree'
  BY <1>2 DEF SessionInv, Still, ResponsesAgree
<1>4. SessionAgreed'
  <2>1. SessionAgreed
    BY DEF SessionInv
  <2>2. ASSUME \A u \in Callers : ~Early(u)'
        PROVE  sessionID = assigned
    <3>1. CASE \E u \in Callers : Early(u)
      BY <1>2, <2>1, <2>2, <3>1 DEF SessionAgreed
    <3>. QED
      BY <2>1, <3>1 DEF SessionAgreed
  <2>. QED
    BY <2>1, <2>2 DEF SessionAgreed, Still
<1>. QED
  BY <1>1, <1>3, <1>4 DEF SessionInv

\* A goroutine without a POST moves, and does not go back into the handshake.
LEMMA SessionMoves ==
    ASSUME Shapes, SessionInv, ~crashed, Still, NEW t \in Callers, NEW m, Goes(t, m),
           thread[t].pc \notin {"sending", "notifying"} \/ type = "stdio",
           m.op = "connect" /\ m.pc \in {"request", "send", "sending"} => Early(t) \/ phase = "new",
           phase' = "new" => phase = "new"
    PROVE  SessionInv'
<1>1. thread'[t] = m /\ \A u \in Callers \ {t} : thread'[u] = thread[u]
  BY GoesFacts
<1>2. posts[t].st = "none"
  BY DEF SessionInv, PostsBelong
<1>3. \A u \in Callers : posts[u].st # "none" => thread'[u] = thread[u]
  BY <1>1, <1>2
<1>4. \A u \in Callers : Early(u)' => Early(u) \/ phase = "new"
  BY <1>1 DEF Early
<1>. QED
  BY <1>3, <1>4, SessionStill

LEMMA SessionStarts ==
    ASSUME Shapes, SessionInv, ~crashed, NEW t \in Callers, Connect(t) \/ CallTool(t) \/ Close(t)
    PROVE  SessionInv'
<1>1. Still /\ thread[t].pc = "idle" /\ (phase' = "new" => phase = "new")
  BY OpenStill DEF Connect, CallTool, Close, transport, Still, At
<1>2. CASE Connect(t)
  <2>1. Goes(t, [op |-> "connect", pc |-> "request", id |-> 0]) /\ phase = "new"
    BY <1>2 DEF Connect, Goes
  <2>. QED
    BY <1>1, <2>1, SessionMoves
<1>3. CASE CallTool(t) \/ Close(t)
  <2>1. PICK m \in {[op |-> "call", pc |-> "request", id |-> 0],
                    [op |-> "close", pc |-> "fail", id |-> 0]} : Goes(t, m)
    BY <1>3 DEF CallTool, Close, Goes
  <2>. QED
    BY <1>1, <2>1, SessionMoves
<1>. QED
  BY <1>2, <1>3

\* The calls that send nothing.
LEMMA SessionCalls ==
    ASSUME Shapes, SessionInv, ~crashed, NEW t \in Callers,
           \/ Register(t) \/ TakeResponse(t) \/ ContextEnds(t) \/ Abandon(t)
           \/ Publish(t) \/ CloseTransport(t) \/ TransportClosed(t)
    PROVE  SessionInv'
<1>1. /\ Still /\ thread[t].pc \notin {"sending", "notifying"} /\ (phase' = "new" => phase = "new")
  BY OpenStill DEF Register, TakeResponse, ContextEnds, Abandon, Publish, CloseTransport,
     TransportClosed, transport, Still, At
<1>2. CASE Register(t)
  <2>1. Goes(t, [op |-> thread[t].op, pc |-> "send", id |-> reqID + 1]) /\ thread[t].pc = "request"
    BY <1>2 DEF Register, Goes, At
  <2>. QED
    BY <1>1, <2>1, SessionMoves DEF Early
<1>3. CASE Return(t)
  <2>1. Goes(t, Idle)
    BY <1>3, ReturnGoes
  <2>. QED
    BY <1>1, <2>1, SessionMoves DEF Idle
<1>4. CASE \E l \in {"notify", "fail", "abandon", "reap"} : Goto(t, l)
  <2>1. PICK l \in {"notify", "fail", "abandon", "reap"} : Goto(t, l)
    BY <1>4
  <2>2. Goes(t, MovedTo(t, l))
    BY <2>1, GotoGoes
  <2>. QED
    BY <1>1, <2>1, <2>2, SessionMoves DEF MovedTo
<1>. QED
  BY <1>2, <1>3, <1>4 DEF TakeResponse, ContextEnds, Abandon, Publish, CloseTransport,
     TransportClosed

LEMMA SessionSends ==
    ASSUME Shapes, LifeInv, PhaseInv, FirstRequest, SessionInv, ~crashed, NEW t \in Callers, Send(t)
    PROVE  SessionInv'
<1>1. PICK n, l : /\ T!SendBegins(t, n) /\ Goto(t, l) /\ UNCHANGED phase
                  /\ \/ thread[t].pc = "send" /\ l = "sending" /\ n = thread[t].id
                     \/ thread[t].pc = "notify" /\ l = "notifying" /\ n = 0
  BY DEF Send, At
<1>2. Goes(t, MovedTo(t, l))
  BY <1>1, GotoGoes
<1>3. thread'[t] = MovedTo(t, l) /\ \A u \in Callers \ {t} : thread'[u] = thread[u]
  BY <1>2, GoesFacts
<1>4. \A u \in Callers : Early(u)' <=> Early(u)
  BY <1>1, <1>3 DEF Early, MovedTo
<1>5. CASE type = "stdio"
  <2>1. Still
    BY <1>1, <1>5, SendBeginsPosts DEF Still
  <2>. QED
    BY <1>1, <1>2, <1>5, <2>1, SessionMoves DEF MovedTo, Early
<1>6. CASE type # "stdio"
  <2>. DEFINE p == [T!H!NoPost EXCEPT !.st = "posted", !.n = n, !.sid = sessionID]
  <2>1. UNCHANGED <<type, sessionID, assigned>> /\ posts' = [posts EXCEPT ![t] = p]
    BY <1>1, <1>6, SendBeginsPosts
  <2>2. p.st = "posted" /\ p.n = n /\ p.sid = sessionID
    BY DEF T!H!NoPost
  <2>3. posts'[t] = p /\ (\A u \in Callers \ {t} : posts'[u] = posts[u]) /\ PostShape'
    BY <2>1 DEF SessionInv, PostShape
  <2>4. PostsBelong'
    BY <1>1, <1>3, <1>6, <2>1, <2>2, <2>3 DEF SessionInv, PostsBelong, MovedTo
  <2>5. ResponsesAgree'
    BY <1>4, <2>1, <2>2, <2>3 DEF SessionInv, ResponsesAgree
  <2>6. posts[t].st = "none"
    BY <1>1 DEF SessionInv, PostsBelong
  <2>7. SessionAgreed'
    BY <1>1, <1>4, <2>1, <2>2, <2>3, <2>6 DEF SessionInv, SessionAgreed
  <2>8. n # 1 => sessionID = assigned
    <3>1. ASSUME n # 1
          PROVE  ~Early(t) /\ phase # "new"
      BY <1>1, <3>1 DEF FirstRequest, Early, InRequest, LifeInv, NewIsQuiet, CallsOrdered
    <3>2. ASSUME n # 1, NEW u \in Callers \ {t}
          PROVE  ~Early(u)
      BY <1>1, <3>2, ConnectAlone DEF Early, InRequest
    <3>. QED
      BY <3>1, <3>2 DEF SessionInv, SessionAgreed
  <2>9. SessionCarried'
    BY <2>1, <2>2, <2>3, <2>8 DEF SessionInv, SessionCarried
  <2>. QED
    BY <2>3, <2>4, <2>5, <2>7, <2>9 DEF SessionInv
<1>. QED
  BY <1>5, <1>6

\* A response is here: its session id is kept.
LEMMA SessionKept ==
    ASSUME LifeInv, PhaseInv, FirstRequest, SessionInv, ~crashed, NEW t \in Callers,
           UNCHANGED <<type, assigned, phase>>,
           posts[t].st = "responded", posts' = [posts EXCEPT ![t] = T!H!NoPost],
           sessionID' = IF posts[t].session = NoSession THEN sessionID ELSE posts[t].session,
           \A u \in Callers \ {t} : thread'[u] = thread[u],
           ~Early(t)' \/ crashed'
    PROVE  SessionInv'
<1>1. posts'[t] = T!H!NoPost /\ (\A u \in Callers \ {t} : posts'[u] = posts[u]) /\ PostShape'
  BY DEF SessionInv, PostShape
<1>2. posts'[t].st = "none"
  BY <1>1 DEF T!H!NoPost
<1>3. \A u \in Callers \ {t} : Early(u)' <=> Early(u)
  BY DEF Early
<1>4. PostsBelong' /\ ResponsesAgree' /\ SessionCarried'
  BY <1>1, <1>2, <1>3 DEF SessionInv, PostsBelong, ResponsesAgree, SessionCarried
<1>5. ASSUME ~Early(t)'
      PROVE  SessionAgreed'
  <2>1. thread[t].pc \in {"sending", "notifying"}
    BY DEF SessionInv, PostsBelong
  <2>2. phase # "new"
    BY <2>1 DEF LifeInv, NewIsQuiet, CallsOrdered
  <2>3. \A u \in Callers \ {t} : ~Early(u)
    BY <2>1, ConnectAlone DEF Early, InRequest
  <2>4. sessionID' = assigned
    BY <2>2, <2>3 DEF SessionInv, SessionAgreed, ResponsesAgree
  <2>. QED
    BY <1>3, <1>5, <2>2, <2>3, <2>4 DEF SessionAgreed
<1>. QED
  BY <1>1, <1>4, <1>5 DEF SessionInv

LEMMA SessionSent ==
    ASSUME Shapes, LifeInv, PhaseInv, FirstRequest, SessionInv, ~crashed, NEW t \in Callers,
           SendReturns(t) \/ SendFails(t) \/ SendPanics(t)
    PROVE  SessionInv'
<1>1. CASE SendPanics(t)
  <2>1. T!SendPanics(t) /\ UNCHANGED <<thread, phase>>
    BY <1>1 DEF SendPanics, client
  <2>2. crashed' /\ UNCHANGED <<type, assigned>>
    BY <2>1, SendLeaves
  <2>3. CASE UNCHANGED <<posts, sessionID>>
    BY <2>1, <2>2, <2>3, SessionStill DEF Still, Early
  <2>. QED
    BY <2>1, <2>2, <2>3, SendLeaves, SessionKept
<1>2. CASE SendReturns(t) \/ SendFails(t)
  <2>1. PICK n, l : /\ T!SendEnds(t, n) \/ T!SendBreaks(t) \/ (T!SendRefused /\ thread[t].pc = "send")
                    /\ Goto(t, l) /\ UNCHANGED phase /\ l \notin {"request", "send", "sending"}
    BY <1>2 DEF SendReturns, SendFails, At
  <2>2. Goes(t, MovedTo(t, l))
    BY <2>1, GotoGoes
  <2>3. thread'[t] = MovedTo(t, l) /\ \A u \in Callers \ {t} : thread'[u] = thread[u]
    BY <2>2, GoesFacts
  <2>4. CASE T!SendRefused /\ thread[t].pc = "send"
    BY <2>1, <2>2, <2>4, OpenStill, SessionMoves DEF MovedTo
  <2>5. CASE T!SendEnds(t, n) \/ T!SendBreaks(t)
    <3>1. CASE type = "stdio" /\ UNCHANGED <<posts, sessionID>>
      BY <2>1, <2>2, <2>5, <3>1, SendLeaves, SessionMoves DEF Still, MovedTo
    <3>2. ~Early(t)'
      BY <2>1, <2>3 DEF Early, MovedTo
    <3>. QED
      BY <2>1, <2>3, <2>5, <3>1, <3>2, SendLeaves, SessionKept
  <2>. QED
    BY <2>1, <2>4, <2>5
<1>. QED
  BY <1>1, <1>2

\* The server responds to initialize, and may assign a session id; or to
\* something else, and may repeat it.
LEMMA SessionResponds ==
    ASSUME LifeInv, PhaseInv, FirstRequest, SessionInv, ~crashed, NEW t \in Callers, Responds(t),
           UNCHANGED <<thread, phase>>
    PROVE  SessionInv'
<1>1. PICK msg, session :
         /\ session \in {assigned, NoSession} \/ posts[t].n = 1
         /\ assigned' = IF posts[t].n = 1 THEN session ELSE assigned
         /\ posts' = [posts EXCEPT ![t] = [T!H!NoPost EXCEPT !.st = "responded", !.msg = msg,
                                                            !.session = session]]
  BY DEF Responds
<1>2. posts[t].st = "posted" /\ UNCHANGED <<type, sessionID>> /\ thread[t].pc \in {"sending", "notifying"}
  BY DEF Responds, SessionInv, PostsBelong
<1>3. /\ posts'[t].st = "responded" /\ posts'[t].session = session
      /\ (\A u \in Callers \ {t} : posts'[u] = posts[u]) /\ PostShape'
  BY <1>1 DEF SessionInv, PostShape, T!H!NoPost
<1>4. \A u \in Callers : Early(u)' <=> Early(u)
  BY DEF Early
<1>5. PostsBelong'
  BY <1>2, <1>3 DEF SessionInv, PostsBelong
<1>6. posts[t].n = 1 <=> Early(t)
  BY <1>2 DEF SessionInv, PostsBelong, FirstRequest, Early, InRequest
<1>7. CASE Early(t)
  <2>1. \A u \in Callers \ {t} : posts[u].st = "none" /\ ~Early(u)
    BY <1>7, ConnectAlone DEF Early, SessionInv, PostsBelong, InRequest
  <2>2. ResponsesAgree' /\ SessionCarried'
    BY <1>1, <1>3, <1>4, <1>6, <1>7, <2>1 DEF ResponsesAgree, SessionCarried
  <2>3. phase # "new"
    BY <1>7 DEF Early, LifeInv, NewIsQuiet
  <2>4. SessionAgreed'
    BY <1>2, <1>3, <1>4, <1>7, <2>1, <2>3 DEF SessionInv, SessionAgreed
  <2>. QED
    BY <1>3, <1>5, <2>2, <2>4 DEF SessionInv
<1>8. CASE ~Early(t)
  <2>1. assigned' = assigned /\ session \in {assigned, NoSession}
    BY <1>1, <1>6, <1>8
  <2>2. ResponsesAgree' /\ SessionCarried'
    BY <1>3, <1>4, <1>8, <2>1 DEF SessionInv, ResponsesAgree, SessionCarried
  <2>3. SessionAgreed'
    BY <1>2, <1>3, <1>4, <1>8, <2>1 DEF SessionInv, SessionAgreed
  <2>. QED
    BY <1>3, <1>5, <2>2, <2>3 DEF SessionInv
<1>. QED
  BY <1>7, <1>8

LEMMA SessionStep ==
    ASSUME Shapes, LifeInv, PhaseInv, FirstRequest, SessionInv, Next
    PROVE  SessionInv'
<1>1. ~crashed
  BY DEF Next
<1>2. CASE ConnectFails
  <2>1. Still /\ phase' = "done" /\ UNCHANGED thread
    BY <1>2, OpenStill DEF ConnectFails
  <2>. QED
    BY <1>1, <2>1, SessionStill DEF Early
<1>3. CASE LoopStep \/ Stream
  <2>1. Still /\ UNCHANGED <<thread, phase>>
    BY <1>3, OpenStill DEF LoopStep, CheckStopped, Receive, ReadLine, ReadFails, Route, RoutePanics, Deliver,
       Stream, client, transport, Still
  <2>. QED
    BY <1>1, <2>1, SessionStill DEF Early
<1>4. CASE Server
  <2>1. UNCHANGED <<thread, phase>> /\ (Still \/ \E t \in Callers : Responds(t))
    BY <1>4, ServerResponds DEF Server, client
  <2>2. CASE Still
    BY <1>1, <2>1, <2>2, SessionStill DEF Early
  <2>. QED
    BY <1>1, <2>1, <2>2, SessionResponds
<1>5. ASSUME NEW t \in Callers, Connect(t) \/ CallTool(t) \/ Close(t)
      PROVE  SessionInv'
  BY <1>1, <1>5, SessionStarts
<1>6. ASSUME NEW t \in Callers, CallStep(t)
      PROVE  SessionInv'
  BY <1>1, <1>6, SessionCalls, SessionSends, SessionSent DEF CallStep
<1>. QED
  BY <1>2, <1>3, <1>4, <1>5, <1>6 DEF Next

LEMMA InitSession == Init => FirstRequest /\ SessionInv
<1>. SUFFICES ASSUME Init PROVE FirstRequest /\ SessionInv
  OBVIOUS
<1>1. /\ posts = [t \in Callers |-> T!H!NoPost]
      /\ sessionID = NoSession /\ assigned = NoSession
  BY DEF Init, T!Init, T!H!Init, NoSession
<1>2. \A t \in Callers : posts[t].st = "none"
  BY <1>1 DEF T!H!NoPost
<1>3. FirstRequest
  BY DEF Init, FirstRequest, Idle, InRequest
<1>4. PostShape
  BY <1>1 DEF PostShape
<1>5. PostsBelong /\ ResponsesAgree /\ SessionCarried
  BY <1>2 DEF PostsBelong, ResponsesAgree, SessionCarried
<1>6. SessionAgreed
  BY <1>1 DEF Init, Idle, SessionAgreed, Early
<1>. QED
  BY <1>3, <1>4, <1>5, <1>6 DEF SessionInv

(* Send: for any number of goroutines, and whatever order the responses     *)
(* come in, every POST after that of initialize carries the session id the  *)
(* server has assigned with its response to initialize.                     *)
THEOREM SessionIsCarried == Spec => []SessionCarried
<1>. DEFINE I == LifeInv /\ PhaseInv /\ FirstRequest /\ SessionInv
<1>1. Init => I
  BY InitLife, InitSession DEF Init, PhaseInv, Idle
<1>2. (IInv /\ LoopStarts) /\ I /\ [Next]_vars => I'
  <2>1. CASE IInv /\ I /\ Next
    BY <2>1, StepLife, RefinesStep, FirstStep, SessionStep DEF IInv
  <2>2. CASE I /\ UNCHANGED vars
    <3>1. UNCHANGED <<thread, phase, connected, closes, reqID>> /\ Still /\ UNCHANGED crashed
      BY <2>2 DEF vars, client, requests, transport, Still
    <3>2. PhaseInv' /\ FirstRequest'
      BY <2>2, <3>1 DEF PhaseInv, FirstRequest
    <3>3. SessionInv'
      BY <2>2, <3>1 DEF SessionInv, Still, PostShape, PostsBelong, ResponsesAgree, SessionCarried,
                        SessionAgreed, Early
    <3>. QED
      BY <2>2, <3>2, <3>3, StutterLife
  <2>. QED
    BY <2>1, <2>2
<1>3. I => SessionCarried
  BY DEF SessionInv
<1>. QED
  BY <1>1, <1>2, <1>3, Invariant, PTL DEF Spec

-----------------------------------------------------------------------------
(* The refinement of RequestReply: the requests that are made               *)

\* Goroutines that are about to make a request; with what they make there are
\* never more than there are numbers.
Making == {t \in Callers : thread[t].pc = "request"}
Bounded == reqID + Cardinality(Making) <= MaxRequests

\* A request is open as long as its goroutine waits.
OutcomesFit ==
    /\ outcome = [r \in Requests |-> outcome[r]]
    /\ \A r \in Requests : /\ outcome[r] = "unmade" <=> r > reqID
                           /\ Waiting(r) => outcome[r] = "open"

RequestsInv == Bounded /\ OutcomesFit

LEMMA MakingFinite == IsFiniteSet(Making) /\ Cardinality(Making) \in Nat
<1>1. IsFiniteSet(Making)
  BY MCPAssumption, FS_Subset DEF Making
<1>. QED
  BY <1>1, FS_CardinalityType

LEMMA BoundedMoves ==
    ASSUME Shapes, Bounded, NEW t \in Callers, NEW m, Goes(t, m), m.pc # "request",
           reqID' = IF thread[t].pc = "request" THEN reqID + 1 ELSE reqID
    PROVE  Bounded'
<1>1. thread'[t] = m /\ \A u \in Callers \ {t} : thread'[u] = thread[u]
  BY GoesFacts
<1>2. CASE thread[t].pc # "request"
  <2>1. Making' = Making
    BY <1>1, <1>2 DEF Making
  <2>. QED
    BY <1>2, <2>1 DEF Bounded
<1>3. CASE thread[t].pc = "request"
  <2>1. Making' = Making \ {t} /\ t \in Making
    BY <1>1, <1>3 DEF Making
  <2>2. Cardinality(Making') = Cardinality(Making) - 1
    BY <2>1, MakingFinite, FS_RemoveElement
  <2>. QED
    BY <1>3, <2>2, MakingFinite, MCPAssumption DEF Bounded, Shapes
<1>. QED
  BY <1>2, <1>3

LEMMA BoundedStarts ==
    ASSUME Shapes, LifeInv, FirstRequest, Bounded, NEW t \in Callers, Connect(t) \/ CallTool(t)
    PROVE  Bounded'
<1>1. PICK m \in {[op |-> "connect", pc |-> "request", id |-> 0],
                [op |-> "call", pc |-> "request", id |-> 0]} : Goes(t, m)
  BY DEF Connect, CallTool, Goes
<1>2. thread'[t] = m /\ \A u \in Callers \ {t} : thread'[u] = thread[u]
  BY <1>1, GoesFacts
<1>3. UNCHANGED reqID /\ t \notin Making
  BY DEF Connect, CallTool, requests, Making, At
<1>4. Making' = Making \cup {t}
  BY <1>1, <1>2 DEF Making
<1>5. Cardinality(Making') = Cardinality(Making) + 1
  BY <1>3, <1>4, MakingFinite, FS_AddElement
<1>6. reqID + Cardinality(Making) < MaxRequests
  <2>1. CASE Connect(t)
    <3>1. phase = "new"
      BY <2>1 DEF Connect
    <3>2. Making = {} /\ reqID = 0
      BY <3>1 DEF Making, LifeInv, NewIsQuiet, CallsOrdered, FirstRequest
    <3>. QED
      BY <3>2, FS_EmptySet, MCPAssumption
  <2>2. CASE CallTool(t)
    <3>1. Making = {u \in Callers : At(u, "request")}
      BY DEF Making, At
    <3>. QED
      BY <2>2, <3>1, MakingFinite, MCPAssumption DEF CallTool, Shapes
  <2>. QED
    BY <2>1, <2>2
<1>. QED
  BY <1>3, <1>5, <1>6, MakingFinite, MCPAssumption DEF Bounded, Shapes

\* Goroutine t makes the next request, which has a number.
LEMMA MakesRequest ==
    ASSUME IInv, RequestsInv, NEW t \in Callers, Register(t)
    PROVE  RequestsInv' /\ \E r \in Requests : 
              outcome[r] = "unmade" /\ outcome' = [outcome EXCEPT ![r] = "open"]
<1>. DEFINE m == [op |-> thread[t].op, pc |-> "send", id |-> reqID + 1]
<1>1. /\ Goes(t, m) /\ thread[t].pc = "request" /\ reqID' = reqID + 1 /\ reqID \in Nat
      /\ outcome' = [outcome EXCEPT ![reqID + 1] = "open"]
  BY DEF Register, Goes, At, IInv, Shapes
<1>2. thread'[t] = m /\ \A u \in Callers \ {t} : thread'[u] = thread[u]
  BY <1>1, GoesFacts DEF IInv
<1>3. reqID + 1 \in Requests
  <2>1. Making # {}
    BY <1>1 DEF Making
  <2>2. Cardinality(Making) > 0
    BY <2>1, MakingFinite, FS_EmptySet
  <2>. QED
    BY <1>1, <2>2, MakingFinite, MCPAssumption DEF RequestsInv, Bounded, Requests
<1>4. Bounded'
  BY <1>1, BoundedMoves DEF IInv, RequestsInv
<1>5. outcome[reqID + 1] = "unmade"
  BY <1>1, <1>3 DEF RequestsInv, OutcomesFit
<1>6. OutcomesFit'
  <2>1. \A r \in Requests : r # reqID + 1 => (Waiting(r)' => Waiting(r))
    BY <1>2 DEF Waiting
  <2>2. \A r \in Requests : outcome'[r] = IF r = reqID + 1 THEN "open" ELSE outcome[r]
    BY <1>1 DEF RequestsInv, OutcomesFit
  <2>. QED
    <3>1. outcome' = [r \in Requests |-> outcome'[r]]
      BY <1>1 DEF RequestsInv, OutcomesFit
    <3>2. \A r \in Requests : r \in Nat /\ (r > reqID' <=> r > reqID /\ r # reqID + 1)
      BY <1>1, MCPAssumption DEF Requests
    <3>3. ASSUME NEW r \in Requests
          PROVE  /\ outcome'[r] = "unmade" <=> r > reqID'
                 /\ Waiting(r)' => outcome'[r] = "open"
      BY <2>1, <2>2, <3>2 DEF RequestsInv, OutcomesFit
    <3>. QED
      BY <3>1, <3>3 DEF OutcomesFit
<1>. QED
  BY <1>1, <1>3, <1>4, <1>5, <1>6 DEF RequestsInv

\* Goroutine t ends its request.
LEMMA EndsRequest ==
    ASSUME IInv, RequestsInv, NEW t \in Callers, NEW m, Goes(t, m), thread[t].pc \in InRequest,
           m.pc \notin InRequest, m.pc # "request", UNCHANGED reqID,
           NEW x \in {"answered", "failed"}, outcome' = [outcome EXCEPT ![thread[t].id] = x]
    PROVE  RequestsInv' /\ thread[t].id \in Requests /\ outcome[thread[t].id] = "open"
<1>. DEFINE id == thread[t].id
<1>1. thread'[t] = m /\ \A u \in Callers \ {t} : thread'[u] = thread[u]
  BY GoesFacts DEF IInv
<1>2. Bounded'
  BY BoundedMoves DEF IInv, RequestsInv, InRequest
<1>3. id \in 1 .. reqID /\ reqID \in Nat
  BY DEF IInv, IdsUnique, Shapes
<1>4. id \in Requests
  BY <1>3, MakingFinite, MCPAssumption DEF RequestsInv, Bounded, Requests
<1>5. outcome[id] = "open"
  BY <1>4 DEF RequestsInv, OutcomesFit, Waiting, InRequest
<1>6. \A r \in Requests : r = id => ~Waiting(r)'
  BY <1>1 DEF Waiting, IInv, IdsUnique, InRequest
<1>7. \A r \in Requests : Waiting(r)' => Waiting(r)
  BY <1>1 DEF Waiting, InRequest
<1>8. \A r \in Requests : outcome'[r] = IF r = id THEN x ELSE outcome[r]
  BY DEF RequestsInv, OutcomesFit
<1>9. OutcomesFit'
  BY <1>3, <1>4, <1>5, <1>6, <1>7, <1>8, MCPAssumption DEF RequestsInv, OutcomesFit, Requests
<1>. QED
  BY <1>2, <1>4, <1>5, <1>9 DEF RequestsInv

\* Nobody begins or ends a request.
LEMMA RequestsStay ==
    ASSUME IInv, RequestsInv, NEW t \in Callers, NEW m, Goes(t, m), UNCHANGED <<reqID, outcome>>,
           m.pc # "request", thread[t].pc # "request",
           m.pc \in InRequest => thread[t].pc \in InRequest /\ m.id = thread[t].id
    PROVE  RequestsInv'
<1>1. thread'[t] = m /\ \A u \in Callers \ {t} : thread'[u] = thread[u]
  BY GoesFacts DEF IInv
<1>2. Bounded'
  BY BoundedMoves DEF IInv, RequestsInv
<1>3. \A r \in Requests : Waiting(r)' => Waiting(r)
  BY <1>1 DEF Waiting, InRequest
<1>. QED
  BY <1>2, <1>3 DEF RequestsInv, OutcomesFit

LEMMA RequestsUntouched ==
    ASSUME RequestsInv, UNCHANGED <<thread, reqID, outcome>>
    PROVE  RequestsInv'
<1>1. Making' = Making /\ \A r \in Requests : Waiting(r)' <=> Waiting(r)
  BY DEF Making, Waiting
<1>. QED
  BY <1>1 DEF RequestsInv, Bounded, OutcomesFit

LEMMA RequestsStart ==
    ASSUME IInv, LifeInv, FirstRequest, RequestsInv, NEW t \in Callers,
           Connect(t) \/ CallTool(t) \/ Close(t)
    PROVE  RequestsInv' /\ UNCHANGED <<outcome, reqID>>
<1>1. UNCHANGED <<outcome, reqID>> /\ thread[t].pc = "idle"
  BY DEF Connect, CallTool, Close, requests, At
<1>2. PICK m \in {[op |-> "connect", pc |-> "request", id |-> 0],
                [op |-> "call", pc |-> "request", id |-> 0],
                [op |-> "close", pc |-> "fail", id |-> 0]} :
         Goes(t, m) /\ (m.pc = "fail" \/ Connect(t) \/ CallTool(t))
  BY DEF Connect, CallTool, Close, Goes
<1>3. CASE m.pc = "fail"
  BY <1>1, <1>2, <1>3, RequestsStay DEF InRequest
<1>4. CASE Connect(t) \/ CallTool(t)
  <2>1. Bounded'
    BY <1>4, BoundedStarts DEF IInv, RequestsInv
  <2>2. thread'[t] = m /\ \A u \in Callers \ {t} : thread'[u] = thread[u]
    BY <1>2, GoesFacts DEF IInv
  <2>3. \A r \in Requests : Waiting(r)' => Waiting(r)
    BY <1>2, <2>2 DEF Waiting
  <2>. QED
    BY <1>1, <2>1, <2>3 DEF RequestsInv, OutcomesFit
<1>. QED
  BY <1>1, <1>2, <1>3, <1>4

-----------------------------------------------------------------------------
(* The refinement of RequestReply: what is heard of a request               *)

Messages == [kind : {"answer", "notification", "garbage", "failure", "none"}, id : Nat, ok : BOOLEAN]

\* No answer but to a request that the server has read.
Heard == {msg \in Messages : msg.kind = "answer" => msg.id \in read}

PipesHeard ==
    /\ stdin = [open |-> stdin.open, q |-> stdin.q] /\ stdin.q \in Seq(0 .. reqID)
    /\ stdout = [open |-> stdout.open, q |-> stdout.q] /\ stdout.q \in Seq(Heard)
    /\ server = [st |-> server.st, out |-> server.out] /\ server.out \in Heard

HTTPHeard ==
    /\ msgChan = [closed |-> msgChan.closed, q |-> msgChan.q] /\ msgChan.q \in Seq(Heard)
    /\ PostShape /\ \A t \in Callers : posts[t].msg \in Heard
    /\ stream = [pc |-> stream.pc, cancelled |-> stream.cancelled, shut |-> stream.shut,
                 msg |-> stream.msg]
    /\ stream.msg \in Heard

\* What the server has read was made.
ReadMade == reqID \in Nat /\ read \subseteq 1 .. reqID

TransportHeard == PipesHeard /\ HTTPHeard /\ ReadMade

\* At most one request more has been read.
ReadsOne == read' = read \/ \E n \in 1 .. reqID : read' = read \cup {n}

LEMMA MessagesHeard ==
    /\ \A msg \in T!S!Lines \cup T!H!Answers : msg \in Messages /\ (msg.kind = "answer" => msg.id > 0)
    /\ {T!S!NoLine, T!H!Notification, T!H!Failure} \subseteq Heard
<1>1. \A id \in 1 .. MaxRequests : id \in Nat /\ id > 0
  BY MCPAssumption
<1>2. \A msg \in [kind : {"answer"}, id : 1 .. MaxRequests, ok : BOOLEAN] :
         msg \in Messages /\ msg.id > 0
  BY <1>1 DEF Messages
<1>3. \A msg \in [kind : {"notification", "garbage"}, id : {0}, ok : {FALSE}] :
         msg \in Messages /\ msg.kind # "answer"
  <2>. TAKE msg \in [kind : {"notification", "garbage"}, id : {0}, ok : {FALSE}]
  <2>1. msg = [kind |-> msg.kind, id |-> 0, ok |-> FALSE] /\ msg.kind \in {"notification", "garbage"}
    OBVIOUS
  <2>2. \A k \in {"notification", "garbage"} : [kind |-> k, id |-> 0, ok |-> FALSE] \in Messages
    BY DEF Messages
  <2>3. msg \in Messages
    BY <2>1, <2>2
  <2>. QED
    BY <2>1, <2>3
<1>4. {T!S!NoLine, T!H!Notification, T!H!Failure} \subseteq Heard
  BY DEF Messages, Heard, T!S!NoLine, T!H!Notification, T!H!Failure
<1>. QED
  BY <1>2, <1>3, <1>4 DEF T!S!Lines, T!H!Answers

LEMMA HeardGrows ==
    ASSUME ReadMade, read \subseteq read', reqID' \in {reqID, reqID + 1}
    PROVE  /\ Heard \subseteq Heard'
           /\ \A s \in Seq(Heard) : s \in Seq(Heard')
           /\ \A s \in Seq(0 .. reqID) : s \in Seq(0 .. reqID')
<1>1. Heard \subseteq Heard'
  BY DEF Heard
<1>2. 0 .. reqID \subseteq 0 .. reqID'
  BY DEF ReadMade
<1>. QED
  BY <1>1, <1>2, SeqMonotonic

LEMMA PipesStay ==
    ASSUME PipesHeard, ReadMade, read \subseteq read', reqID' \in {reqID, reqID + 1},
           UNCHANGED <<stdin, stdout, server>>
    PROVE  PipesHeard'
BY HeardGrows DEF PipesHeard

LEMMA HTTPStays ==
    ASSUME HTTPHeard, ReadMade, read \subseteq read', reqID' \in {reqID, reqID + 1},
           UNCHANGED <<msgChan, posts, stream>>
    PROVE  HTTPHeard'
BY HeardGrows DEF HTTPHeard, PostShape

\* The client's side of the pipes.
LEMMA PipesOfClient ==
    ASSUME PipesHeard, ReadMade, UNCHANGED reqID, NEW t, NEW n \in 0 .. reqID,
           \/ T!S!Connect \/ T!S!CloseBegins(t) \/ T!S!CloseEnds(t) \/ T!S!ServerExits
           \/ T!S!SendEnds(t, n) \/ T!S!ReceiveEnds
    PROVE  PipesHeard' /\ UNCHANGED read
<1>1. UNCHANGED read /\ Heard' = Heard
  BY DEF T!S!Connect, T!S!CloseBegins, T!S!CloseEnds, T!S!ServerExits, T!S!SendEnds,
     T!S!ReceiveEnds, T!S!process, Heard
<1>2. CASE T!S!Connect \/ T!S!CloseBegins(t) \/ T!S!CloseEnds(t) \/ T!S!ServerExits
  <2>1. /\ stdin'.q = stdin.q /\ stdout'.q = stdout.q /\ server'.out = server.out
        /\ stdin' = [open |-> stdin'.open, q |-> stdin'.q]
        /\ stdout' = [open |-> stdout'.open, q |-> stdout'.q]
        /\ server' = [st |-> server'.st, out |-> server'.out]
    BY <1>2 DEF T!S!Connect, T!S!CloseBegins, T!S!CloseEnds, T!S!ServerExits, T!S!pipes,
       T!S!process, PipesHeard
  <2>. QED
    BY <1>1, <2>1 DEF PipesHeard
<1>3. CASE T!S!SendEnds(t, n)
  <2>1. /\ stdin' = [open |-> stdin.open, q |-> Append(stdin.q, n)]
        /\ UNCHANGED <<stdout, server>>
    BY <1>3 DEF T!S!SendEnds, T!S!process, PipesHeard
  <2>2. Append(stdin.q, n) \in Seq(0 .. reqID)
    BY DEF PipesHeard
  <2>. QED
    BY <1>1, <2>1, <2>2 DEF PipesHeard
<1>4. CASE T!S!ReceiveEnds
  <2>1. /\ stdout' = [open |-> stdout.open, q |-> Tail(stdout.q)] /\ stdout.q # <<>>
        /\ UNCHANGED <<stdin, server>>
    BY <1>4 DEF T!S!ReceiveEnds, T!S!process, PipesHeard
  <2>2. Tail(stdout.q) \in Seq(Heard)
    BY <2>1, HeadTailProperties DEF PipesHeard
  <2>. QED
    BY <1>1, <2>1, <2>2 DEF PipesHeard
<1>. QED
  BY <1>1, <1>2, <1>3, <1>4

\* The server's side.
LEMMA PipesOfServer ==
    ASSUME PipesHeard, ReadMade, UNCHANGED reqID, T!S!ServerStep
    PROVE  PipesHeard' /\ ReadsOne
<1>1. CASE T!S!ServerExits
  BY <1>1, PipesOfClient DEF ReadsOne, ReadMade
<1>2. CASE T!S!ServerReads
  <2>. DEFINE n == Head(stdin.q)
  <2>1. n \in 0 .. reqID /\ Tail(stdin.q) \in Seq(0 .. reqID)
    BY <1>2, HeadTailProperties DEF T!S!ServerReads, PipesHeard
  <2>2. /\ read' = read \cup ({n} \ {0}) /\ UNCHANGED stdout
        /\ stdin' = [open |-> stdin.open, q |-> Tail(stdin.q)]
    BY <1>2 DEF T!S!ServerReads, PipesHeard
  <2>3. ReadsOne /\ read \subseteq read' /\ (n > 0 => n \in read')
    <3>1. CASE n = 0
      BY <2>2, <3>1 DEF ReadsOne
    <3>2. CASE n \in 1 .. reqID
      <4>1. read' = read \cup {n}
        BY <2>2, <3>2
      <4>. QED
        BY <3>2, <4>1 DEF ReadsOne
    <3>. QED
      BY <2>1, <3>1, <3>2 DEF ReadMade
  <2>4. stdout.q \in Seq(Heard') /\ Heard \subseteq Heard'
    BY <2>3, HeardGrows DEF PipesHeard
  <2>5. server' = [st |-> server'.st, out |-> server'.out] /\ server'.out \in Heard'
    <3>1. CASE server' = server
      BY <2>4, <3>1 DEF PipesHeard
    <3>2. ASSUME NEW line \in T!S!Lines, n > 0, line.id = n, server' = [server EXCEPT !.out = line]
          PROVE  server' = [st |-> server'.st, out |-> server'.out] /\ server'.out \in Heard'
      <4>1. line \in Heard'
        BY <2>3, <3>2, MessagesHeard DEF Heard
      <4>. QED
        BY <3>2, <4>1 DEF PipesHeard
    <3>3. server' = server \/ \E line \in T!S!Lines : n > 0 /\ line.id = n
                                                     /\ server' = [server EXCEPT !.out = line]
      BY <1>2 DEF T!S!ServerReads
    <3>. QED
      BY <3>1, <3>2, <3>3
  <2>. QED
    BY <2>1, <2>2, <2>3, <2>4, <2>5 DEF PipesHeard
<1>3. CASE T!S!ServerAdds
  <2>1. PICK line \in T!S!Lines : line.id \in read \cup {0} /\ server' = [server EXCEPT !.out = line]
    BY <1>3 DEF T!S!ServerAdds
  <2>2. line \in Heard
    BY <2>1, MessagesHeard DEF Heard
  <2>3. UNCHANGED <<stdin, stdout, read>> /\ Heard' = Heard
    BY <1>3 DEF T!S!ServerAdds, T!S!pipes, Heard
  <2>. QED
    BY <2>1, <2>2, <2>3 DEF PipesHeard, ReadsOne
<1>4. CASE T!S!ServerWrites
  <2>1. /\ stdout' = [open |-> stdout.open, q |-> Append(stdout.q, server.out)]
        /\ server' = [st |-> server.st, out |-> T!S!NoLine]
        /\ UNCHANGED <<stdin, read>> /\ Heard' = Heard
    BY <1>4 DEF T!S!ServerWrites, PipesHeard, Heard
  <2>2. Append(stdout.q, server.out) \in Seq(Heard)
    BY DEF PipesHeard
  <2>. QED
    BY <2>1, <2>2, MessagesHeard DEF PipesHeard, ReadsOne
<1>. QED
  BY <1>1, <1>2, <1>3, <1>4 DEF T!S!ServerStep

LEMMA OfferHeard ==
    ASSUME HTTPHeard, UNCHANGED read, NEW msg \in Heard, T!H!Offer(msg)
    PROVE  msgChan' = [closed |-> msgChan'.closed, q |-> msgChan'.q] /\ msgChan'.q \in Seq(Heard)
<1>1. Append(msgChan.q, msg) \in Seq(Heard)
  BY DEF HTTPHeard
<1>2. \/ msgChan' = msgChan
      \/ msgChan' = [closed |-> msgChan.closed, q |-> Append(msgChan.q, msg)]
  BY DEF T!H!Offer, HTTPHeard
<1>. QED
  BY <1>1, <1>2 DEF HTTPHeard

\* What HTTP does on the side of the client.
LEMMA HTTPOfClient ==
    ASSUME HTTPHeard, ReadMade, UNCHANGED reqID, NEW t, NEW n \in 0 .. reqID,
           \/ T!H!Connect \/ T!H!Close \/ T!H!SendBegins(t, n)
           \/ (t \in Callers /\ T!H!SendEnds(t)) \/ T!H!SendBreaks(t)
           \/ T!H!ReceiveEnds \/ T!H!SetResponse \/ T!H!PushEvent \/ T!H!StreamFails
    PROVE  HTTPHeard' /\ ReadsOne
<1>1. CASE T!H!SendBegins(t, n)
  <2>. DEFINE p == [T!H!NoPost EXCEPT !.st = "posted", !.n = n, !.sid = sessionID]
  <2>1. /\ posts' = [posts EXCEPT ![t] = p] /\ read' = read \cup ({n} \ {0})
        /\ UNCHANGED <<msgChan, stream>>
    BY <1>1 DEF T!H!SendBegins
  <2>2. ReadsOne /\ read \subseteq read'
    BY <2>1 DEF ReadsOne, ReadMade
  <2>3. msgChan.q \in Seq(Heard') /\ Heard \subseteq Heard'
    BY <2>2, HeardGrows DEF HTTPHeard
  <2>4. p.msg \in Heard
    BY MessagesHeard DEF T!H!NoPost
  <2>. QED
    BY <2>1, <2>2, <2>3, <2>4 DEF HTTPHeard, PostShape
<1>2. ASSUME UNCHANGED read
      PROVE  HTTPHeard' /\ ReadsOne
  <2>1. Heard' = Heard /\ ReadsOne
    BY <1>2 DEF Heard, ReadsOne
  <2>2. CASE T!H!Connect \/ T!H!Close \/ T!H!SetResponse \/ T!H!StreamFails
    <3>1. /\ msgChan' = [closed |-> msgChan'.closed, q |-> msgChan.q] /\ UNCHANGED posts
          /\ stream' = [pc |-> stream'.pc, cancelled |-> stream'.cancelled, shut |-> stream'.shut,
                        msg |-> stream.msg]
      BY <2>2 DEF T!H!Connect, T!H!Close, T!H!SetResponse, T!H!StreamFails, T!H!StreamGoto,
         T!H!onlyStream, HTTPHeard
    <3>. QED
      BY <2>1, <3>1 DEF HTTPHeard, PostShape
  <2>3. CASE (t \in Callers /\ T!H!SendEnds(t)) \/ T!H!SendBreaks(t)
    <3>1. posts' = [posts EXCEPT ![t] = T!H!NoPost] /\ UNCHANGED stream
      BY <2>3 DEF T!H!SendEnds, T!H!SendBreaks
    <3>2. T!H!NoPost.msg \in Heard
      BY MessagesHeard DEF T!H!NoPost
    <3>3. msgChan' = [closed |-> msgChan'.closed, q |-> msgChan'.q] /\ msgChan'.q \in Seq(Heard)
      BY <1>2, <2>3, OfferHeard DEF T!H!SendEnds, T!H!SendBreaks, HTTPHeard
    <3>. QED
      BY <2>1, <3>1, <3>2, <3>3 DEF HTTPHeard, PostShape
  <2>4. CASE T!H!ReceiveEnds
    <3>1. /\ msgChan' = [closed |-> msgChan.closed, q |-> Tail(msgChan.q)] /\ msgChan.q # <<>>
          /\ UNCHANGED <<posts, stream>>
      BY <2>4 DEF T!H!ReceiveEnds, HTTPHeard
    <3>2. Tail(msgChan.q) \in Seq(Heard)
      BY <3>1, HeadTailProperties DEF HTTPHeard
    <3>. QED
      BY <2>1, <3>1, <3>2 DEF HTTPHeard, PostShape
  <2>5. CASE T!H!PushEvent
    <3>1. /\ stream' = [pc |-> T!H!LoopHead, cancelled |-> stream.cancelled, shut |-> stream.shut,
                        msg |-> T!H!Failure]
          /\ UNCHANGED posts
      BY <2>5 DEF T!H!PushEvent, HTTPHeard
    <3>2. msgChan' = [closed |-> msgChan'.closed, q |-> msgChan'.q] /\ msgChan'.q \in Seq(Heard)
      BY <1>2, <2>5, OfferHeard DEF T!H!PushEvent, HTTPHeard
    <3>. QED
      BY <2>1, <3>1, <3>2, MessagesHeard DEF HTTPHeard, PostShape
  <2>6. CASE T!H!SendBegins(t, n)
    BY <1>1, <2>6
  <2>. QED
    BY <2>2, <2>3, <2>4, <2>5, <2>6
<1>3. T!H!SendBegins(t, n) \/ UNCHANGED read
  BY DEF T!H!Connect, T!H!Close, T!H!SendEnds, T!H!SendBreaks, T!H!ReceiveEnds, T!H!SetResponse,
         T!H!PushEvent, T!H!StreamFails, T!H!onlyStream, T!H!serverSide
<1>. QED
  BY <1>1, <1>2, <1>3

\* What the server does by HTTP.
LEMMA HTTPOfServer ==
    ASSUME HTTPHeard, ReadMade, UNCHANGED reqID, T!H!ServerStep
    PROVE  HTTPHeard' /\ UNCHANGED read
<1>1. UNCHANGED <<read, msgChan>> /\ Heard' = Heard
  BY DEF T!H!ServerStep, T!H!ServerResponds, T!H!ServerOpensStream, T!H!ServerSendsEvent,
     T!H!StreamFails, T!H!onlyStream, T!H!serverSide, Heard
<1>2. ASSUME NEW t \in Callers, T!H!ServerResponds(t)
      PROVE  HTTPHeard'
  <2>1. PICK msg \in T!H!Answers \cup {T!H!Notification, T!H!Failure} :
           /\ msg.kind = "answer" => msg.id \in read
           /\ \E session : posts' = [posts EXCEPT ![t] =
                               [T!H!NoPost EXCEPT !.st = "responded", !.msg = msg, !.session = session]]
    BY <1>2 DEF T!H!ServerResponds
  <2>2. msg \in Heard
    BY <2>1, MessagesHeard DEF Heard
  <2>3. posts'[t].msg = msg /\ (\A u \in Callers \ {t} : posts'[u] = posts[u]) /\ PostShape'
    BY <2>1 DEF HTTPHeard, PostShape, T!H!NoPost
  <2>4. UNCHANGED stream
    BY <1>2 DEF T!H!ServerResponds
  <2>. QED
    BY <1>1, <2>2, <2>3, <2>4 DEF HTTPHeard
<1>3. CASE T!H!ServerOpensStream \/ T!H!ServerSendsEvent \/ T!H!StreamFails
  <2>1. UNCHANGED posts
    BY <1>3 DEF T!H!ServerOpensStream, T!H!ServerSendsEvent, T!H!StreamFails, T!H!onlyStream
  <2>2. \/ \E pc : stream' = [stream EXCEPT !.pc = pc]
        \/ \E msg \in T!H!Answers \cup {T!H!Notification} :
              msg.id \in read \cup {0} /\ stream' = [stream EXCEPT !.pc = "push", !.msg = msg]
    BY <1>3 DEF T!H!ServerOpensStream, T!H!ServerSendsEvent, T!H!StreamFails, T!H!StreamGoto
  <2>3. CASE \E pc : stream' = [stream EXCEPT !.pc = pc]
    <3>1. PICK pc : stream' = [stream EXCEPT !.pc = pc]
      BY <2>3
    <3>2. stream' = [pc |-> pc, cancelled |-> stream.cancelled, shut |-> stream.shut, msg |-> stream.msg]
      BY <3>1 DEF HTTPHeard
    <3>. QED
      BY <1>1, <2>1, <3>2 DEF HTTPHeard, PostShape
  <2>4. CASE \E msg \in T!H!Answers \cup {T!H!Notification} :
                msg.id \in read \cup {0} /\ stream' = [stream EXCEPT !.pc = "push", !.msg = msg]
    <3>. PICK msg \in T!H!Answers \cup {T!H!Notification} :
            msg.id \in read \cup {0} /\ stream' = [stream EXCEPT !.pc = "push", !.msg = msg]
      BY <2>4
    <3>1. stream' = [pc |-> "push", cancelled |-> stream.cancelled, shut |-> stream.shut, msg |-> msg]
      BY DEF HTTPHeard
    <3>2. msg \in Heard
      BY MessagesHeard DEF Heard
    <3>. QED
      BY <1>1, <2>1, <3>1, <3>2 DEF HTTPHeard, PostShape
  <2>. QED
    BY <2>2, <2>3, <2>4
<1>. QED
  BY <1>1, <1>2, <1>3 DEF T!H!ServerStep

-----------------------------------------------------------------------------
(* The refinement of RequestReply: every step                               *)

LEMMA TransportOfClient ==
    ASSUME TransportHeard, UNCHANGED reqID, NEW t, NEW n \in 0 .. reqID,
           \/ T!Connect \/ T!ConnectFails \/ T!CloseBegins(t) \/ T!CloseEnds(t)
           \/ T!SendRefused \/ T!SendBegins(t, n) \/ T!SendBreaks(t)
           \/ (t \in Callers /\ (T!SendEnds(t, n) \/ T!SendPanics(t)))
           \/ T!ReceiveRefused \/ T!ReceiveBegins \/ T!ReceiveEnds \/ T!ReceiveFails \/ T!StreamStep
    PROVE  TransportHeard' /\ ReadsOne
<1>. DEFINE piped == \/ T!S!Connect \/ T!S!CloseBegins(t) \/ T!S!CloseEnds(t)
                     \/ T!S!SendEnds(t, n) \/ T!S!ReceiveEnds
            posted == \/ T!H!Connect \/ T!H!Close \/ T!H!SendBegins(t, n) \/ T!H!SendBreaks(t)
                      \/ (t \in Callers /\ T!H!SendEnds(t)) \/ T!H!ReceiveEnds \/ T!H!SetResponse \/ T!H!PushEvent
                      \/ T!H!StreamFails
<1>1. \/ piped /\ UNCHANGED <<msgChan, posts, stream>>
      \/ posted /\ UNCHANGED <<stdin, stdout, server>>
      \/ UNCHANGED <<stdin, stdout, server, msgChan, posts, stream, read>>
  <2>1. CASE \/ T!Connect \/ T!ConnectFails \/ T!CloseBegins(t) \/ T!CloseEnds(t) \/ T!SendRefused
    BY <2>1 DEF T!Connect, T!ConnectFails, T!CloseBegins, T!CloseEnds, T!SendRefused, T!Stdio,
       T!HTTP, T!httpVars, T!stdioVars, T!S!ConnectFails, T!S!SendRefused, T!S!vars, T!S!pipes,
       T!S!process, T!H!SendRefused, T!H!vars, T!H!serverSide
  <2>2. CASE \/ T!SendBegins(t, n) \/ T!SendBreaks(t)
             \/ (t \in Callers /\ (T!SendEnds(t, n) \/ T!SendPanics(t)))
    BY <2>2 DEF T!SendBegins, T!SendEnds, T!SendBreaks, T!SendPanics, T!Stdio, T!HTTP, T!httpVars,
       T!stdioVars, T!S!SendBegins, T!S!SendBreaks, T!S!pipes, T!S!process
  <2>3. CASE T!ReceiveRefused \/ T!ReceiveBegins \/ T!ReceiveEnds \/ T!ReceiveFails
    BY <2>3 DEF T!ReceiveRefused, T!ReceiveBegins, T!ReceiveEnds, T!ReceiveFails, T!Stdio, T!HTTP,
       T!httpVars, T!stdioVars, T!S!ReceiveRefused, T!S!ReceiveBegins, T!S!ReceiveFails, T!S!vars,
       T!S!pipes, T!S!process, T!H!ReceiveRefused, T!H!ReceiveBegins, T!H!ReceiveFails, T!H!vars,
       T!H!serverSide
  <2>4. CASE T!StreamStep
    BY <2>4 DEF T!StreamStep, T!HTTP, T!stdioVars, T!H!StreamStep
  <2>. QED
    BY <2>1, <2>2, <2>3, <2>4
<1>2. CASE piped /\ UNCHANGED <<msgChan, posts, stream>>
  <2>1. PipesHeard' /\ UNCHANGED read
    BY <1>2, PipesOfClient DEF TransportHeard
  <2>. QED
    BY <1>2, <2>1, HTTPStays DEF TransportHeard, ReadMade, ReadsOne
<1>3. CASE posted /\ UNCHANGED <<stdin, stdout, server>>
  <2>1. HTTPHeard' /\ ReadsOne
    BY <1>3, HTTPOfClient DEF TransportHeard
  <2>2. read \subseteq read' /\ ReadMade'
    BY <2>1 DEF TransportHeard, ReadMade, ReadsOne
  <2>. QED
    BY <1>3, <2>1, <2>2, PipesStay DEF TransportHeard
<1>4. CASE UNCHANGED <<stdin, stdout, server, msgChan, posts, stream, read>>
  BY <1>4, PipesStay, HTTPStays DEF TransportHeard, ReadMade, ReadsOne
<1>. QED
  BY <1>1, <1>2, <1>3, <1>4

LEMMA TransportOfServer ==
    ASSUME TransportHeard, UNCHANGED reqID, T!ServerStep
    PROVE  TransportHeard' /\ ReadsOne
<1>1. CASE T!S!ServerStep /\ UNCHANGED <<msgChan, posts, stream>>
  <2>1. PipesHeard' /\ ReadsOne
    BY <1>1, PipesOfServer DEF TransportHeard
  <2>2. read \subseteq read' /\ ReadMade'
    BY <2>1 DEF TransportHeard, ReadMade, ReadsOne
  <2>. QED
    BY <1>1, <2>1, <2>2, HTTPStays DEF TransportHeard
<1>2. CASE T!H!ServerStep /\ UNCHANGED <<stdin, stdout, server>>
  <2>1. HTTPHeard' /\ UNCHANGED read
    BY <1>2, HTTPOfServer DEF TransportHeard
  <2>. QED
    BY <1>2, <2>1, PipesStay DEF TransportHeard, ReadMade, ReadsOne
<1>. QED
  BY <1>1, <1>2 DEF T!ServerStep, T!Stdio, T!HTTP, T!httpVars, T!stdioVars

LEMMA TransportAlone ==
    ASSUME TransportHeard, UNCHANGED transport, reqID' \in {reqID, reqID + 1}
    PROVE  TransportHeard' /\ UNCHANGED read
<1>1. UNCHANGED <<stdin, stdout, server, msgChan, posts, stream, read>>
  BY DEF transport
<1>2. ReadMade'
  BY <1>1 DEF TransportHeard, ReadMade
<1>. QED
  BY <1>1, <1>2, PipesStay, HTTPStays DEF TransportHeard

\* The answer the loop handles, and the answers its callers have not taken.
ClientHeard ==
    /\ loop.pc = "route" => loop.id \in read \cup {0}
    /\ loop.pc = "deliver" => loop.id \in read
    /\ \A r \in Requests : respChan[r] # <<>> => r \in read

RequestReplyInv == RequestsInv /\ TransportHeard /\ ClientHeard

\* What a server reads is an answer that is given: RequestReply does not say
\* when it comes.
LEMMA ReadingAnswers ==
    ASSUME Shapes, RequestsInv, ReadsOne, UNCHANGED outcome
    PROVE  RR!Next \/ UNCHANGED <<outcome, read>>
<1>1. CASE read' = read
  BY <1>1
<1>2. CASE \E n \in 1 .. reqID : read' = read \cup {n}
  <2>1. PICK n \in 1 .. reqID : read' = read \cup {n}
    BY <1>2
  <2>2. n \in Requests
    BY MakingFinite, MCPAssumption DEF RequestsInv, Bounded, Requests, Shapes
  <2>3. outcome[n] # "unmade"
    BY <2>2 DEF RequestsInv, OutcomesFit, Shapes
  <2>. QED
    BY <2>1, <2>2, <2>3 DEF RR!Next, RR!Answer
<1>. QED
  BY <1>1, <1>2 DEF ReadsOne

LEMMA ClientHears ==
    ASSUME ClientHeard, ReadsOne, UNCHANGED respChan,
           loop' = loop \/ loop'.pc \notin {"route", "deliver"}
    PROVE  ClientHeard'
BY DEF ClientHeard, ReadsOne

LEMMA StartsRefine ==
    ASSUME IInv, LifeInv, FirstRequest, RequestReplyInv, NEW t \in Callers,
           Connect(t) \/ CallTool(t) \/ Close(t)
    PROVE  RequestReplyInv' /\ (RR!Next \/ UNCHANGED <<outcome, read>>)
<1>1. RequestsInv' /\ UNCHANGED <<outcome, reqID, respChan>>
  BY RequestsStart DEF RequestReplyInv, Connect, CallTool, Close, requests
<1>2. TransportHeard' /\ ReadsOne
  <2>1. 0 \in 0 .. reqID
    BY DEF IInv, Shapes
  <2>2. CASE T!Connect
    BY <1>1, <2>1, <2>2, TransportOfClient DEF RequestReplyInv
  <2>3. CASE UNCHANGED transport
    BY <1>1, <2>3, TransportAlone DEF RequestReplyInv, ReadsOne
  <2>. QED
    BY <2>2, <2>3 DEF Connect, CallTool, Close
<1>3. loop' = loop \/ loop'.pc = "check"
  BY DEF Connect, CallTool, Close, IInv, Shapes
<1>. QED
  BY <1>1, <1>2, <1>3, ClientHears, ReadingAnswers DEF RequestReplyInv, IInv

LEMMA RegisterRefines ==
    ASSUME IInv, RequestReplyInv, NEW t \in Callers, Register(t)
    PROVE  RequestReplyInv' /\ RR!Next
<1>1. RequestsInv'
  BY MakesRequest DEF RequestReplyInv
<1>2. PICK r \in Requests : outcome[r] = "unmade" /\ outcome' = [outcome EXCEPT ![r] = "open"]
  BY MakesRequest DEF RequestReplyInv
<1>3. TransportHeard' /\ UNCHANGED read
  BY TransportAlone DEF Register, RequestReplyInv
<1>4. UNCHANGED <<loop, respChan>>
  BY DEF Register
<1>5. ClientHeard'
  BY <1>3, <1>4, ClientHears DEF RequestReplyInv, ReadsOne
<1>6. RR!Make(r)
  BY <1>2, <1>3 DEF RR!Make
<1>. QED
  BY <1>1, <1>3, <1>5, <1>6 DEF RequestReplyInv, RR!Next

\* Sending, and the ends of Connect and Close.
LEMMA GoingOnRefines ==
    ASSUME IInv, RequestReplyInv, NEW t \in Callers,
           \/ Send(t) \/ SendReturns(t) \/ SendFails(t) \/ SendPanics(t) \/ ContextEnds(t)
           \/ Publish(t) \/ CloseTransport(t) \/ TransportClosed(t)
    PROVE  RequestReplyInv' /\ (RR!Next \/ UNCHANGED <<outcome, read>>)
<1>1. UNCHANGED <<outcome, reqID, respChan, loop>>
  BY DEF Send, SendReturns, SendFails, SendPanics, ContextEnds, Publish, CloseTransport,
     TransportClosed, requests, client
<1>2. 0 \in 0 .. reqID /\ (thread[t].pc \in InRequest => thread[t].id \in 0 .. reqID)
  BY DEF IInv, Shapes, IdsUnique
<1>3. TransportHeard' /\ ReadsOne
  <2>1. CASE Send(t) \/ SendReturns(t) \/ SendFails(t) \/ SendPanics(t)
    <3>1. PICK n \in 0 .. reqID : \/ T!SendBegins(t, n) \/ T!SendEnds(t, n) \/ T!SendRefused
                                  \/ T!SendBreaks(t) \/ T!SendPanics(t)
      BY <1>2, <2>1 DEF Send, SendReturns, SendFails, SendPanics, At, InRequest
    <3>. QED
      BY <1>1, <3>1, TransportOfClient DEF RequestReplyInv
  <2>2. CASE CloseTransport(t) \/ TransportClosed(t)
    BY <1>1, <1>2, <2>2, TransportOfClient DEF RequestReplyInv, CloseTransport, TransportClosed
  <2>3. CASE ContextEnds(t) \/ Publish(t)
    BY <1>1, <2>3, TransportAlone DEF RequestReplyInv, ContextEnds, Publish, ReadsOne
  <2>. QED
    BY <2>1, <2>2, <2>3
<1>4. RequestsInv'
  <2>1. CASE SendPanics(t)
    BY <1>1, <2>1, RequestsUntouched DEF SendPanics, client, RequestReplyInv
  <2>2. CASE Publish(t) \/ TransportClosed(t)
    <3>1. Goes(t, Idle) /\ thread[t].pc \in {"publish", "reap"}
      BY <2>2, ReturnGoes DEF Publish, TransportClosed, At
    <3>. QED
      BY <1>1, <3>1, RequestsStay DEF Idle, InRequest, RequestReplyInv
  <2>3. CASE Send(t) \/ SendReturns(t) \/ SendFails(t) \/ ContextEnds(t) \/ CloseTransport(t)
    <3>1. PICK l : /\ Goto(t, l) /\ l # "request" /\ thread[t].pc # "request"
                   /\ l \in InRequest => thread[t].pc \in InRequest
      BY <2>3 DEF Send, SendReturns, SendFails, ContextEnds, CloseTransport, At, InRequest
    <3>2. Goes(t, MovedTo(t, l))
      BY <3>1, GotoGoes DEF IInv
    <3>. QED
      BY <1>1, <3>1, <3>2, RequestsStay DEF MovedTo, RequestReplyInv
  <2>. QED
    BY <2>1, <2>2, <2>3
<1>. QED
  BY <1>1, <1>3, <1>4, ClientHears, ReadingAnswers DEF RequestReplyInv, IInv

\* The caller takes the answer, or gives up.
LEMMA EndingRefines ==
    ASSUME IInv, RequestReplyInv, NEW t \in Callers, TakeResponse(t) \/ Abandon(t)
    PROVE  RequestReplyInv' /\ RR!Next
<1>. DEFINE id == thread[t].id
<1>1. UNCHANGED <<reqID, loop>> /\ thread[t].pc \in InRequest
  BY DEF TakeResponse, Abandon, At, InRequest
<1>2. PICK m : Goes(t, m) /\ m.pc \notin InRequest /\ m.pc # "request"
  <2>1. CASE Return(t)
    BY <2>1, ReturnGoes DEF Idle, InRequest
  <2>2. ASSUME NEW l \in {"notify", "fail"}, Goto(t, l)
        PROVE  Goes(t, MovedTo(t, l)) /\ MovedTo(t, l).pc \notin InRequest /\ MovedTo(t, l).pc # "request"
    BY <2>2, GotoGoes DEF IInv, MovedTo, InRequest
  <2>3. Return(t) \/ \E l \in {"notify", "fail"} : Goto(t, l)
    BY DEF TakeResponse, Abandon
  <2>. QED
    BY <2>1, <2>2, <2>3
<1>3. TransportHeard' /\ UNCHANGED read
  <2>1. UNCHANGED transport
    BY DEF TakeResponse, Abandon
  <2>. QED
    BY <1>1, <2>1, TransportAlone DEF RequestReplyInv
<1>4. CASE TakeResponse(t)
  <2>1. /\ outcome' = [outcome EXCEPT ![id] = "answered"] /\ respChan[id] # <<>>
        /\ respChan' = [respChan EXCEPT ![id] = Tail(respChan[id])]
    BY <1>4 DEF TakeResponse
  <2>2. RequestsInv' /\ id \in Requests /\ outcome[id] = "open"
    BY <1>1, <1>2, <2>1, EndsRequest DEF RequestReplyInv
  <2>3. id \in read
    BY <2>1, <2>2 DEF RequestReplyInv, ClientHeard
  <2>4. \A r \in Requests : r # id => respChan'[r] = respChan[r]
    BY <2>1 DEF IInv, Shapes
  <2>5. ClientHeard'
    BY <1>1, <1>3, <2>3, <2>4 DEF RequestReplyInv, ClientHeard
  <2>6. RR!Return(id)
    BY <1>3, <2>1, <2>2, <2>3 DEF RR!Return
  <2>. QED
    BY <1>3, <2>2, <2>5, <2>6 DEF RequestReplyInv, RR!Next
<1>5. CASE Abandon(t)
  <2>1. outcome' = [outcome EXCEPT ![id] = "failed"] /\ UNCHANGED respChan
    BY <1>5 DEF Abandon
  <2>2. RequestsInv' /\ id \in Requests /\ outcome[id] = "open"
    BY <1>1, <1>2, <2>1, EndsRequest DEF RequestReplyInv
  <2>3. ClientHeard'
    BY <1>1, <1>3, <2>1, ClientHears DEF RequestReplyInv, ReadsOne
  <2>4. RR!GiveUp(id)
    BY <1>3, <2>1, <2>2 DEF RR!GiveUp
  <2>. QED
    BY <1>3, <2>2, <2>3, <2>4 DEF RequestReplyInv, RR!Next
<1>. QED
  BY <1>4, <1>5

\* The receive loop finds no answer but to a request that was read.
LEMMA LoopHears ==
    ASSUME IInv, RequestReplyInv, LoopStep
    PROVE  TransportHeard' /\ ClientHeard' /\ ReadsOne
<1>1. UNCHANGED reqID /\ 0 \in 0 .. reqID
  BY DEF LoopStep, CheckStopped, Receive, ReadLine, ReadFails, Route, RoutePanics, Deliver, client, requests,
     IInv, Shapes
<1>2. CASE CheckStopped \/ Receive \/ ReadFails
  <2>1. TransportHeard' /\ ReadsOne
    BY <1>1, <1>2, TransportOfClient, TransportAlone
       DEF RequestReplyInv, CheckStopped, Receive, ReadFails, ReadsOne
  <2>2. UNCHANGED respChan /\ loop'.pc \notin {"route", "deliver"}
    BY <1>2 DEF CheckStopped, Receive, ReadFails, LoopGoto, requests
  <2>. QED
    BY <2>1, <2>2, ClientHears DEF RequestReplyInv
<1>3. CASE ReadLine
  <2>1. TransportHeard' /\ ReadsOne /\ UNCHANGED respChan
    BY <1>1, <1>3, TransportOfClient DEF RequestReplyInv, ReadLine, requests
  <2>2. T!Received \in Heard
    <3>1. CASE type = "stdio"
      <4>1. T!S!ReceiveEnds
        BY <1>3, <3>1 DEF ReadLine, T!ReceiveEnds, T!Stdio, T!HTTP
      <4>. QED
        BY <3>1, <4>1, HeadTailProperties
           DEF T!S!ReceiveEnds, T!Received, RequestReplyInv, TransportHeard, PipesHeard
    <3>2. CASE type # "stdio"
      <4>1. T!H!ReceiveEnds
        BY <1>3, <3>2 DEF ReadLine, T!ReceiveEnds, T!Stdio, T!HTTP
      <4>. QED
        BY <3>2, <4>1, HeadTailProperties
           DEF T!H!ReceiveEnds, T!Received, RequestReplyInv, TransportHeard, HTTPHeard
    <3>. QED
      BY <3>1, <3>2
  <2>3. /\ loop'.pc = "route" => loop'.id \in read \cup {0}
        /\ loop'.pc # "deliver"
    BY <1>3, <2>2 DEF ReadLine, LoopGoto, Heard
  <2>. QED
    BY <2>1, <2>3 DEF RequestReplyInv, ClientHeard, ReadsOne
<1>4. CASE Route \/ Deliver
  <2>1. TransportHeard' /\ UNCHANGED read
    BY <1>1, <1>4, TransportAlone DEF RequestReplyInv, Route, Deliver
  <2>2. CASE Route
    <3>1. /\ loop.pc = "route" /\ loop.id # 0 /\ UNCHANGED respChan
          /\ loop' = [loop EXCEPT !.pc = "deliver"] \/ loop'.pc = "check"
      BY <2>2 DEF Route, LoopGoto
    <3>2. loop'.pc = "check" \/ loop'.id = loop.id
      BY <3>1 DEF IInv, Shapes
    <3>. QED
      BY <2>1, <3>1, <3>2 DEF RequestReplyInv, ClientHeard, ReadsOne
  <2>3. CASE Deliver
    <3>1. /\ loop.id \in read /\ loop'.pc = "check"
          /\ \A r \in Requests : r # loop.id => respChan'[r] = respChan[r]
      BY <2>3 DEF Deliver, LoopGoto, RequestReplyInv, ClientHeard, IInv, Shapes
    <3>. QED
      BY <2>1, <3>1 DEF RequestReplyInv, ClientHeard, ReadsOne
  <2>. QED
    BY <1>4, <2>2, <2>3
<1>5. CASE RoutePanics
  <2>1. UNCHANGED <<reqID, stdin, stdout, server, msgChan, posts, stream, read, loop, respChan>>
    BY <1>5 DEF RoutePanics, client, requests
  <2>2. ReadMade'
    BY <2>1 DEF RequestReplyInv, TransportHeard, ReadMade
  <2>3. TransportHeard'
    BY <2>1, <2>2, PipesStay, HTTPStays DEF RequestReplyInv, TransportHeard
  <2>. QED
    BY <2>1, <2>3, ClientHears DEF RequestReplyInv, ReadsOne
<1>. QED
  BY <1>2, <1>3, <1>4, <1>5 DEF LoopStep

LEMMA RequestReplyStep ==
    ASSUME IInv, LifeInv, FirstRequest, RequestReplyInv, Next
    PROVE  RequestReplyInv' /\ (RR!Next \/ UNCHANGED <<outcome, read>>)
<1>1. CASE ConnectFails \/ LoopStep \/ Stream \/ Server
  <2>1. UNCHANGED <<thread, reqID, outcome>>
    BY <1>1 DEF ConnectFails, LoopStep, CheckStopped, Receive, ReadLine, ReadFails, Route, RoutePanics, Deliver,
                Stream, Server, client, requests
  <2>2. RequestsInv'
    BY <2>1, RequestsUntouched DEF RequestReplyInv
  <2>3. TransportHeard' /\ ClientHeard' /\ ReadsOne
    <3>1. CASE LoopStep
      BY <3>1, LoopHears
    <3>2. CASE ConnectFails \/ Stream \/ Server
      <4>1. TransportHeard' /\ ReadsOne
        <5>1. 0 \in 0 .. reqID
          BY DEF IInv, Shapes
        <5>. QED
          BY <2>1, <3>2, <5>1, TransportOfClient, TransportOfServer
             DEF RequestReplyInv, ConnectFails, Stream, Server
      <4>2. UNCHANGED <<respChan, loop>>
        BY <3>2 DEF ConnectFails, Stream, Server, client, requests
      <4>. QED
        BY <4>1, <4>2, ClientHears DEF RequestReplyInv
    <3>. QED
      BY <1>1, <3>1, <3>2
  <2>. QED
    BY <2>1, <2>2, <2>3, ReadingAnswers DEF RequestReplyInv, IInv
<1>2. ASSUME NEW t \in Callers, Connect(t) \/ CallTool(t) \/ Close(t)
      PROVE  RequestReplyInv' /\ (RR!Next \/ UNCHANGED <<outcome, read>>)
  BY <1>2, StartsRefine
<1>3. ASSUME NEW t \in Callers, CallStep(t)
      PROVE  RequestReplyInv' /\ (RR!Next \/ UNCHANGED <<outcome, read>>)
  BY <1>3, RegisterRefines, GoingOnRefines, EndingRefines DEF CallStep
<1>. QED
  BY <1>1, <1>2, <1>3 DEF Next

LEMMA InitRequestReply == Init => RequestReplyInv /\ RR!Init
<1>. SUFFICES ASSUME Init PROVE RequestReplyInv /\ RR!Init
  OBVIOUS
<1>1. RR!Init
  BY DEF Init, T!Init, T!S!Init, RR!Init
<1>2. TransportHeard
  <2>1. PipesHeard
    BY MessagesHeard DEF Init, T!Init, T!S!Init, PipesHeard
  <2>2. HTTPHeard
    BY MessagesHeard DEF Init, T!Init, T!H!Init, T!H!NoPost, T!H!NoStream, HTTPHeard, PostShape
  <2>. QED
    BY <2>1, <2>2 DEF Init, T!Init, T!S!Init, TransportHeard, ReadMade
<1>3. RequestsInv
  <2>1. Making = {} /\ \A r \in Requests : ~Waiting(r)
    BY DEF Init, Making, Waiting, Idle
  <2>2. Bounded
    BY <2>1, FS_EmptySet, MCPAssumption DEF Init, Bounded
  <2>3. OutcomesFit
    BY <2>1, MCPAssumption DEF Init, OutcomesFit, Requests
  <2>. QED
    BY <2>2, <2>3 DEF RequestsInv
<1>4. ClientHeard
  BY DEF Init, ClientHeard
<1>. QED
  BY <1>1, <1>2, <1>3, <1>4 DEF RequestReplyInv

(* request and receiveLoop: for every transport and every server, which may *)
(* answer anything it has read at any time, a request is made once and ends *)
(* once, by an error, or by an answer after the server has read it.         *)
THEOREM ClientImplementsRequestReply == Spec => ImplementsRequestReply
<1>. DEFINE I == LifeInv /\ PhaseInv /\ FirstRequest /\ RequestReplyInv
<1>1. Init => I /\ RR!Init
  BY InitLife, InitSession, InitRequestReply DEF Init, PhaseInv, Idle
<1>2. (IInv /\ LoopStarts) /\ I /\ [Next]_vars => I' /\ [RR!Next]_(RR!vars)
  <2>1. CASE IInv /\ I /\ Next
    BY <2>1, StepLife, RefinesStep, FirstStep, RequestReplyStep DEF IInv, RR!vars
  <2>2. CASE I /\ UNCHANGED vars
    <3>1. /\ UNCHANGED <<thread, phase, connected, closes, reqID, outcome, respChan, loop, transport>>
      BY <2>2 DEF vars, client, requests
    <3>2. PhaseInv' /\ FirstRequest'
      BY <2>2, <3>1 DEF PhaseInv, FirstRequest
    <3>3. TransportHeard' /\ UNCHANGED read
      BY <2>2, <3>1, TransportAlone DEF RequestReplyInv
    <3>4. RequestsInv' /\ ClientHeard'
      BY <2>2, <3>1, <3>3, RequestsUntouched DEF RequestReplyInv, ClientHeard
    <3>. QED
      BY <2>2, <3>1, <3>2, <3>3, <3>4, StutterLife DEF RequestReplyInv, RR!vars
  <2>. QED
    BY <2>1, <2>2
<1>. QED
  BY <1>1, <1>2, Invariant, PTL DEF Spec, RR!Spec, ImplementsRequestReply

-----------------------------------------------------------------------------
(* Types *)

Replies == T!H!Answers \cup {T!H!Notification}

CommonTyped == closed \in BOOLEAN /\ read \subseteq 1 .. MaxRequests /\ stray \in 0 .. MaxStray

PipesTyped ==
    /\ mu \in Callers \cup {T!S!Nobody}
    /\ stdin \in [open : BOOLEAN, q : Seq(0 .. MaxRequests)] /\ Len(stdin.q) <= PipeCap
    /\ stdout \in [open : BOOLEAN, q : Seq(T!S!Lines)] /\ Len(stdout.q) <= PipeCap
    /\ server \in [st : {"none", "running", "exited"}, out : T!S!Lines \cup {T!S!NoLine}]

PostRecords ==
    [st : T!H!PostStates, n : 0 .. MaxRequests, sid : Sessions \cup {T!H!NoSession},
     msg : Replies \cup {T!H!Failure}, session : Sessions \cup {T!H!NoSession}]

\* The goroutine of the stream never offers what is no message.
StreamTyped ==
    /\ stream \in [pc : T!H!StreamPCs, cancelled : BOOLEAN, shut : BOOLEAN,
                   msg : Replies \cup {T!H!Failure}]
    /\ stream.pc = "push" => stream.msg \in Replies

HTTPTyped ==
    /\ crashed \in BOOLEAN
    /\ {sessionID, assigned} \subseteq Sessions \cup {T!H!NoSession}
    /\ msgChan \in [closed : BOOLEAN, q : Seq(Replies)] /\ Len(msgChan.q) <= MsgCap
    /\ posts \in [Callers -> PostRecords]
    /\ StreamTyped

TransportTyped == type \in Types /\ CommonTyped /\ PipesTyped /\ HTTPTyped

LEMMA TransportTypes == TransportTyped => T!TypeOK
<1>. SUFFICES ASSUME TransportTyped PROVE T!TypeOK
  OBVIOUS
<1>1. T!S!TypeOK
  BY DEF TransportTyped, CommonTyped, PipesTyped, T!S!TypeOK
<1>2. T!H!TypeOK
  <2>1. {closed, crashed} \subseteq BOOLEAN
    BY DEF TransportTyped, CommonTyped, HTTPTyped
  <2>2. Replies \cup {T!H!Failure} = T!H!Answers \cup {T!H!Notification, T!H!Failure}
    BY DEF Replies
  <2>. QED
    BY <2>1, <2>2 DEF TransportTyped, CommonTyped, HTTPTyped, StreamTyped, PostRecords, Replies,
       T!H!TypeOK
<1>. QED
  BY <1>1, <1>2 DEF TransportTyped, T!TypeOK

\* The steps of StdioTransport on the side of the client.
LEMMA PipesTypedByClient ==
    ASSUME CommonTyped, PipesTyped, NEW t, NEW n \in 0 .. MaxRequests,
           \/ T!S!Connect \/ T!S!ReceiveEnds
           \/ /\ t \in Callers
              /\ \/ T!S!SendBegins(t) \/ T!S!SendEnds(t, n) \/ T!S!SendBreaks(t)
                 \/ T!S!CloseBegins(t) \/ T!S!CloseEnds(t)
    PROVE  CommonTyped' /\ PipesTyped'
<1>1. CASE T!S!Connect \/ (t \in Callers /\ (T!S!CloseBegins(t) \/ T!S!CloseEnds(t)))
  <2>1. /\ closed' \in BOOLEAN /\ UNCHANGED <<read, stray>> /\ mu' \in Callers \cup {mu, T!S!Nobody}
        /\ stdin' \in {stdin, [stdin EXCEPT !.open = TRUE], [stdin EXCEPT !.open = FALSE]}
        /\ stdout' \in {stdout, [stdout EXCEPT !.open = TRUE], [stdout EXCEPT !.open = FALSE]}
        /\ server' \in {server, [server EXCEPT !.st = "running"]}
    BY <1>1 DEF T!S!Connect, T!S!CloseBegins, T!S!CloseEnds, T!S!process, CommonTyped
  <2>. QED
    BY ZenonT(60), <2>1 DEF CommonTyped, PipesTyped
<1>2. CASE t \in Callers /\ (T!S!SendBegins(t) \/ T!S!SendBreaks(t))
  BY <1>2 DEF T!S!SendBegins, T!S!SendBreaks, T!S!pipes, T!S!process, CommonTyped, PipesTyped
<1>3. CASE T!S!SendEnds(t, n)
  <2>. DEFINE N == 0 .. MaxRequests
  <2>1. /\ UNCHANGED <<closed, stdout, server, read, stray>> /\ mu' = T!S!Nobody
        /\ stdin' = [stdin EXCEPT !.q = Append(stdin.q, n)] /\ Len(stdin.q) < PipeCap
    BY <1>3 DEF T!S!SendEnds, T!S!process
  <2>2. stdin \in [open : BOOLEAN, q : Seq(N)] /\ n \in N /\ PipeCap \in Nat
    BY MCPAssumption DEF PipesTyped
  <2>. HIDE DEF N
  <2>3. stdin' \in [open : BOOLEAN, q : Seq(N)] /\ Len(stdin'.q) = Len(stdin.q) + 1
    BY SMTT(30), <2>1, <2>2
  <2>4. Len(stdin'.q) <= PipeCap
    BY <2>1, <2>2, <2>3
  <2>. QED
    BY <2>1, <2>3, <2>4 DEF CommonTyped, PipesTyped, N
<1>4. CASE T!S!ReceiveEnds
  <2>1. /\ UNCHANGED <<mu, closed, stdin, server, read, stray>>
        /\ stdout' = [stdout EXCEPT !.q = Tail(stdout.q)] /\ stdout.q # <<>>
    BY <1>4 DEF T!S!ReceiveEnds, T!S!process
  <2>2. Tail(stdout.q) \in Seq(T!S!Lines) /\ Len(Tail(stdout.q)) = Len(stdout.q) - 1
    BY <2>1, HeadTailProperties DEF PipesTyped
  <2>3. Len(Tail(stdout.q)) <= PipeCap
    BY <2>2, MCPAssumption, LenProperties DEF PipesTyped
  <2>. QED
    BY <2>1, <2>2, <2>3 DEF CommonTyped, PipesTyped
<1>. QED
  BY <1>1, <1>2, <1>3, <1>4

\* The steps of its server.
LEMMA PipesTypedByServer ==
    ASSUME CommonTyped, PipesTyped, T!S!ServerStep
    PROVE  CommonTyped' /\ PipesTyped'
<1>1. CASE T!S!ServerReads
  <2>1. /\ UNCHANGED <<mu, closed, stdout, stray>> /\ stdin.q # <<>>
        /\ stdin' = [stdin EXCEPT !.q = Tail(stdin.q)]
        /\ read' = read \cup ({Head(stdin.q)} \ {0})
        /\ server' = server \/ \E line \in T!S!Lines : server' = [server EXCEPT !.out = line]
    BY <1>1 DEF T!S!ServerReads
  <2>2. /\ Tail(stdin.q) \in Seq(0 .. MaxRequests) /\ Len(Tail(stdin.q)) = Len(stdin.q) - 1
        /\ Head(stdin.q) \in 0 .. MaxRequests
    BY <2>1, HeadTailProperties DEF PipesTyped
  <2>3. Len(Tail(stdin.q)) <= PipeCap
    BY <2>2, MCPAssumption, LenProperties DEF PipesTyped
  <2>4. read' \subseteq 1 .. MaxRequests
    BY <2>1, <2>2, MCPAssumption DEF CommonTyped
  <2>5. server' \in [st : {"none", "running", "exited"}, out : T!S!Lines \cup {T!S!NoLine}]
    BY <2>1 DEF PipesTyped
  <2>6. stdin' \in [open : BOOLEAN, q : Seq(0 .. MaxRequests)] /\ Len(stdin'.q) <= PipeCap
    BY <2>1, <2>2, <2>3 DEF PipesTyped
  <2>. QED
    BY <2>1, <2>4, <2>5, <2>6 DEF CommonTyped, PipesTyped
<1>2. CASE T!S!ServerAdds
  <2>1. /\ UNCHANGED <<mu, closed, stdin, stdout, read>> /\ stray' = stray + 1 /\ stray < MaxStray
        /\ \E line \in T!S!Lines : server' = [server EXCEPT !.out = line]
    BY <1>2 DEF T!S!ServerAdds, T!S!pipes
  <2>2. stray' \in 0 .. MaxStray
    BY <2>1, MCPAssumption DEF CommonTyped
  <2>3. server' \in [st : {"none", "running", "exited"}, out : T!S!Lines \cup {T!S!NoLine}]
    BY <2>1 DEF PipesTyped
  <2>. QED
    BY <2>1, <2>2, <2>3 DEF CommonTyped, PipesTyped
<1>3. CASE T!S!ServerWrites
  <2>1. /\ UNCHANGED <<mu, closed, stdin, read, stray>> /\ server.out # T!S!NoLine
        /\ stdout' = [stdout EXCEPT !.q = Append(stdout.q, server.out)] /\ Len(stdout.q) < PipeCap
        /\ server' = [server EXCEPT !.out = T!S!NoLine]
    BY <1>3 DEF T!S!ServerWrites
  <2>2. server.out \in T!S!Lines
    BY <2>1 DEF PipesTyped
  <2>3. stdout' \in [open : BOOLEAN, q : Seq(T!S!Lines)] /\ Len(stdout'.q) = Len(stdout.q) + 1
    <3>1. stdout \in [open : BOOLEAN, q : Seq(T!S!Lines)]
      BY DEF PipesTyped
    <3>2. /\ Append(stdout.q, server.out) \in Seq(T!S!Lines)
          /\ Len(Append(stdout.q, server.out)) = Len(stdout.q) + 1
      BY <2>2, <3>1, AppendProperties
    <3>. QED
      BY <2>1, <3>1, <3>2
  <2>4. Len(stdout'.q) <= PipeCap
    BY <2>1, <2>3, MCPAssumption, LenProperties DEF PipesTyped
  <2>. QED
    BY <2>1, <2>3, <2>4 DEF CommonTyped, PipesTyped
<1>4. CASE T!S!ServerExits
  BY <1>4 DEF T!S!ServerExits, T!S!pipes, CommonTyped, PipesTyped
<1>. QED
  BY <1>1, <1>2, <1>3, <1>4 DEF T!S!ServerStep

\* A message that is offered is sent, dropped, or the end of the program.
LEMMA OfferTyped ==
    ASSUME HTTPTyped, NEW msg \in Replies, T!H!Offer(msg)
    PROVE  /\ crashed' \in BOOLEAN
           /\ msgChan' \in [closed : BOOLEAN, q : Seq(Replies)] /\ Len(msgChan'.q) <= MsgCap
<1>1. CASE UNCHANGED msgChan
  BY <1>1 DEF HTTPTyped, T!H!Offer
<1>2. CASE Len(msgChan.q) < MsgCap /\ msgChan' = [msgChan EXCEPT !.q = Append(@, msg)]
  <2>1. /\ msgChan' \in [closed : BOOLEAN, q : Seq(Replies)]
        /\ Len(msgChan'.q) = Len(msgChan.q) + 1
    BY <1>2 DEF HTTPTyped
  <2>2. Len(msgChan'.q) <= MsgCap
    BY <1>2, <2>1, MCPAssumption, LenProperties DEF HTTPTyped
  <2>. QED
    BY <2>1, <2>2 DEF HTTPTyped, T!H!Offer
<1>. QED
  BY <1>1, <1>2 DEF T!H!Offer

LEMMA NoPostTyped == T!H!NoPost \in PostRecords
<1>1. /\ "none" \in T!H!PostStates /\ 0 \in 0 .. MaxRequests
      /\ T!H!NoSession \in Sessions \cup {T!H!NoSession} /\ T!H!Failure \in Replies \cup {T!H!Failure}
  BY MCPAssumption DEF T!H!PostStates
<1>. QED
  BY <1>1 DEF T!H!NoPost, PostRecords

\* The steps of HTTPTransport on the side of the client, and of its stream.
LEMMA HTTPTypedByClient ==
    ASSUME CommonTyped, HTTPTyped, NEW t, NEW n \in 0 .. MaxRequests,
           \/ T!H!Connect \/ T!H!ReceiveEnds \/ T!H!Close
           \/ t \in Callers /\ (T!H!SendBegins(t, n) \/ T!H!SendEnds(t) \/ T!H!SendBreaks(t))
    PROVE  CommonTyped' /\ HTTPTyped'
<1>1. CASE T!H!Connect
  <2>1. /\ closed' = FALSE /\ UNCHANGED <<read, stray, sessionID, assigned, msgChan, posts, crashed>>
        /\ stream' \in {stream, [stream EXCEPT !.pc = "connect"]}
    BY <1>1 DEF T!H!Connect, T!H!serverSide
  <2>2. StreamTyped'
    BY <2>1 DEF HTTPTyped, StreamTyped, T!H!StreamPCs
  <2>. QED
    BY <2>1, <2>2 DEF CommonTyped, HTTPTyped
<1>2. CASE t \in Callers /\ T!H!SendBegins(t, n)
  <2>. DEFINE p == [T!H!NoPost EXCEPT !.st = "posted", !.n = n, !.sid = sessionID]
  <2>1. /\ posts' = [posts EXCEPT ![t] = p] /\ read' = read \cup ({n} \ {0})
        /\ UNCHANGED <<closed, stray, sessionID, assigned, msgChan, stream, crashed>>
    BY <1>2 DEF T!H!SendBegins
  <2>2. p \in PostRecords
    BY NoPostTyped DEF PostRecords, HTTPTyped, T!H!PostStates
  <2>3. posts' \in [Callers -> PostRecords]
    BY <2>1, <2>2 DEF HTTPTyped
  <2>4. read' \subseteq 1 .. MaxRequests
    BY <2>1, MCPAssumption DEF CommonTyped
  <2>. QED
    BY <2>1, <2>3, <2>4 DEF CommonTyped, HTTPTyped, StreamTyped
<1>3. CASE t \in Callers /\ (T!H!SendEnds(t) \/ T!H!SendBreaks(t))
  <2>1. posts[t] \in PostRecords
    BY <1>3 DEF HTTPTyped
  <2>2. posts[t].session \in Sessions \cup {T!H!NoSession} /\ posts[t].msg \in Replies \cup {T!H!Failure}
    BY <2>1 DEF PostRecords
  <2>3. /\ posts' = [posts EXCEPT ![t] = T!H!NoPost] /\ UNCHANGED <<closed, read, stray, assigned, stream>>
        /\ sessionID' \in {sessionID, posts[t].session}
    BY <1>3 DEF T!H!SendEnds, T!H!SendBreaks, T!H!KeepSession, T!H!serverSide
  <2>4. /\ crashed' \in BOOLEAN
        /\ msgChan' \in [closed : BOOLEAN, q : Seq(Replies)] /\ Len(msgChan'.q) <= MsgCap
    <3>1. CASE T!H!SendEnds(t)
      BY <2>2, <3>1, OfferTyped DEF T!H!SendEnds
    <3>2. CASE T!H!SendBreaks(t)
      BY <3>2 DEF T!H!SendBreaks, HTTPTyped
    <3>. QED
      BY <1>3, <3>1, <3>2
  <2>5. posts' \in [Callers -> PostRecords]
    BY <2>3, NoPostTyped DEF HTTPTyped
  <2>. QED
    BY <2>2, <2>3, <2>4, <2>5 DEF CommonTyped, HTTPTyped, StreamTyped
<1>4. CASE T!H!ReceiveEnds
  <2>1. /\ msgChan' = [msgChan EXCEPT !.q = Tail(msgChan.q)] /\ msgChan.q # <<>>
        /\ UNCHANGED <<closed, read, stray, sessionID, assigned, posts, stream, crashed>>
    BY <1>4 DEF T!H!ReceiveEnds, T!H!serverSide
  <2>2. Tail(msgChan.q) \in Seq(Replies) /\ Len(Tail(msgChan.q)) = Len(msgChan.q) - 1
    BY <2>1, HeadTailProperties DEF HTTPTyped
  <2>3. Len(Tail(msgChan.q)) <= MsgCap
    BY <2>2, MCPAssumption, LenProperties DEF HTTPTyped
  <2>. QED
    BY <2>1, <2>2, <2>3 DEF CommonTyped, HTTPTyped, StreamTyped
<1>5. CASE T!H!Close
  <2>1. /\ closed' = TRUE /\ msgChan' = [msgChan EXCEPT !.closed = TRUE]
        /\ UNCHANGED <<read, stray, sessionID, assigned, posts, crashed>>
    BY <1>5 DEF T!H!Close, T!H!serverSide
  <2>. DEFINE open == stream.pc \in {"read", "push", "done"}
  <2>2. \E b \in BOOLEAN : stream' = [stream EXCEPT !.cancelled = TRUE, !.shut = b]
    <3>1. open \in BOOLEAN
      OBVIOUS
    <3>2. stream' = [stream EXCEPT !.cancelled = TRUE, !.shut = open]
      BY <1>5, Zenon DEF T!H!Close
    <3>. HIDE DEF open
    <3>. QED
      BY <3>1, <3>2, Zenon
  <2>3. StreamTyped'
    BY <2>2 DEF HTTPTyped, StreamTyped
  <2>. QED
    BY <2>1, <2>3 DEF CommonTyped, HTTPTyped
<1>. QED
  BY <1>1, <1>2, <1>3, <1>4, <1>5

LEMMA HTTPTypedByOthers ==
    ASSUME CommonTyped, HTTPTyped, T!H!StreamStep \/ T!H!ServerStep
    PROVE  CommonTyped' /\ HTTPTyped'
<1>. DEFINE kept == UNCHANGED <<closed, read, sessionID, msgChan, crashed>>
<1>1. CASE T!H!SetResponse \/ T!H!StreamFails \/ T!H!ServerOpensStream
  <2>1. /\ kept /\ UNCHANGED <<stray, assigned, posts>>
        /\ \E pc \in T!H!StreamPCs \ {"push"} : stream' = [stream EXCEPT !.pc = pc]
    BY <1>1 DEF T!H!SetResponse, T!H!StreamFails, T!H!ServerOpensStream, T!H!StreamGoto,
       T!H!LoopHead, T!H!onlyStream, T!H!serverSide, T!H!StreamPCs
  <2>2. StreamTyped'
    BY <2>1 DEF HTTPTyped, StreamTyped
  <2>. QED
    BY <2>1, <2>2 DEF CommonTyped, HTTPTyped
<1>2. CASE T!H!PushEvent
  <2>1. /\ UNCHANGED <<closed, read, stray, sessionID, assigned, posts>>
        /\ stream.pc = "push" /\ T!H!Offer(stream.msg)
        /\ stream' = [stream EXCEPT !.pc = T!H!LoopHead, !.msg = T!H!Failure]
    BY <1>2 DEF T!H!PushEvent, T!H!serverSide
  <2>2. T!H!LoopHead \in T!H!StreamPCs \ {"push"}
    BY DEF T!H!LoopHead, T!H!StreamPCs
  <2>3. StreamTyped'
    BY <2>1, <2>2 DEF HTTPTyped, StreamTyped
  <2>4. stream.msg \in Replies
    BY <2>1 DEF HTTPTyped, StreamTyped
  <2>. QED
    BY <2>1, <2>3, <2>4, OfferTyped DEF CommonTyped, HTTPTyped
<1>3. ASSUME NEW t \in Callers, T!H!ServerResponds(t)
      PROVE  CommonTyped' /\ HTTPTyped'
  <2>1. PICK msg \in Replies \cup {T!H!Failure}, session \in Sessions \cup {T!H!NoSession} :
           /\ posts' = [posts EXCEPT ![t] =
                          [T!H!NoPost EXCEPT !.st = "responded", !.msg = msg, !.session = session]]
           /\ assigned' \in {assigned, session}
           /\ stray' = stray \/ (stray < MaxStray /\ stray' = stray + 1)
    BY <1>3 DEF T!H!ServerResponds, Replies
  <2>2. kept /\ UNCHANGED stream
    BY <1>3 DEF T!H!ServerResponds
  <2>3. [T!H!NoPost EXCEPT !.st = "responded", !.msg = msg, !.session = session] \in PostRecords
    BY NoPostTyped DEF PostRecords, T!H!PostStates
  <2>4. posts' \in [Callers -> PostRecords]
    BY <2>1, <2>3 DEF HTTPTyped
  <2>5. stray' \in 0 .. MaxStray
    BY <2>1, MCPAssumption DEF CommonTyped
  <2>. QED
    BY <2>1, <2>2, <2>4, <2>5 DEF CommonTyped, HTTPTyped, StreamTyped
<1>4. CASE T!H!ServerSendsEvent
  <2>1. kept /\ UNCHANGED <<assigned, posts>> /\ stray' = stray + 1 /\ stray < MaxStray
    BY <1>4 DEF T!H!ServerSendsEvent
  <2>2. \/ \E msg \in Replies : stream' = [stream EXCEPT !.pc = "push", !.msg = msg]
        \/ \E pc \in T!H!StreamPCs \ {"push"} : stream' = [stream EXCEPT !.pc = pc]
    BY <1>4 DEF T!H!ServerSendsEvent, T!H!StreamGoto, T!H!LoopHead, T!H!StreamPCs, Replies
  <2>3. StreamTyped'
    BY <2>2 DEF HTTPTyped, StreamTyped, T!H!StreamPCs
  <2>4. stray' \in 0 .. MaxStray
    BY <2>1, MCPAssumption DEF CommonTyped
  <2>. QED
    BY <2>1, <2>3, <2>4 DEF CommonTyped, HTTPTyped
<1>. QED
  BY <1>1, <1>2, <1>3, <1>4 DEF T!H!StreamStep, T!H!ServerStep

LEMMA TransportTypedAlone ==
    ASSUME TransportTyped, UNCHANGED transport
    PROVE  TransportTyped'
BY DEF transport, TransportTyped, CommonTyped, PipesTyped, HTTPTyped, StreamTyped

LEMMA TransportTypedStep ==
    ASSUME TransportTyped, NEW t, NEW n \in 0 .. MaxRequests,
           \/ T!Connect \/ T!ConnectFails \/ T!SendRefused
           \/ /\ t \in Callers
              /\ \/ T!SendBegins(t, n) \/ T!SendEnds(t, n) \/ T!SendBreaks(t) \/ T!SendPanics(t)
                 \/ T!CloseBegins(t) \/ T!CloseEnds(t)
           \/ T!ReceiveRefused \/ T!ReceiveBegins \/ T!ReceiveEnds \/ T!ReceiveFails
           \/ T!StreamStep \/ T!ServerStep
    PROVE  TransportTyped'
<1>. DEFINE piped == \/ T!S!Connect \/ T!S!ReceiveEnds
                     \/ /\ t \in Callers
                        /\ \/ T!S!SendBegins(t) \/ T!S!SendEnds(t, n) \/ T!S!SendBreaks(t)
                           \/ T!S!CloseBegins(t) \/ T!S!CloseEnds(t)
            posted == \/ T!H!Connect \/ T!H!ReceiveEnds \/ T!H!Close
                      \/ /\ t \in Callers
                         /\ T!H!SendBegins(t, n) \/ T!H!SendEnds(t) \/ T!H!SendBreaks(t)
<1>1. \/ UNCHANGED type /\ (piped \/ T!S!ServerStep) /\ UNCHANGED T!httpVars
      \/ UNCHANGED type /\ (posted \/ T!H!StreamStep \/ T!H!ServerStep) /\ UNCHANGED T!stdioVars
      \/ UNCHANGED transport
  <2>1. CASE \/ T!Connect
             \/ t \in Callers /\ (T!CloseBegins(t) \/ T!CloseEnds(t) \/ T!SendBegins(t, n))
    BY <2>1 DEF T!Connect, T!CloseBegins, T!CloseEnds, T!SendBegins, T!Stdio, T!HTTP,
       T!H!Connect, T!H!SendBegins, T!H!Close, T!stdioVars, T!httpVars, transport
  <2>2. CASE t \in Callers /\ (T!SendBreaks(t) \/ T!SendEnds(t, n) \/ T!SendPanics(t))
    BY <2>2 DEF T!SendBreaks, T!SendEnds, T!SendPanics, T!Stdio, T!HTTP, T!H!SendBreaks,
       T!H!SendEnds
  <2>3. CASE T!ConnectFails \/ T!SendRefused \/ T!ReceiveRefused \/ T!ReceiveBegins \/ T!ReceiveFails
    BY <2>3 DEF T!ConnectFails, T!SendRefused, T!ReceiveRefused, T!ReceiveBegins, T!ReceiveFails,
       T!Stdio, T!HTTP, T!stdioVars, T!httpVars, T!S!ConnectFails, T!S!SendRefused,
       T!S!ReceiveRefused, T!S!ReceiveBegins, T!S!ReceiveFails, T!S!vars, T!S!pipes, T!S!process,
       T!H!SendRefused, T!H!ReceiveRefused, T!H!ReceiveBegins, T!H!ReceiveFails, T!H!vars,
       T!H!serverSide, transport
  <2>4. CASE T!ReceiveEnds
    BY <2>4 DEF T!ReceiveEnds, T!Stdio, T!HTTP, T!H!ReceiveEnds
  <2>5. CASE T!StreamStep \/ T!ServerStep
    <3>1. T!H!StreamStep \/ T!H!ServerStep => UNCHANGED type
      BY DEF T!H!StreamStep, T!H!ServerStep, T!H!SetResponse, T!H!PushEvent, T!H!StreamFails,
         T!H!ServerResponds, T!H!ServerOpensStream, T!H!ServerSendsEvent, T!H!onlyStream
    <3>. QED
      BY <2>5, <3>1 DEF T!StreamStep, T!ServerStep, T!Stdio, T!HTTP
  <2>. QED
    BY <2>1, <2>2, <2>3, <2>4, <2>5
<1>2. CASE UNCHANGED type /\ (piped \/ T!S!ServerStep) /\ UNCHANGED T!httpVars
  <2>1. CommonTyped' /\ PipesTyped'
    BY <1>2, PipesTypedByClient, PipesTypedByServer DEF TransportTyped
  <2>. QED
    BY <1>2, <2>1 DEF TransportTyped, T!httpVars, HTTPTyped, StreamTyped
<1>3. CASE UNCHANGED type /\ (posted \/ T!H!StreamStep \/ T!H!ServerStep) /\ UNCHANGED T!stdioVars
  <2>1. CommonTyped' /\ HTTPTyped'
    BY <1>3, HTTPTypedByClient, HTTPTypedByOthers DEF TransportTyped
  <2>. QED
    BY <1>3, <2>1 DEF TransportTyped, T!stdioVars, PipesTyped
<1>. QED
  BY <1>1, <1>2, <1>3, TransportTypedAlone

\* The client on top of it.
ThreadTyped ==
    thread \in [Callers -> [op : {"none", "connect", "call", "close"}, pc : ThreadPCs,
                            id : 0 .. MaxRequests]]
LoopTyped == loop \in [pc : LoopPCs, id : 0 .. MaxRequests, ok : BOOLEAN]
ChannelsTyped ==
    /\ respChan \in [Requests -> {<<>>, <<TRUE>>, <<FALSE>>}]
    /\ outcome \in [Requests -> {"unmade", "open", "answered", "failed"}]
FlagsTyped ==
    /\ connected \in BOOLEAN /\ stopped \in BOOLEAN
    /\ phase \in {"new", "connecting", "done"} /\ closes \in 0 .. MaxCloses
TypeInv == TransportTyped /\ ThreadTyped /\ LoopTyped /\ ChannelsTyped /\ FlagsTyped

LEMMA TypeFollows == IInv /\ RequestReplyInv /\ TypeInv => TypeOK
<1>. SUFFICES ASSUME IInv, RequestReplyInv, TypeInv PROVE TypeOK
  OBVIOUS
<1>1. reqID \in 0 .. MaxRequests /\ pendingReqs \subseteq 1 .. reqID
  BY MakingFinite, MCPAssumption DEF IInv, Shapes, IdsUnique, RequestReplyInv, RequestsInv, Bounded
<1>2. T!TypeOK /\ {connected, stopped} \subseteq BOOLEAN
  BY TransportTypes DEF TypeInv, FlagsTyped
<1>. QED
  BY <1>1, <1>2 DEF TypeInv, ThreadTyped, LoopTyped, ChannelsTyped, FlagsTyped, TypeOK

LEMMA ThreadMoves ==
    ASSUME ThreadTyped, NEW t \in Callers,
           \/ UNCHANGED thread \/ Return(t) \/ \E l \in ThreadPCs : Goto(t, l)
           \/ \E op \in {"connect", "call", "close"}, l \in ThreadPCs :
                 thread' = [thread EXCEPT ![t] = [op |-> op, pc |-> l, id |-> 0]]
    PROVE  ThreadTyped'
<1>. DEFINE R == [op : {"none", "connect", "call", "close"}, pc : ThreadPCs, id : 0 .. MaxRequests]
<1>0. 0 \in 0 .. MaxRequests
  BY MCPAssumption
<1>1. ASSUME NEW m \in R, thread' = [thread EXCEPT ![t] = m]
      PROVE  ThreadTyped'
  <2>1. thread \in [Callers -> R]
    BY DEF ThreadTyped
  <2>. HIDE DEF R
  <2>2. thread' \in [Callers -> R]
    BY <1>1, <2>1
  <2>. QED
    BY <2>2 DEF ThreadTyped, R
<1>2. CASE Return(t)
  <2>1. Idle \in R
    BY <1>0 DEF Idle, ThreadPCs
  <2>. QED
    BY <1>1, <1>2, <2>1 DEF Return
<1>3. ASSUME NEW l \in ThreadPCs, Goto(t, l)
      PROVE  ThreadTyped'
  <2>1. [thread[t] EXCEPT !.pc = l] \in R
    BY DEF ThreadTyped
  <2>2. thread' = [thread EXCEPT ![t] = [thread[t] EXCEPT !.pc = l]]
    BY <1>3 DEF Goto
  <2>. QED
    BY <1>1, <2>1, <2>2
<1>4. ASSUME NEW op \in {"connect", "call", "close"}, NEW l \in ThreadPCs,
             thread' = [thread EXCEPT ![t] = [op |-> op, pc |-> l, id |-> 0]]
      PROVE  ThreadTyped'
  <2>1. [op |-> op, pc |-> l, id |-> 0] \in R
    BY <1>0
  <2>. QED
    BY <1>1, <1>4, <2>1
<1>5. CASE UNCHANGED thread
  BY <1>5 DEF ThreadTyped
<1>. QED
  BY <1>2, <1>3, <1>4, <1>5

\* The steps of a goroutine that leave the loop and the channels alone.
LEMMA GoingOnTyped ==
    ASSUME TypeInv, NEW t \in Callers,
           \/ Connect(t) \/ CallTool(t) \/ Close(t) \/ Send(t) \/ SendReturns(t) \/ SendFails(t)
           \/ SendPanics(t) \/ ContextEnds(t) \/ Publish(t) \/ CloseTransport(t) \/ TransportClosed(t)
    PROVE  TypeInv'
<1>1. ThreadTyped'
  <2>1. \/ UNCHANGED thread \/ Return(t) \/ \E l \in ThreadPCs : Goto(t, l)
        \/ \E op \in {"connect", "call", "close"}, l \in ThreadPCs :
              thread' = [thread EXCEPT ![t] = [op |-> op, pc |-> l, id |-> 0]]
    BY DEF Connect, CallTool, Close, Send, SendReturns, SendFails, SendPanics, ContextEnds, Publish,
       CloseTransport, TransportClosed, ThreadPCs, client
  <2>. QED
    BY <2>1, ThreadMoves DEF TypeInv
<1>2. FlagsTyped'
  <2>1. CASE Connect(t) \/ CallTool(t) \/ Publish(t) \/ TransportClosed(t)
    BY <2>1 DEF TypeInv, FlagsTyped, Connect, CallTool, Publish, TransportClosed
  <2>2. CASE Close(t)
    <3>1. /\ connected' = FALSE /\ stopped' = TRUE /\ UNCHANGED phase
          /\ closes < MaxCloses /\ closes' = closes + 1
      BY <2>2 DEF Close
    <3>2. closes' \in 0 .. MaxCloses
      BY <3>1, MCPAssumption DEF TypeInv, FlagsTyped
    <3>. QED
      BY <3>1, <3>2 DEF TypeInv, FlagsTyped
  <2>3. CASE \/ Send(t) \/ SendReturns(t) \/ SendFails(t) \/ SendPanics(t) \/ ContextEnds(t)
             \/ CloseTransport(t)
    BY <2>3 DEF TypeInv, FlagsTyped, Send, SendReturns, SendFails, SendPanics, ContextEnds,
       CloseTransport, client
  <2>. QED
    BY <2>1, <2>2, <2>3
<1>3. ChannelsTyped'
  BY DEF TypeInv, ChannelsTyped, Connect, CallTool, Close, Send, SendReturns, SendFails, SendPanics,
     ContextEnds, Publish, CloseTransport, TransportClosed, client, requests
<1>4. LoopTyped'
  <2>1. UNCHANGED loop \/ loop' = [loop EXCEPT !.pc = "check"]
    BY DEF Connect, CallTool, Close, Send, SendReturns, SendFails, SendPanics, ContextEnds, Publish,
       CloseTransport, TransportClosed, client
  <2>. QED
    BY <2>1 DEF TypeInv, LoopTyped, LoopPCs
<1>5. TransportTyped'
  <2>1. thread[t].id \in 0 .. MaxRequests /\ 0 \in 0 .. MaxRequests
    BY MCPAssumption DEF TypeInv, ThreadTyped
  <2>2. CASE CallTool(t) \/ Close(t) \/ ContextEnds(t) \/ Publish(t)
    BY <2>2, TransportTypedAlone DEF TypeInv, CallTool, Close, ContextEnds, Publish
  <2>3. CASE Connect(t) \/ SendPanics(t) \/ CloseTransport(t) \/ TransportClosed(t)
    BY <2>1, <2>3, TransportTypedStep DEF TypeInv, Connect, SendPanics, CloseTransport,
       TransportClosed
  <2>4. CASE Send(t) \/ SendReturns(t) \/ SendFails(t)
    BY <2>1, <2>4, TransportTypedStep DEF TypeInv, Send, SendReturns, SendFails
  <2>. QED
    BY <2>2, <2>3, <2>4
<1>. QED
  BY <1>1, <1>2, <1>3, <1>4, <1>5 DEF TypeInv

\* The steps that begin and end a request.
LEMMA RequestTyped ==
    ASSUME IInv, RequestReplyInv, TypeInv, NEW t \in Callers,
           Register(t) \/ TakeResponse(t) \/ Abandon(t)
    PROVE  TypeInv'
<1>1. TransportTyped' /\ LoopTyped' /\ FlagsTyped'
  BY TransportTypedAlone DEF TypeInv, LoopTyped, FlagsTyped, Register, TakeResponse, Abandon
<1>2. ThreadTyped'
  <2>1. CASE Register(t)
    <3>. DEFINE R == [op : {"none", "connect", "call", "close"}, pc : ThreadPCs, id : 0 .. MaxRequests]
    <3>1. RequestsInv' /\ reqID' = reqID + 1 /\ reqID \in Nat
      BY <2>1, MakesRequest DEF RequestReplyInv, Register, IInv, Shapes
    <3>2. Cardinality(Making') \in Nat
      <4>1. IsFiniteSet(Making')
        BY MCPAssumption, FS_Subset DEF Making
      <4>. QED
        BY <4>1, FS_CardinalityType
    <3>3. reqID' \in 0 .. MaxRequests
      BY <3>1, <3>2, MCPAssumption DEF RequestsInv, Bounded
    <3>4. [op |-> thread[t].op, pc |-> "send", id |-> reqID'] \in R
      BY <3>3 DEF TypeInv, ThreadTyped, ThreadPCs
    <3>5. thread \in [Callers -> R]
          /\ thread' = [thread EXCEPT ![t] = [op |-> thread[t].op, pc |-> "send", id |-> reqID']]
      BY <2>1 DEF TypeInv, ThreadTyped, Register
    <3>. HIDE DEF R
    <3>6. thread' \in [Callers -> R]
      BY <3>4, <3>5
    <3>. QED
      BY <3>6 DEF ThreadTyped, R
  <2>2. CASE TakeResponse(t) \/ Abandon(t)
    <3>1. Return(t) \/ \E l \in ThreadPCs : Goto(t, l)
      BY <2>2 DEF TakeResponse, Abandon, ThreadPCs
    <3>. QED
      BY <3>1, ThreadMoves DEF TypeInv
  <2>. QED
    BY <2>1, <2>2
<1>3. ChannelsTyped'
  <2>1. outcome' \in [Requests -> {"unmade", "open", "answered", "failed"}]
    BY DEF TypeInv, ChannelsTyped, Register, TakeResponse, Abandon
  <2>2. CASE UNCHANGED respChan
    BY <2>1, <2>2 DEF TypeInv, ChannelsTyped
  <2>3. CASE TakeResponse(t)
    <3>. DEFINE id == thread[t].id
    <3>1. respChan' = [respChan EXCEPT ![id] = Tail(respChan[id])] /\ respChan[id] # <<>>
      BY <2>3 DEF TakeResponse
    <3>2. Tail(<<TRUE>>) = <<>> /\ Tail(<<FALSE>>) = <<>>
      OBVIOUS
    <3>3. id \in Requests => Tail(respChan[id]) = <<>>
      BY <3>1, <3>2 DEF TypeInv, ChannelsTyped
    <3>. HIDE DEF id
    <3>4. respChan' \in [Requests -> {<<>>, <<TRUE>>, <<FALSE>>}]
      BY <3>1, <3>3 DEF TypeInv, ChannelsTyped
    <3>. QED
      BY <2>1, <3>4 DEF ChannelsTyped
  <2>. QED
    BY <2>2, <2>3 DEF Register, Abandon
<1>. QED
  BY <1>1, <1>2, <1>3 DEF TypeInv

\* What the loop takes from the transport is a line or a reply.
LEMMA ReceivedTyped ==
    ASSUME TypeInv, ReadLine
    PROVE  T!Received.kind = "answer" => T!Received.id \in 0 .. MaxRequests /\ T!Received.ok \in BOOLEAN
<1>1. \A msg \in T!S!Lines \cup Replies :
         msg.kind = "answer" => msg.id \in 0 .. MaxRequests /\ msg.ok \in BOOLEAN
  <2>1. \A msg \in [kind : {"answer"}, id : 1 .. MaxRequests, ok : BOOLEAN] :
           msg.id \in 0 .. MaxRequests /\ msg.ok \in BOOLEAN
    BY MCPAssumption
  <2>2. \A msg \in [kind : {"notification", "garbage"}, id : {0}, ok : {FALSE}] : msg.kind # "answer"
    OBVIOUS
  <2>3. T!H!Notification.kind # "answer"
    BY DEF T!H!Notification
  <2>. QED
    BY <2>1, <2>2, <2>3 DEF T!S!Lines, Replies, T!H!Answers
<1>2. T!Received \in T!S!Lines \cup Replies
  <2>1. CASE type = "stdio"
    <3>1. T!S!ReceiveEnds
      BY <2>1 DEF ReadLine, T!ReceiveEnds, T!Stdio, T!HTTP
    <3>. QED
      BY <2>1, <3>1, HeadTailProperties
         DEF T!S!ReceiveEnds, T!Received, TypeInv, TransportTyped, PipesTyped
  <2>2. CASE type # "stdio"
    <3>1. T!H!ReceiveEnds
      BY <2>2 DEF ReadLine, T!ReceiveEnds, T!Stdio, T!HTTP
    <3>. QED
      BY <2>2, <3>1, HeadTailProperties
         DEF T!H!ReceiveEnds, T!Received, TypeInv, TransportTyped, HTTPTyped
  <2>. QED
    BY <2>1, <2>2
<1>. QED
  BY <1>1, <1>2

LEMMA LoopStepTyped ==
    ASSUME TypeInv, LoopStep
    PROVE  TypeInv'
<1>0. 0 \in 0 .. MaxRequests
  BY MCPAssumption
<1>1. ThreadTyped' /\ FlagsTyped'
  BY DEF TypeInv, ThreadTyped, FlagsTyped, LoopStep, CheckStopped, Receive, ReadLine, ReadFails,
     Route, RoutePanics, Deliver, client
<1>2. LoopTyped'
  <2>1. ASSUME NEW l \in LoopPCs, LoopGoto(l)
        PROVE  LoopTyped'
    BY <1>0, <2>1 DEF LoopGoto, LoopTyped
  <2>2. CASE CheckStopped \/ Receive \/ ReadFails \/ Deliver
    <3>1. \E l \in LoopPCs : LoopGoto(l)
      BY <2>2 DEF CheckStopped, Receive, ReadFails, Deliver, LoopPCs
    <3>. QED
      BY <2>1, <3>1
  <2>3. CASE Route
    <3>1. loop' = [loop EXCEPT !.pc = "deliver"] \/ LoopGoto("check")
      BY <2>3 DEF Route
    <3>. QED
      BY <2>1, <3>1 DEF TypeInv, LoopTyped, LoopPCs
  <2>4. CASE ReadLine
    <3>1. \/ T!Received.kind = "answer"
             /\ loop' = [pc |-> "route", id |-> T!Received.id, ok |-> T!Received.ok]
          \/ \E l \in LoopPCs : LoopGoto(l)
      BY <2>4 DEF ReadLine, LoopPCs
    <3>2. CASE /\ T!Received.kind = "answer"
               /\ loop' = [pc |-> "route", id |-> T!Received.id, ok |-> T!Received.ok]
      <4>1. T!Received.id \in 0 .. MaxRequests /\ T!Received.ok \in BOOLEAN
        BY <2>4, <3>2, ReceivedTyped
      <4>. QED
        BY <3>2, <4>1 DEF LoopTyped, LoopPCs
    <3>. QED
      BY <2>1, <3>1, <3>2
  <2>5. CASE RoutePanics
    BY <2>5 DEF RoutePanics, client, TypeInv, LoopTyped
  <2>. QED
    BY <2>2, <2>3, <2>4, <2>5 DEF LoopStep
<1>3. ChannelsTyped'
  <2>1. CASE Deliver
    <3>1. loop.ok \in BOOLEAN
      BY DEF TypeInv, LoopTyped
    <3>2. <<loop.ok>> \in {<<>>, <<TRUE>>, <<FALSE>>}
      BY <3>1
    <3>3. /\ UNCHANGED outcome
          /\ respChan' = respChan \/ respChan' = [respChan EXCEPT ![loop.id] = <<loop.ok>>]
      BY <2>1 DEF Deliver
    <3>. QED
      BY <3>2, <3>3 DEF TypeInv, ChannelsTyped
  <2>2. CASE ~Deliver
    BY <2>2 DEF TypeInv, ChannelsTyped, LoopStep, CheckStopped, Receive, ReadLine, ReadFails,
       Route, RoutePanics, client, requests
  <2>. QED
    BY <2>1, <2>2
<1>4. TransportTyped'
  <2>1. CASE CheckStopped \/ Route \/ Deliver
    BY <2>1, TransportTypedAlone DEF TypeInv, CheckStopped, Route, Deliver
  <2>2. CASE Receive \/ ReadLine \/ ReadFails
    BY <1>0, <2>2, TransportTypedStep DEF TypeInv, Receive, ReadLine, ReadFails
  <2>3. CASE RoutePanics
    BY <2>3 DEF RoutePanics, TypeInv, TransportTyped, CommonTyped, PipesTyped, HTTPTyped, StreamTyped
  <2>. QED
    BY <2>1, <2>2, <2>3 DEF LoopStep
<1>. QED
  BY <1>1, <1>2, <1>3, <1>4 DEF TypeInv

LEMMA TypeStep ==
    ASSUME IInv, RequestReplyInv, TypeInv, Next
    PROVE  TypeInv'
<1>1. CASE ConnectFails \/ Stream \/ Server
  <2>1. TransportTyped'
    <3>1. 0 \in 0 .. MaxRequests
      BY MCPAssumption
    <3>. QED
      BY <1>1, <3>1, TransportTypedStep DEF TypeInv, ConnectFails, Stream, Server
  <2>2. UNCHANGED <<thread, loop, respChan, outcome, connected, stopped, closes>> /\ phase' \in {phase, "done"}
    BY <1>1 DEF ConnectFails, Stream, Server, client, requests
  <2>. QED
    BY <2>1, <2>2 DEF TypeInv, ThreadTyped, LoopTyped, ChannelsTyped, FlagsTyped
<1>2. CASE LoopStep
  BY <1>2, LoopStepTyped
<1>3. ASSUME NEW t \in Callers, Connect(t) \/ CallTool(t) \/ Close(t) \/ CallStep(t)
      PROVE  TypeInv'
  BY <1>3, GoingOnTyped, RequestTyped DEF CallStep
<1>. QED
  BY <1>1, <1>2, <1>3 DEF Next

LEMMA InitTypes == Init => TypeInv
<1>. SUFFICES ASSUME Init PROVE TypeInv
  OBVIOUS
<1>0. 0 \in 0 .. MaxRequests /\ 0 \in 0 .. MaxStray /\ 0 \in 0 .. MaxCloses
  BY MCPAssumption
<1>1. type \in Types /\ CommonTyped
  BY <1>0 DEF Init, T!Init, T!S!Init, CommonTyped
<1>2. PipesTyped
  BY MCPAssumption DEF Init, T!Init, T!S!Init, PipesTyped
<1>3. HTTPTyped
  <2>1. StreamTyped
    BY DEF Init, T!Init, T!H!Init, T!H!NoStream, StreamTyped, T!H!StreamPCs
  <2>2. posts \in [Callers -> PostRecords]
    BY NoPostTyped DEF Init, T!Init, T!H!Init
  <2>3. msgChan \in [closed : BOOLEAN, q : Seq(Replies)] /\ Len(msgChan.q) <= MsgCap
    BY MCPAssumption DEF Init, T!Init, T!H!Init
  <2>4. crashed \in BOOLEAN /\ {sessionID, assigned} \subseteq Sessions \cup {T!H!NoSession}
    BY DEF Init, T!Init, T!H!Init
  <2>. QED
    BY <2>1, <2>2, <2>3, <2>4 DEF HTTPTyped
<1>4. ThreadTyped /\ LoopTyped
  BY <1>0 DEF Init, Idle, ThreadTyped, LoopTyped, ThreadPCs, LoopPCs
<1>5. ChannelsTyped /\ FlagsTyped
  BY <1>0 DEF Init, ChannelsTyped, FlagsTyped
<1>. QED
  BY <1>1, <1>2, <1>3, <1>4, <1>5 DEF TypeInv, TransportTyped

\* Over every transport and whatever the server sends, each variable of the
\* client and of the transport has its type, no request is numbered beyond the
\* last, no response channel holds two answers, and no pipe and no channel
\* holds more than it can.
THEOREM MCPClientTypeCorrect == Spec => []TypeOK
<1>. DEFINE I == LifeInv /\ PhaseInv /\ FirstRequest /\ RequestReplyInv /\ TypeInv
<1>1. Init => I
  BY InitLife, InitSession, InitRequestReply, InitTypes DEF Init, PhaseInv, Idle
<1>2. (IInv /\ LoopStarts) /\ I /\ [Next]_vars => I'
  <2>1. CASE IInv /\ I /\ Next
    BY <2>1, StepLife, RefinesStep, FirstStep, RequestReplyStep, TypeStep DEF IInv
  <2>2. CASE I /\ UNCHANGED vars
    <3>1. UNCHANGED <<thread, phase, connected, closes, reqID, outcome, respChan, loop, transport, stopped>>
      BY <2>2 DEF vars, client, requests
    <3>2. PhaseInv' /\ FirstRequest'
      BY <2>2, <3>1 DEF PhaseInv, FirstRequest
    <3>3. TransportHeard' /\ UNCHANGED read
      BY <2>2, <3>1, TransportAlone DEF RequestReplyInv
    <3>4. RequestsInv' /\ ClientHeard'
      BY <2>2, <3>1, <3>3, RequestsUntouched DEF RequestReplyInv, ClientHeard
    <3>5. TypeInv'
      BY <2>2, <3>1, TransportTypedAlone DEF TypeInv, ThreadTyped, LoopTyped, ChannelsTyped,
         FlagsTyped
    <3>. QED
      BY <2>2, <3>1, <3>2, <3>3, <3>4, <3>5, StutterLife DEF RequestReplyInv
  <2>. QED
    BY <2>1, <2>2
<1>3. IInv /\ I => TypeOK
  BY TypeFollows
<1>. QED
  BY <1>1, <1>2, <1>3, Invariant, PTL DEF Spec

=============================================================================
