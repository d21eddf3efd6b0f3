--------------------------- MODULE MCPManager_proofs ---------------------------
(***************************************************************************)
(* Proofs about MCPManager for any number of goroutines, names, clients,   *)
(* SDK servers and handlers.  The invariant below follows a client on its  *)
(* way: from the ConnectServer that makes it, through the map, to the call *)
(* that closes it; and it says for each call which of its steps belong to  *)
(* it, so that no call leaves a client behind when it returns.             *)
(***************************************************************************)
EXTENDS MCPManager, TLAPS

Live == {"connected", "closing", "closed"}
Closers == {"disconnect", "disconnectAll", "user"}

\* A client in the map, or taken out of it, has been connected.
OnceConnected ==
    /\ \A n \in Names : clients[n] # None => conn[clients[n]] \in Live
    /\ \A t \in Threads : \A c \in took[t] : conn[c] \in Live
    /\ \A t \in Threads :
          thread[t].pc = "store" => thread[t].client \in Clients /\ conn[thread[t].client] \in Live

\* The steps of each call, and what a call holds outside them.
Ordered(call, held) ==
    /\ call.pc = "idle" => call = Idle
    /\ call.op = "none" <=> call.pc = "idle"
    /\ call.op = "connect" <=> call.pc \in {"begin", "handshake", "store"}
    /\ call.op = "connect" => call.client \in Clients /\ call.name \in Names
    /\ call.pc \in {"next", "closing"} => call.op \in Closers
    /\ call.op \in Closers => call.pc \in {"next", "closing", "returned"}
    /\ call.pc = "closing" => call.client \in Clients
    /\ call.op \in {"call", "addSDK", "addServer"} => call.name \in Names
    /\ call.op = "addSDK" => call.sdk \in SDKServers
    /\ call.pc \in {"look up", "tool", "handler"} => call.op \in {"call", "message"}
    /\ call.pc \in {"tool", "handler"} => call.sdk \in SDKServers
    /\ call.pc \notin {"next", "closing"} => held = {}

CallsOrdered == \A t \in Threads : Ordered(thread[t], todo[t])

\* A call that closes has closed what it took and does not hold any more.
TakenOrClosed ==
    \A t \in Threads :
        thread[t].op \in Closers => \A c \in took[t] : c \in todo[t] \/ conn[c] = "closed"

\* What a call of CallTool has found is in the views it may have seen.
Found(call, views) ==
    /\ call.pc \in {"look up", "tool", "handler", "returned"}
    /\ call.pc = "look up" => call.sdk = None
    /\ call.sdk # None => \E v \in views : v.sdk = call.sdk
    /\ call.pc \in {"handler", "returned"} /\ call.sdk # None =>
          \E v \in views : v.tools[call.sdk] = call.tool
    /\ call.pc = "returned" /\ call.sdk = None =>
          \E v \in views : v.sdk = None /\ v.client = call.client

CallsSeen ==
    \A t \in Threads : thread[t].op = "call" =>
        View(thread[t].name) \in seen[t] /\ Found(thread[t], seen[t])

\* The inductive invariant: together these parts are kept by every step.
ManagerInv == ManagerTypeOK /\ OnceConnected /\ CallsOrdered /\ TakenOrClosed /\ NoClientLost /\ CallsSeen

-----------------------------------------------------------------------------
LEMMA ManagerInitInv ==
    ASSUME ManagerAssumption, ManagerInit
    PROVE  ManagerInv
  <1>1. ManagerTypeOK
    <2>1. conn \in [Clients -> C!States]
      BY DEF ManagerInit, C!Init, C!States
    <2>2. thread \in [Threads -> Calls]
      BY DEF ManagerInit, Idle, Calls, ToolStates, Ops, PCs
    <2>3. changes \in 0 .. MaxChanges
      BY DEF ManagerInit, ManagerAssumption
    <2> QED
      BY <2>1, <2>2, <2>3 DEF ManagerInit, ManagerTypeOK
  <1>2. OnceConnected /\ CallsOrdered /\ TakenOrClosed /\ NoClientLost /\ CallsSeen
    BY DEF ManagerInit, C!Init, OnceConnected, CallsOrdered, Ordered, TakenOrClosed, NoClientLost,
       CallsSeen, Idle, Closers, Live
  <1> QED
    BY <1>1, <1>2 DEF ManagerInv

\* A call stays a call when one of its fields is set.
LEMMA FieldTypes ==
    ASSUME NEW r \in Calls, NEW p \in PCs
    PROVE  /\ [r EXCEPT !.pc = p] \in Calls
           /\ \A c \in Clients \cup {None} : [r EXCEPT !.pc = p, !.client = c] \in Calls
           /\ \A s \in SDKServers \cup {None} : [r EXCEPT !.pc = p, !.sdk = s] \in Calls
           /\ \A h \in ToolStates : [r EXCEPT !.pc = p, !.tool = h] \in Calls
  BY DEF Calls

\* A step of call t leaves the others alone ...
Only(t, r) ==
    /\ thread' \in [Threads -> Calls]
    /\ thread'[t] = r
    /\ \A u \in Threads \ {t} : thread'[u] = thread[u]

LEMMA Steps ==
    ASSUME ManagerTypeOK, NEW t \in Threads, NEW r \in Calls, Become(t, r)
    PROVE  Only(t, r)
  BY DEF ManagerTypeOK, Become, Only

\* ... and one of client c leaves the other clients alone.
ConnOnly(c, from, to) ==
    /\ conn' \in [Clients -> C!States]
    /\ conn[c] = from /\ conn'[c] = to
    /\ \A d \in Clients \ {c} : conn'[d] = conn[d]

LEMMA ConnSteps ==
    ASSUME ManagerTypeOK, NEW c \in Clients, NEW from, NEW to \in C!States, C!Moves(c, from, to)
    PROVE  ConnOnly(c, from, to)
  BY DEF ManagerTypeOK, C!Moves, ConnOnly

\* What a call in progress sees is a view.
LEMMA SeenTypes ==
    ASSUME ManagerTypeOK, CallsOrdered, Seen,
           \A t \in Threads : thread[t].op = "call" => thread'[t] = thread[t],
           sdkServers' \in [Names -> SDKServers \cup {None}],
           clients' \in [Names -> Clients \cup {None}],
           tools' \in [SDKServers -> ToolStates]
    PROVE  seen' \in [Threads -> SUBSET Views]
  <1>1. \A n \in Names : View(n)' \in Views
    BY DEF View, Views
  <1>2. \A t \in Threads : thread[t].op = "call" => thread'[t].name \in Names
    BY DEF CallsOrdered, Ordered
  <1>3. \A t \in Threads : seen[t] \subseteq Views
    BY DEF ManagerTypeOK
  <1> QED
    BY <1>1, <1>2, <1>3 DEF Seen

\* A step of call t keeps the order of the others.
LEMMA OrderKept ==
    ASSUME CallsOrdered, NEW t \in Threads, NEW r, Only(t, r), Ordered(r, todo'[t]),
           \A u \in Threads \ {t} : todo'[u] = todo[u]
    PROVE  CallsOrdered'
  BY DEF CallsOrdered, Only

\* A step of call t, of another kind, that changes nothing a caller can see ...
LEMMA OthersSeen ==
    ASSUME CallsSeen, NEW t \in Threads, thread'[t].op # "call",
           \A u \in Threads \ {t} : thread'[u] = thread[u] /\ seen'[u] = seen[u],
           UNCHANGED <<sdkServers, clients, tools>>
    PROVE  CallsSeen'
  <1> SUFFICES ASSUME NEW u \in Threads, thread'[u].op = "call"
               PROVE  View(thread[u].name)' \in seen'[u] /\ Found(thread'[u], seen'[u])
    BY DEF CallsSeen, Found
  <1>1. u # t /\ thread'[u] = thread[u] /\ seen'[u] = seen[u]
    OBVIOUS
  <1>2. View(thread[u].name)' = View(thread[u].name)
    BY <1>1 DEF View
  <1> QED
    BY <1>1, <1>2 DEF CallsSeen

\* ... or of a call of CallTool itself ...
LEMMA OwnSeen ==
    ASSUME CallsSeen, NEW t \in Threads, thread[t].op = "call",
           thread'[t].name = thread[t].name, Found(thread'[t], seen[t]),
           \A u \in Threads \ {t} : thread'[u] = thread[u],
           UNCHANGED <<sdkServers, clients, tools, seen>>
    PROVE  CallsSeen'
  <1> SUFFICES ASSUME NEW u \in Threads, thread'[u].op = "call"
               PROVE  View(thread[u].name)' \in seen'[u] /\ Found(thread'[u], seen'[u])
    BY DEF CallsSeen, Found
  <1>1. thread'[u].name = thread[u].name /\ thread[u].op = "call"
    OBVIOUS
  <1>2. View(thread[u].name)' = View(thread[u].name)
    BY <1>1 DEF View
  <1>3. Found(thread'[u], seen[u])
    BY <1>1 DEF CallsSeen
  <1> QED
    BY <1>1, <1>2, <1>3 DEF CallsSeen

\* ... and a change, which every call in progress sees.
LEMMA ChangeSeen ==
    ASSUME ManagerTypeOK, CallsSeen, Seen,
           \A u \in Threads : thread'[u].op = "call" => thread'[u] = thread[u]
    PROVE  CallsSeen'
  <1> SUFFICES ASSUME NEW u \in Threads, thread'[u].op = "call"
               PROVE  View(thread[u].name)' \in seen'[u] /\ Found(thread'[u], seen'[u])
    BY DEF CallsSeen, Found
  <1>1. thread'[u] = thread[u] /\ thread[u].op = "call"
    OBVIOUS
  <1>2. seen'[u] = seen[u] \cup {View(thread[u].name)'}
    BY <1>1 DEF Seen
  <1>3. Found(thread[u], seen[u])
    BY <1>1 DEF CallsSeen
  <1> QED
    BY <1>1, <1>2, <1>3 DEF Found

-----------------------------------------------------------------------------
(* One lemma for each action *)

LEMMA AddInv ==
    ASSUME ManagerAssumption, ManagerInv, NEW t \in Threads, NEW adder \in {"addServer", "addSDK"},
           NEW n \in Names,
           NEW s \in SDKServers \cup {None}, adder = "addSDK" => s \in SDKServers, Add(t, adder,
           n, s)
    PROVE  ManagerInv'
  <1> DEFINE r == [Idle EXCEPT !.op = adder, !.pc = "write", !.name = n, !.sdk = s]
  <1>1. /\ thread[t] \in Calls /\ Ordered(thread[t], todo[t])
        /\ thread[t] = Idle /\ todo[t] = {}
    BY DEF ManagerInv, ManagerTypeOK, CallsOrdered, Ordered, Add, At, Access, Change
  <1>2. r \in Calls
    BY <1>1 DEF ManagerInv, ManagerTypeOK, Idle, Calls, ToolStates, Ops, PCs
  <1>3. r.op = adder /\ r.pc = "write" /\ r.name = n /\ r.sdk = s
    BY <1>1 DEF ManagerInv, ManagerTypeOK, Idle
  <1>4. Only(t, r)
    BY <1>2, Steps DEF ManagerInv, Add
  <1> HIDE DEF r
  <1>5. changes' \in 0 .. MaxChanges
    BY DEF ManagerInv, ManagerTypeOK, ManagerAssumption, Add, Change
  <1>6. crashed' \in BOOLEAN
    BY DEF ManagerInv, ManagerTypeOK, ManagerAssumption, Add, Access
  <1>7. UNCHANGED <<conn, servers, sdkServers, clients, tools, todo, took, seen, replaced>>
    BY <1>1 DEF ManagerAssumption, ManagerInv, ManagerTypeOK, Add, At, Access, Change, histories
  <1>8. ManagerTypeOK'
    BY <1>1, <1>3, <1>4, <1>5, <1>6, <1>7 DEF ManagerInv, ManagerTypeOK, Only
  <1>9. OnceConnected'
    BY <1>1, <1>3, <1>4, <1>5, <1>6, <1>7 DEF ManagerInv, ManagerTypeOK, OnceConnected, Live,
       Only, Idle
  <1>10. CallsOrdered'
    <2>1. Ordered(r, todo'[t])
      BY <1>1, <1>3, <1>4, <1>5, <1>6, <1>7 DEF ManagerAssumption, Ordered, Closers, Idle
    <2>2. \A u \in Threads \ {t} : todo'[u] = todo[u]
      BY <1>1, <1>3, <1>4, <1>5, <1>6, <1>7
    <2> QED
      BY <1>1, <1>3, <1>4, <1>5, <1>6, <1>7, <2>1, <2>2, OrderKept DEF ManagerInv
  <1>11. TakenOrClosed'
    BY <1>1, <1>3, <1>4, <1>5, <1>6, <1>7 DEF ManagerInv, ManagerTypeOK, OnceConnected, Live,
       TakenOrClosed, Closers, Only, Idle
  <1>12. NoClientLost'
    BY <1>1, <1>3, <1>4, <1>5, <1>6, <1>7 DEF ManagerAssumption, ManagerInv, ManagerTypeOK,
       NoClientLost, InMap, InHand, Ordered, Closers, Only, Idle
  <1>13. CallsSeen'
    BY <1>1, <1>3, <1>4, <1>5, <1>6, <1>7, OthersSeen DEF ManagerInv, Only, Idle, Closers
  <1> QED
    BY <1>8, <1>9, <1>10, <1>11, <1>12, <1>13 DEF ManagerInv

LEMMA AddExternalServerInv ==
    ASSUME ManagerAssumption, ManagerInv, NEW t \in Threads, AddExternalServer(t)
    PROVE  ManagerInv'
  <1>1. /\ thread[t] \in Calls /\ Ordered(thread[t], todo[t])
        /\ thread[t].op = "addServer" /\ thread[t].pc = "write"
    BY DEF ManagerInv, ManagerTypeOK, CallsOrdered, Ordered, AddExternalServer, At
  <1>2. Idle \in Calls
    BY <1>1 DEF ManagerInv, ManagerTypeOK, Idle, Calls, ToolStates, Ops, PCs
  <1>3. Only(t, Idle)
    BY <1>2, Steps DEF ManagerInv, AddExternalServer
  <1>4. /\ servers' \in [Names -> ServerTypes]
        /\ UNCHANGED <<conn, sdkServers, clients, tools, todo, took, seen, replaced, changes,
           crashed>>
    BY <1>1 DEF ManagerAssumption, ManagerInv, ManagerTypeOK, AddExternalServer, At, histories
  <1>5. ManagerTypeOK'
    BY <1>1, <1>3, <1>4 DEF ManagerInv, ManagerTypeOK, Only
  <1>6. OnceConnected'
    BY <1>1, <1>3, <1>4 DEF ManagerInv, ManagerTypeOK, OnceConnected, Live, Only, Idle
  <1>7. CallsOrdered'
    <2>1. Ordered(Idle, todo'[t])
      BY <1>1, <1>3, <1>4 DEF ManagerAssumption, Ordered, Closers, Idle
    <2>2. \A u \in Threads \ {t} : todo'[u] = todo[u]
      BY <1>1, <1>3, <1>4
    <2> QED
      BY <1>1, <1>3, <1>4, <2>1, <2>2, OrderKept DEF ManagerInv
  <1>8. TakenOrClosed'
    BY <1>1, <1>3, <1>4 DEF ManagerInv, ManagerTypeOK, OnceConnected, Live, TakenOrClosed,
       Closers, Only, Idle
  <1>9. NoClientLost'
    BY <1>1, <1>3, <1>4 DEF ManagerAssumption, ManagerInv, ManagerTypeOK, NoClientLost, InMap,
       InHand, Ordered, Closers, Only, Idle
  <1>10. CallsSeen'
    BY <1>1, <1>3, <1>4, OthersSeen DEF ManagerInv, Only, Idle, Closers
  <1> QED
    BY <1>5, <1>6, <1>7, <1>8, <1>9, <1>10 DEF ManagerInv

LEMMA AddSDKServerInv ==
    ASSUME ManagerAssumption, ManagerInv, NEW t \in Threads, AddSDKServer(t)
    PROVE  ManagerInv'
  <1>1. /\ thread[t] \in Calls /\ Ordered(thread[t], todo[t])
        /\ thread[t].op = "addSDK" /\ thread[t].pc = "write"
        /\ thread[t].sdk \in SDKServers
    BY DEF ManagerInv, ManagerTypeOK, CallsOrdered, Ordered, AddSDKServer, At
  <1>2. Idle \in Calls
    BY <1>1 DEF ManagerInv, ManagerTypeOK, Idle, Calls, ToolStates, Ops, PCs
  <1>3. Only(t, Idle)
    BY <1>2, Steps DEF ManagerInv, AddSDKServer
  <1>4. /\ sdkServers' \in [Names -> SDKServers \cup {None}]
        /\ Seen
        /\ UNCHANGED <<conn, servers, clients, tools, todo, took, replaced, changes, crashed>>
    BY <1>1 DEF ManagerAssumption, ManagerInv, ManagerTypeOK, AddSDKServer, At, histories
  <1>5. ManagerTypeOK'
    BY <1>1, <1>3, <1>4, SeenTypes DEF ManagerInv, ManagerTypeOK, Only
  <1>6. OnceConnected'
    BY <1>1, <1>3, <1>4 DEF ManagerInv, ManagerTypeOK, OnceConnected, Live, Only, Idle
  <1>7. CallsOrdered'
    <2>1. Ordered(Idle, todo'[t])
      BY <1>1, <1>3, <1>4 DEF ManagerAssumption, Ordered, Closers, Idle
    <2>2. \A u \in Threads \ {t} : todo'[u] = todo[u]
      BY <1>1, <1>3, <1>4
    <2> QED
      BY <1>1, <1>3, <1>4, <2>1, <2>2, OrderKept DEF ManagerInv
  <1>8. TakenOrClosed'
    BY <1>1, <1>3, <1>4 DEF ManagerInv, ManagerTypeOK, OnceConnected, Live, TakenOrClosed,
       Closers, Only, Idle
  <1>9. NoClientLost'
    BY <1>1, <1>3, <1>4 DEF ManagerAssumption, ManagerInv, ManagerTypeOK, NoClientLost, InMap,
       InHand, Ordered, Closers, Only, Idle
  <1>10. CallsSeen'
    BY <1>1, <1>3, <1>4, ChangeSeen DEF ManagerInv, Only, Idle
  <1> QED
    BY <1>5, <1>6, <1>7, <1>8, <1>9, <1>10 DEF ManagerInv

LEMMA LookUpServerInv ==
    ASSUME ManagerAssumption, ManagerInv, NEW t \in Threads, NEW n \in Names, LookUpServer(t, n)
    PROVE  ManagerInv'
  <1> DEFINE c == CHOOSE c \in Fresh : TRUE
             r == [Idle EXCEPT !.op = "connect", !.pc = "begin", !.name = n, !.client = c]
  <1>1. /\ thread[t] \in Calls /\ Ordered(thread[t], todo[t])
        /\ thread[t] = Idle /\ todo[t] = {}
        /\ c \in Clients /\ conn[c] = "new"
    BY DEF ManagerInv, ManagerTypeOK, CallsOrdered, Ordered, LookUpServer, At, Access, Change, Fresh
  <1>2. r \in Calls
    BY <1>1 DEF ManagerInv, ManagerTypeOK, Idle, Calls, ToolStates, Ops, PCs
  <1>3. r.op = "connect" /\ r.pc = "begin" /\ r.name = n /\ r.client = c
    BY <1>1 DEF ManagerInv, ManagerTypeOK, Idle
  <1>4. Only(t, r)
    BY <1>2, Steps DEF ManagerInv, LookUpServer
  <1> HIDE DEF r
  <1>5. changes' \in 0 .. MaxChanges
    BY DEF ManagerInv, ManagerTypeOK, ManagerAssumption, LookUpServer, Change
  <1>6. crashed' \in BOOLEAN
    BY DEF ManagerInv, ManagerTypeOK, ManagerAssumption, LookUpServer, Access
  <1>7. UNCHANGED <<conn, servers, sdkServers, clients, tools, todo, took, seen, replaced>>
    BY <1>1 DEF ManagerAssumption, ManagerInv, ManagerTypeOK, LookUpServer, At, Access, Change,
       Fresh, histories
  <1>8. ManagerTypeOK'
    BY <1>1, <1>3, <1>4, <1>5, <1>6, <1>7 DEF ManagerInv, ManagerTypeOK, Only
  <1>9. OnceConnected'
    BY <1>1, <1>3, <1>4, <1>5, <1>6, <1>7 DEF ManagerInv, ManagerTypeOK, OnceConnected, Live,
       Only, Idle
  <1>10. CallsOrdered'
    <2>1. Ordered(r, todo'[t])
      BY <1>1, <1>3, <1>4, <1>5, <1>6, <1>7 DEF ManagerAssumption, Ordered, Closers, Idle
    <2>2. \A u \in Threads \ {t} : todo'[u] = todo[u]
      BY <1>1, <1>3, <1>4, <1>5, <1>6, <1>7
    <2> QED
      BY <1>1, <1>3, <1>4, <1>5, <1>6, <1>7, <2>1, <2>2, OrderKept DEF ManagerInv
  <1>11. TakenOrClosed'
    BY <1>1, <1>3, <1>4, <1>5, <1>6, <1>7 DEF ManagerInv, ManagerTypeOK, OnceConnected, Live,
       TakenOrClosed, Closers, Only, Idle
  <1>12. NoClientLost'
    BY <1>1, <1>3, <1>4, <1>5, <1>6, <1>7 DEF ManagerAssumption, ManagerInv, ManagerTypeOK,
       NoClientLost, InMap, InHand, Ordered, Closers, Only, Idle
  <1>13. CallsSeen'
    BY <1>1, <1>3, <1>4, <1>5, <1>6, <1>7, OthersSeen DEF ManagerInv, Only, Idle, Closers
  <1> QED
    BY <1>8, <1>9, <1>10, <1>11, <1>12, <1>13 DEF ManagerInv

LEMMA ConnectBeginsInv ==
    ASSUME ManagerAssumption, ManagerInv, NEW t \in Threads, ConnectBegins(t)
    PROVE  ManagerInv'
  <1> DEFINE c == thread[t].client
             r == [thread[t] EXCEPT !.pc = "handshake"]
  <1>1. /\ thread[t] \in Calls /\ Ordered(thread[t], todo[t])
        /\ thread[t].op = "connect" /\ thread[t].pc = "begin"
        /\ c \in Clients /\ thread[t].name \in Names
    BY DEF ManagerInv, ManagerTypeOK, CallsOrdered, Ordered, ConnectBegins, At, onlyClient, C!Begin
  <1>2. r \in Calls
    BY <1>1, FieldTypes DEF PCs
  <1>3. r.op = "connect" /\ r.pc = "handshake" /\ r.client = c /\ r.name = thread[t].name
    BY <1>1 DEF Calls
  <1>4. Only(t, r)
    BY <1>2, Steps DEF ManagerInv, Goto, ConnectBegins
  <1> HIDE DEF r
  <1>5. ConnOnly(c, "new", "connecting")
    BY <1>1, ConnSteps DEF ManagerInv, ConnectBegins, C!Begin, C!States
  <1>6. UNCHANGED <<servers, sdkServers, clients, tools, todo, took, seen, replaced, changes,
        crashed>>
    BY <1>1 DEF ManagerAssumption, ManagerInv, ManagerTypeOK, ConnectBegins, At, onlyClient,
       C!Begin, histories
  <1>7. ManagerTypeOK'
    BY <1>1, <1>3, <1>4, <1>5, <1>6 DEF ManagerInv, ManagerTypeOK, Only, ConnOnly
  <1>8. OnceConnected'
    BY <1>1, <1>3, <1>4, <1>5, <1>6 DEF ManagerInv, ManagerTypeOK, OnceConnected, Live, Only,
       ConnOnly
  <1>9. CallsOrdered'
    <2>1. Ordered(r, todo'[t])
      BY <1>1, <1>3, <1>4, <1>5, <1>6 DEF ManagerAssumption, Ordered, Closers
    <2>2. \A u \in Threads \ {t} : todo'[u] = todo[u]
      BY <1>1, <1>3, <1>4, <1>5, <1>6
    <2> QED
      BY <1>1, <1>3, <1>4, <1>5, <1>6, <2>1, <2>2, OrderKept DEF ManagerInv
  <1>10. TakenOrClosed'
    BY <1>1, <1>3, <1>4, <1>5, <1>6 DEF ManagerInv, ManagerTypeOK, OnceConnected, Live,
       TakenOrClosed, Closers, Only, ConnOnly
  <1>11. NoClientLost'
    BY <1>1, <1>3, <1>4, <1>5, <1>6 DEF ManagerAssumption, ManagerInv, ManagerTypeOK,
       NoClientLost, InMap, InHand, Ordered, Closers, Only, ConnOnly
  <1>12. CallsSeen'
    BY <1>1, <1>3, <1>4, <1>5, <1>6, OthersSeen DEF ManagerInv, Only, ConnOnly, Closers
  <1> QED
    BY <1>7, <1>8, <1>9, <1>10, <1>11, <1>12 DEF ManagerInv

LEMMA ConnectSucceedsInv ==
    ASSUME ManagerAssumption, ManagerInv, NEW t \in Threads, ConnectSucceeds(t)
    PROVE  ManagerInv'
  <1> DEFINE c == thread[t].client
             r == [thread[t] EXCEPT !.pc = "store"]
  <1>1. /\ thread[t] \in Calls /\ Ordered(thread[t], todo[t])
        /\ thread[t].op = "connect" /\ thread[t].pc = "handshake"
        /\ c \in Clients /\ thread[t].name \in Names
    BY DEF ManagerInv, ManagerTypeOK, CallsOrdered, Ordered, ConnectSucceeds, At, onlyClient,
       C!Succeed
  <1>2. r \in Calls
    BY <1>1, FieldTypes DEF PCs
  <1>3. r.op = "connect" /\ r.pc = "store" /\ r.client = c /\ r.name = thread[t].name
    BY <1>1 DEF Calls
  <1>4. Only(t, r)
    BY <1>2, Steps DEF ManagerInv, Goto, ConnectSucceeds
  <1> HIDE DEF r
  <1>5. ConnOnly(c, "connecting", "connected")
    BY <1>1, ConnSteps DEF ManagerInv, ConnectSucceeds, C!Succeed, C!States
  <1>6. UNCHANGED <<servers, sdkServers, clients, tools, todo, took, seen, replaced, changes,
        crashed>>
    BY <1>1 DEF ManagerAssumption, ManagerInv, ManagerTypeOK, ConnectSucceeds, At, onlyClient,
       C!Succeed, histories
  <1>7. ManagerTypeOK'
    BY <1>1, <1>3, <1>4, <1>5, <1>6 DEF ManagerInv, ManagerTypeOK, Only, ConnOnly
  <1>8. OnceConnected'
    BY <1>1, <1>3, <1>4, <1>5, <1>6 DEF ManagerInv, ManagerTypeOK, OnceConnected, Live, Only,
       ConnOnly
  <1>9. CallsOrdered'
    <2>1. Ordered(r, todo'[t])
      BY <1>1, <1>3, <1>4, <1>5, <1>6 DEF ManagerAssumption, Ordered, Closers
    <2>2. \A u \in Threads \ {t} : todo'[u] = todo[u]
      BY <1>1, <1>3, <1>4, <1>5, <1>6
    <2> QED
      BY <1>1, <1>3, <1>4, <1>5, <1>6, <2>1, <2>2, OrderKept DEF ManagerInv
  <1>10. TakenOrClosed'
    BY <1>1, <1>3, <1>4, <1>5, <1>6 DEF ManagerInv, ManagerTypeOK, OnceConnected, Live,
       TakenOrClosed, Closers, Only, ConnOnly
  <1>11. NoClientLost'
    BY <1>1, <1>3, <1>4, <1>5, <1>6 DEF ManagerAssumption, ManagerInv, ManagerTypeOK,
       NoClientLost, InMap, InHand, Ordered, Closers, Only, ConnOnly
  <1>12. CallsSeen'
    BY <1>1, <1>3, <1>4, <1>5, <1>6, OthersSeen DEF ManagerInv, Only, ConnOnly, Closers
  <1> QED
    BY <1>7, <1>8, <1>9, <1>10, <1>11, <1>12 DEF ManagerInv

LEMMA ConnectFailsInv ==
    ASSUME ManagerAssumption, ManagerInv, NEW t \in Threads, ConnectFails(t)
    PROVE  ManagerInv'
  <1> DEFINE c == thread[t].client
  <1>1. /\ thread[t] \in Calls /\ Ordered(thread[t], todo[t])
        /\ thread[t].op = "connect" /\ thread[t].pc \in {"begin", "handshake"}
        /\ c \in Clients
    BY DEF ManagerInv, ManagerTypeOK, CallsOrdered, Ordered, ConnectFails, At, onlyClient, C!Fail
  <1>2. Idle \in Calls
    BY <1>1 DEF ManagerInv, ManagerTypeOK, Idle, Calls, ToolStates, Ops, PCs
  <1>3. Only(t, Idle)
    BY <1>2, Steps DEF ManagerInv, ConnectFails
  <1>4. ConnOnly(c, conn[c], "failed") /\ conn[c] \in {"new", "connecting"}
    BY <1>1, ConnSteps DEF ManagerInv, ConnectFails, C!Fail, C!Moves, C!States
  <1>5. UNCHANGED <<servers, sdkServers, clients, tools, todo, took, seen, replaced, changes,
        crashed>>
    BY <1>1 DEF ManagerAssumption, ManagerInv, ManagerTypeOK, ConnectFails, At, onlyClient,
       C!Fail, histories
  <1>6. ManagerTypeOK'
    BY <1>1, <1>3, <1>4, <1>5 DEF ManagerInv, ManagerTypeOK, Only, ConnOnly
  <1>7. OnceConnected'
    BY <1>1, <1>3, <1>4, <1>5 DEF ManagerInv, ManagerTypeOK, OnceConnected, Live, Only,
       ConnOnly, Idle
  <1>8. CallsOrdered'
    <2>1. Ordered(Idle, todo'[t])
      BY <1>1, <1>3, <1>4, <1>5 DEF ManagerAssumption, Ordered, Closers, Idle
    <2>2. \A u \in Threads \ {t} : todo'[u] = todo[u]
      BY <1>1, <1>3, <1>4, <1>5
    <2> QED
      BY <1>1, <1>3, <1>4, <1>5, <2>1, <2>2, OrderKept DEF ManagerInv
  <1>9. TakenOrClosed'
    BY <1>1, <1>3, <1>4, <1>5 DEF ManagerInv, ManagerTypeOK, OnceConnected, Live, TakenOrClosed,
       Closers, Only, ConnOnly, Idle
  <1>10. NoClientLost'
    <2>1. \A d \in Clients \ {c} : InHand(d) => InHand(d)'
      BY <1>1, <1>3, <1>4, <1>5 DEF InHand, Ordered, Closers, Only, Idle
    <2> QED
      BY <1>1, <1>3, <1>4, <1>5, <2>1 DEF ManagerInv, NoClientLost, InMap, ConnOnly
  <1>11. CallsSeen'
    BY <1>1, <1>3, <1>4, <1>5, OthersSeen DEF ManagerInv, Only, ConnOnly, Idle, Closers
  <1> QED
    BY <1>6, <1>7, <1>8, <1>9, <1>10, <1>11 DEF ManagerInv

LEMMA StoreClientInv ==
    ASSUME ManagerAssumption, ManagerInv, NEW t \in Threads, StoreClient(t)
    PROVE  ManagerInv'
  <1> DEFINE n == thread[t].name
             c == thread[t].client
  <1>1. /\ thread[t] \in Calls /\ Ordered(thread[t], todo[t])
        /\ thread[t].op = "connect" /\ thread[t].pc = "store"
        /\ c \in Clients /\ n \in Names /\ conn[c] \in Live
    BY DEF ManagerInv, ManagerTypeOK, CallsOrdered, Ordered, StoreClient, At, OnceConnected
  <1>2. Idle \in Calls
    BY <1>1 DEF ManagerInv, ManagerTypeOK, Idle, Calls, ToolStates, Ops, PCs
  <1>3. Only(t, Idle)
    BY <1>2, Steps DEF ManagerInv, StoreClient
  <1>4. /\ clients' \in [Names -> Clients \cup {None}] /\ clients'[n] = c
        /\ \A m \in Names \ {n} : clients'[m] = clients[m]
        /\ replaced' \subseteq Clients /\ replaced' = replaced \cup ({clients[n]} \ {None})
        /\ Seen
        /\ UNCHANGED <<conn, servers, sdkServers, tools, todo, took, changes, crashed>>
    BY <1>1 DEF ManagerAssumption, ManagerInv, ManagerTypeOK, StoreClient, At, histories
  <1>5. ManagerTypeOK'
    BY <1>1, <1>3, <1>4, SeenTypes DEF ManagerInv, ManagerTypeOK, Only
  <1>6. OnceConnected'
    BY <1>1, <1>3, <1>4 DEF ManagerInv, ManagerTypeOK, OnceConnected, Live, Only, Idle
  <1>7. CallsOrdered'
    <2>1. Ordered(Idle, todo'[t])
      BY <1>1, <1>3, <1>4 DEF ManagerAssumption, Ordered, Closers, Idle
    <2>2. \A u \in Threads \ {t} : todo'[u] = todo[u]
      BY <1>1, <1>3, <1>4
    <2> QED
      BY <1>1, <1>3, <1>4, <2>1, <2>2, OrderKept DEF ManagerInv
  <1>8. TakenOrClosed'
    BY <1>1, <1>3, <1>4 DEF ManagerInv, ManagerTypeOK, OnceConnected, Live, TakenOrClosed,
       Closers, Only, Idle
  <1>9. NoClientLost'
    BY <1>1, <1>3, <1>4 DEF ManagerAssumption, ManagerInv, ManagerTypeOK, NoClientLost, InMap,
       InHand, Ordered, Closers, Only, Idle
  <1>10. CallsSeen'
    BY <1>1, <1>3, <1>4, ChangeSeen DEF ManagerInv, Only, Idle
  <1> QED
    BY <1>5, <1>6, <1>7, <1>8, <1>9, <1>10 DEF ManagerInv

LEMMA DisconnectServerInv ==
    ASSUME ManagerAssumption, ManagerInv, NEW t \in Threads, NEW n \in Names, DisconnectServer(t, n)
    PROVE  ManagerInv'
  <1> DEFINE r == [Idle EXCEPT !.op = "disconnect", !.pc = "next"]
  <1>1. /\ thread[t] \in Calls /\ Ordered(thread[t], todo[t])
        /\ thread[t] = Idle /\ todo[t] = {}
        /\ clients[n] \in Clients /\ conn[clients[n]] \in Live
    BY DEF ManagerInv, ManagerTypeOK, CallsOrdered, Ordered, DisconnectServer, At, Take, Change,
       OnceConnected
  <1>2. r \in Calls
    BY <1>1 DEF ManagerInv, ManagerTypeOK, Idle, Calls, ToolStates, Ops, PCs
  <1>3. r.op = "disconnect" /\ r.pc = "next"
    BY <1>1 DEF ManagerInv, ManagerTypeOK, Idle
  <1>4. Only(t, r)
    BY <1>2, Steps DEF ManagerInv, DisconnectServer, Take
  <1> HIDE DEF r
  <1>5. changes' \in 0 .. MaxChanges
    BY DEF ManagerInv, ManagerTypeOK, ManagerAssumption, DisconnectServer, Change
  <1>6. /\ todo' \in [Threads -> SUBSET Clients] /\ todo'[t] = {clients[n]}
        /\ took' \in [Threads -> SUBSET Clients] /\ took'[t] = {clients[n]}
        /\ \A u \in Threads \ {t} : todo'[u] = todo[u] /\ took'[u] = took[u]
        /\ clients' \in [Names -> Clients \cup {None}] /\ clients'[n] = None
        /\ \A m \in Names \ {n} : clients'[m] = clients[m]
        /\ Seen
        /\ UNCHANGED <<conn, servers, sdkServers, tools, replaced, crashed>>
    BY <1>1 DEF ManagerAssumption, ManagerInv, ManagerTypeOK, DisconnectServer, At, Take,
       Change, histories
  <1>7. ManagerTypeOK'
    <2>1. \A u \in Threads : thread[u].op = "call" => thread'[u] = thread[u]
      BY <1>1, <1>3, <1>4, <1>5, <1>6 DEF Only, Idle
    <2>2. seen' \in [Threads -> SUBSET Views]
      BY <1>1, <1>3, <1>4, <1>5, <1>6, <2>1, SeenTypes DEF ManagerInv, ManagerTypeOK
    <2> QED
      BY <1>1, <1>3, <1>4, <1>5, <1>6, <2>2 DEF ManagerInv, ManagerTypeOK, Only
  <1>8. OnceConnected'
    BY SMTT(30), <1>1, <1>3, <1>4, <1>5, <1>6 DEF ManagerInv, ManagerTypeOK, OnceConnected,
       Live, Only, Idle
  <1>9. CallsOrdered'
    <2>1. Ordered(r, todo'[t])
      BY <1>1, <1>3, <1>4, <1>5, <1>6 DEF ManagerAssumption, Ordered, Closers, Idle
    <2>2. \A u \in Threads \ {t} : todo'[u] = todo[u]
      BY <1>1, <1>3, <1>4, <1>5, <1>6
    <2> QED
      BY <1>1, <1>3, <1>4, <1>5, <1>6, <2>1, <2>2, OrderKept DEF ManagerInv
  <1>10. TakenOrClosed'
    BY <1>1, <1>3, <1>4, <1>5, <1>6 DEF ManagerInv, ManagerTypeOK, OnceConnected, Live,
       TakenOrClosed, Closers, Only, Idle
  <1>11. NoClientLost'
    BY <1>1, <1>3, <1>4, <1>5, <1>6 DEF ManagerAssumption, ManagerInv, ManagerTypeOK,
       NoClientLost, InMap, InHand, Ordered, Closers, Only, Idle
  <1>12. CallsSeen'
    BY <1>1, <1>3, <1>4, <1>5, <1>6, ChangeSeen DEF ManagerInv, Only, Idle
  <1> QED
    BY <1>7, <1>8, <1>9, <1>10, <1>11, <1>12 DEF ManagerInv

LEMMA DisconnectAllInv ==
    ASSUME ManagerAssumption, ManagerInv, NEW t \in Threads, DisconnectAll(t)
    PROVE  ManagerInv'
  <1> DEFINE taken == {clients[n] : n \in Names} \ {None}
             r == [Idle EXCEPT !.op = "disconnectAll", !.pc = "next"]
  <1>1. /\ thread[t] \in Calls /\ Ordered(thread[t], todo[t])
        /\ thread[t] = Idle /\ todo[t] = {}
        /\ taken \subseteq Clients /\ \A c \in taken : conn[c] \in Live
    BY ZenonT(60) DEF ManagerInv, ManagerTypeOK, CallsOrdered, Ordered, DisconnectAll, At, Take,
       Change, OnceConnected
  <1>2. r \in Calls
    BY <1>1 DEF ManagerInv, ManagerTypeOK, Idle, Calls, ToolStates, Ops, PCs
  <1>3. r.op = "disconnectAll" /\ r.pc = "next"
    BY <1>1 DEF ManagerInv, ManagerTypeOK, Idle
  <1>4. Only(t, r)
    BY <1>2, Steps DEF ManagerInv, DisconnectAll, Take
  <1> HIDE DEF r
  <1>5. changes' \in 0 .. MaxChanges
    BY DEF ManagerInv, ManagerTypeOK, ManagerAssumption, DisconnectAll, Change
  <1>6. /\ todo' \in [Threads -> SUBSET Clients] /\ todo'[t] = taken
        /\ took' \in [Threads -> SUBSET Clients] /\ took'[t] = taken
        /\ \A u \in Threads \ {t} : todo'[u] = todo[u] /\ took'[u] = took[u]
        /\ clients' \in [Names -> Clients \cup {None}] /\ \A m \in Names : clients'[m] = None
        /\ Seen
        /\ UNCHANGED <<conn, servers, sdkServers, tools, replaced, crashed>>
    BY <1>1 DEF ManagerAssumption, ManagerInv, ManagerTypeOK, DisconnectAll, At, Take, Change,
       histories
  <1>7. ManagerTypeOK'
    <2>1. \A u \in Threads : thread[u].op = "call" => thread'[u] = thread[u]
      BY <1>1, <1>3, <1>4, <1>5, <1>6 DEF Only, Idle
    <2>2. seen' \in [Threads -> SUBSET Views]
      BY <1>1, <1>3, <1>4, <1>5, <1>6, <2>1, SeenTypes DEF ManagerInv, ManagerTypeOK
    <2> QED
      BY <1>1, <1>3, <1>4, <1>5, <1>6, <2>2 DEF ManagerInv, ManagerTypeOK, Only
  <1>8. OnceConnected'
    BY SMTT(30), <1>1, <1>3, <1>4, <1>5, <1>6 DEF ManagerInv, ManagerTypeOK, OnceConnected,
       Live, Only, Idle
  <1>9. CallsOrdered'
    <2>1. Ordered(r, todo'[t])
      BY <1>1, <1>3, <1>4, <1>5, <1>6 DEF ManagerAssumption, Ordered, Closers, Idle
    <2>2. \A u \in Threads \ {t} : todo'[u] = todo[u]
      BY <1>1, <1>3, <1>4, <1>5, <1>6
    <2> QED
      BY <1>1, <1>3, <1>4, <1>5, <1>6, <2>1, <2>2, OrderKept DEF ManagerInv
  <1>10. TakenOrClosed'
    BY <1>1, <1>3, <1>4, <1>5, <1>6 DEF ManagerInv, ManagerTypeOK, OnceConnected, Live,
       TakenOrClosed, Closers, Only, Idle
  <1>11. NoClientLost'
    BY SMTT(30), <1>1, <1>3, <1>4, <1>5, <1>6 DEF ManagerAssumption, ManagerInv, ManagerTypeOK,
       NoClientLost, InMap, InHand, Ordered, Closers, Only, Idle
  <1>12. CallsSeen'
    BY <1>1, <1>3, <1>4, <1>5, <1>6, ChangeSeen DEF ManagerInv, Only, Idle
  <1> QED
    BY <1>7, <1>8, <1>9, <1>10, <1>11, <1>12 DEF ManagerInv

LEMMA GetClientAndCloseInv ==
    ASSUME ManagerAssumption, ManagerInv, NEW t \in Threads, NEW n \in Names, GetClientAndClose(t, n)
    PROVE  ManagerInv'
  <1> DEFINE r == [Idle EXCEPT !.op = "user", !.pc = "next"]
  <1>1. /\ thread[t] \in Calls /\ Ordered(thread[t], todo[t])
        /\ thread[t] = Idle /\ todo[t] = {}
        /\ clients[n] \in Clients /\ conn[clients[n]] \in Live
    BY DEF ManagerInv, ManagerTypeOK, CallsOrdered, Ordered, GetClientAndClose, At, Take,
       Change, OnceConnected
  <1>2. r \in Calls
    BY <1>1 DEF ManagerInv, ManagerTypeOK, Idle, Calls, ToolStates, Ops, PCs
  <1>3. r.op = "user" /\ r.pc = "next"
    BY <1>1 DEF ManagerInv, ManagerTypeOK, Idle
  <1>4. Only(t, r)
    BY <1>2, Steps DEF ManagerInv, GetClientAndClose, Take
  <1> HIDE DEF r
  <1>5. changes' \in 0 .. MaxChanges
    BY DEF ManagerInv, ManagerTypeOK, ManagerAssumption, GetClientAndClose, Change
  <1>6. /\ todo' \in [Threads -> SUBSET Clients] /\ todo'[t] = {clients[n]}
        /\ took' \in [Threads -> SUBSET Clients] /\ took'[t] = {clients[n]}
        /\ \A u \in Threads \ {t} : todo'[u] = todo[u] /\ took'[u] = took[u]
        /\ UNCHANGED <<conn, servers, sdkServers, clients, tools, seen, replaced, crashed>>
    BY <1>1 DEF ManagerAssumption, ManagerInv, ManagerTypeOK, GetClientAndClose, At, Take,
       Change, histories
  <1>7. ManagerTypeOK'
    BY <1>1, <1>3, <1>4, <1>5, <1>6 DEF ManagerInv, ManagerTypeOK, Only
  <1>8. OnceConnected'
    BY <1>1, <1>3, <1>4, <1>5, <1>6 DEF ManagerInv, ManagerTypeOK, OnceConnected, Live, Only, Idle
  <1>9. CallsOrdered'
    <2>1. Ordered(r, todo'[t])
      BY <1>1, <1>3, <1>4, <1>5, <1>6 DEF ManagerAssumption, Ordered, Closers, Idle
    <2>2. \A u \in Threads \ {t} : todo'[u] = todo[u]
      BY <1>1, <1>3, <1>4, <1>5, <1>6
    <2> QED
      BY <1>1, <1>3, <1>4, <1>5, <1>6, <2>1, <2>2, OrderKept DEF ManagerInv
  <1>10. TakenOrClosed'
    BY <1>1, <1>3, <1>4, <1>5, <1>6 DEF ManagerInv, ManagerTypeOK, OnceConnected, Live,
       TakenOrClosed, Closers, Only, Idle
  <1>11. NoClientLost'
    BY <1>1, <1>3, <1>4, <1>5, <1>6 DEF ManagerAssumption, ManagerInv, ManagerTypeOK,
       NoClientLost, InMap, InHand, Ordered, Closers, Only, Idle
  <1>12. CallsSeen'
    BY <1>1, <1>3, <1>4, <1>5, <1>6, OthersSeen DEF ManagerInv, Only, Idle, Closers
  <1> QED
    BY <1>7, <1>8, <1>9, <1>10, <1>11, <1>12 DEF ManagerInv

LEMMA CloseBeginsInv ==
    ASSUME ManagerAssumption, ManagerInv, NEW t \in Threads, NEW c \in Clients, CloseBegins(t, c)
    PROVE  ManagerInv'
  <1> DEFINE r == [thread[t] EXCEPT !.pc = "closing", !.client = c]
  <1>1. /\ thread[t] \in Calls /\ Ordered(thread[t], todo[t])
        /\ thread[t].op \in Closers /\ c \in todo[t]
    BY DEF ManagerInv, ManagerTypeOK, CallsOrdered, Ordered, CloseBegins, C!CloseBegins
  <1>2. r \in Calls
    BY <1>1, FieldTypes DEF PCs
  <1>3. r.op = thread[t].op /\ r.pc = "closing" /\ r.client = c
    BY <1>1 DEF Calls
  <1>4. Only(t, r)
    BY <1>2, Steps DEF ManagerInv, CloseBegins
  <1> HIDE DEF r
  <1>5. ConnOnly(c, "connected", "closing")
    BY <1>1, ConnSteps DEF ManagerInv, CloseBegins, C!CloseBegins, C!States
  <1>6. UNCHANGED <<servers, sdkServers, clients, tools, todo, took, seen, replaced, changes,
        crashed>>
    BY <1>1 DEF ManagerAssumption, ManagerInv, ManagerTypeOK, CloseBegins, C!CloseBegins, histories
  <1>7. ManagerTypeOK'
    BY <1>1, <1>3, <1>4, <1>5, <1>6 DEF ManagerInv, ManagerTypeOK, Only, ConnOnly
  <1>8. OnceConnected'
    BY <1>1, <1>3, <1>4, <1>5, <1>6 DEF ManagerInv, ManagerTypeOK, OnceConnected, Live, Only,
       ConnOnly
  <1>9. CallsOrdered'
    <2>1. Ordered(r, todo'[t])
      BY <1>1, <1>3, <1>4, <1>5, <1>6 DEF ManagerAssumption, Ordered, Closers
    <2>2. \A u \in Threads \ {t} : todo'[u] = todo[u]
      BY <1>1, <1>3, <1>4, <1>5, <1>6
    <2> QED
      BY <1>1, <1>3, <1>4, <1>5, <1>6, <2>1, <2>2, OrderKept DEF ManagerInv
  <1>10. TakenOrClosed'
    BY <1>1, <1>3, <1>4, <1>5, <1>6 DEF ManagerInv, ManagerTypeOK, OnceConnected, Live,
       TakenOrClosed, Closers, Only, ConnOnly
  <1>11. NoClientLost'
    <2>1. \A d \in Clients : InHand(d) => InHand(d)'
      BY <1>1, <1>3, <1>4, <1>5, <1>6 DEF InHand, Ordered, Closers, Only
    <2> QED
      BY <1>1, <1>3, <1>4, <1>5, <1>6, <2>1 DEF ManagerInv, NoClientLost, InMap, ConnOnly
  <1>12. CallsSeen'
    BY <1>1, <1>3, <1>4, <1>5, <1>6, OthersSeen DEF ManagerInv, Only, ConnOnly, Closers
  <1> QED
    BY <1>7, <1>8, <1>9, <1>10, <1>11, <1>12 DEF ManagerInv

LEMMA CloseSkippedInv ==
    ASSUME ManagerAssumption, ManagerInv, NEW t \in Threads, NEW c \in Clients, CloseSkipped(t, c)
    PROVE  ManagerInv'
  <1>1. /\ thread[t].op \in Closers /\ thread[t].pc = "next"
        /\ conn[c] \in {"failed", "closed"}
    BY DEF ManagerInv, ManagerTypeOK, CallsOrdered, Ordered, CloseSkipped
  <1>2. /\ todo' \in [Threads -> SUBSET Clients] /\ todo'[t] = todo[t] \ {c}
        /\ \A u \in Threads \ {t} : todo'[u] = todo[u]
        /\ UNCHANGED <<conn, servers, sdkServers, clients, tools, thread, took, seen, replaced,
           changes, crashed>>
    BY <1>1 DEF ManagerAssumption, ManagerInv, ManagerTypeOK, CloseSkipped, histories
  <1>3. ManagerTypeOK'
    BY <1>1, <1>2 DEF ManagerInv, ManagerTypeOK
  <1>4. OnceConnected'
    BY <1>1, <1>2 DEF ManagerInv, ManagerTypeOK, OnceConnected, Live
  <1>5. CallsOrdered'
    BY <1>1, <1>2 DEF ManagerAssumption, ManagerInv, ManagerTypeOK, CallsOrdered, Ordered, Closers
  <1>6. TakenOrClosed'
    BY <1>1, <1>2 DEF ManagerInv, ManagerTypeOK, OnceConnected, Live, TakenOrClosed, Closers
  <1>7. NoClientLost'
    BY <1>1, <1>2 DEF ManagerAssumption, ManagerInv, ManagerTypeOK, NoClientLost, InMap, InHand,
       Ordered, Closers
  <1>8. CallsSeen'
    BY <1>1, <1>2 DEF ManagerInv, CallsSeen, View
  <1> QED
    BY <1>3, <1>4, <1>5, <1>6, <1>7, <1>8 DEF ManagerInv

LEMMA CloseEndsInv ==
    ASSUME ManagerAssumption, ManagerInv, NEW t \in Threads, CloseEnds(t)
    PROVE  ManagerInv'
  <1> DEFINE c == thread[t].client
             r == [thread[t] EXCEPT !.pc = "next", !.client = None]
  <1>1. /\ thread[t] \in Calls /\ Ordered(thread[t], todo[t])
        /\ thread[t].op \in Closers /\ thread[t].pc = "closing" /\ c \in Clients
    BY DEF ManagerInv, ManagerTypeOK, CallsOrdered, Ordered, CloseEnds, C!CloseEnds
  <1>2. r \in Calls
    BY <1>1, FieldTypes DEF PCs
  <1>3. r.op = thread[t].op /\ r.pc = "next"
    BY <1>1 DEF Calls
  <1>4. Only(t, r)
    BY <1>2, Steps DEF ManagerInv, CloseEnds
  <1> HIDE DEF r
  <1>5. ConnOnly(c, "closing", "closed")
    BY <1>1, ConnSteps DEF ManagerInv, CloseEnds, C!CloseEnds, C!States
  <1>6. /\ todo' \in [Threads -> SUBSET Clients] /\ todo'[t] = todo[t] \ {c}
        /\ \A u \in Threads \ {t} : todo'[u] = todo[u]
        /\ UNCHANGED <<servers, sdkServers, clients, tools, took, seen, replaced, changes, crashed>>
    BY <1>1 DEF ManagerAssumption, ManagerInv, ManagerTypeOK, CloseEnds, C!CloseEnds, histories
  <1>7. ManagerTypeOK'
    BY <1>1, <1>3, <1>4, <1>5, <1>6 DEF ManagerInv, ManagerTypeOK, Only, ConnOnly
  <1>8. OnceConnected'
    BY <1>1, <1>3, <1>4, <1>5, <1>6 DEF ManagerInv, ManagerTypeOK, OnceConnected, Live, Only,
       ConnOnly
  <1>9. CallsOrdered'
    <2>1. Ordered(r, todo'[t])
      BY <1>1, <1>3, <1>4, <1>5, <1>6 DEF ManagerAssumption, Ordered, Closers
    <2>2. \A u \in Threads \ {t} : todo'[u] = todo[u]
      BY <1>1, <1>3, <1>4, <1>5, <1>6
    <2> QED
      BY <1>1, <1>3, <1>4, <1>5, <1>6, <2>1, <2>2, OrderKept DEF ManagerInv
  <1>10. TakenOrClosed'
    BY <1>1, <1>3, <1>4, <1>5, <1>6 DEF ManagerInv, ManagerTypeOK, OnceConnected, Live,
       TakenOrClosed, Closers, Only, ConnOnly
  <1>11. NoClientLost'
    BY <1>1, <1>3, <1>4, <1>5, <1>6 DEF ManagerAssumption, ManagerInv, ManagerTypeOK,
       NoClientLost, InMap, InHand, Ordered, Closers, Only, ConnOnly
  <1>12. CallsSeen'
    BY <1>1, <1>3, <1>4, <1>5, <1>6, OthersSeen DEF ManagerInv, Only, ConnOnly, Closers
  <1> QED
    BY <1>7, <1>8, <1>9, <1>10, <1>11, <1>12 DEF ManagerInv

LEMMA ClosingReturnsInv ==
    ASSUME ManagerAssumption, ManagerInv, NEW t \in Threads, ClosingReturns(t)
    PROVE  ManagerInv'
  <1> DEFINE r == [thread[t] EXCEPT !.pc = "returned"]
  <1>1. /\ thread[t] \in Calls /\ Ordered(thread[t], todo[t])
        /\ thread[t].op \in Closers /\ thread[t].pc = "next" /\ todo[t] = {}
    BY DEF ManagerInv, ManagerTypeOK, CallsOrdered, Ordered, ClosingReturns
  <1>2. r \in Calls
    BY <1>1, FieldTypes DEF PCs
  <1>3. r.op = thread[t].op /\ r.pc = "returned"
    BY <1>1 DEF Calls
  <1>4. Only(t, r)
    BY <1>2, Steps DEF ManagerInv, Goto, ClosingReturns
  <1> HIDE DEF r
  <1>5. UNCHANGED <<conn, servers, sdkServers, clients, tools, todo, took, seen, replaced,
        changes, crashed>>
    BY <1>1 DEF ManagerAssumption, ManagerInv, ManagerTypeOK, ClosingReturns, histories
  <1>6. ManagerTypeOK'
    BY <1>1, <1>3, <1>4, <1>5 DEF ManagerInv, ManagerTypeOK, Only
  <1>7. OnceConnected'
    BY <1>1, <1>3, <1>4, <1>5 DEF ManagerInv, ManagerTypeOK, OnceConnected, Live, Only
  <1>8. CallsOrdered'
    <2>1. Ordered(r, todo'[t])
      BY <1>1, <1>3, <1>4, <1>5 DEF ManagerAssumption, Ordered, Closers
    <2>2. \A u \in Threads \ {t} : todo'[u] = todo[u]
      BY <1>1, <1>3, <1>4, <1>5
    <2> QED
      BY <1>1, <1>3, <1>4, <1>5, <2>1, <2>2, OrderKept DEF ManagerInv
  <1>9. TakenOrClosed'
    BY <1>1, <1>3, <1>4, <1>5 DEF ManagerInv, ManagerTypeOK, OnceConnected, Live, TakenOrClosed,
       Closers, Only
  <1>10. NoClientLost'
    BY <1>1, <1>3, <1>4, <1>5 DEF ManagerAssumption, ManagerInv, ManagerTypeOK, NoClientLost,
       InMap, InHand, Ordered, Closers, Only
  <1>11. CallsSeen'
    BY <1>1, <1>3, <1>4, <1>5, OthersSeen DEF ManagerInv, Only, Closers
  <1> QED
    BY <1>6, <1>7, <1>8, <1>9, <1>10, <1>11 DEF ManagerInv

LEMMA CallToolInv ==
    ASSUME ManagerAssumption, ManagerInv, NEW t \in Threads, NEW n \in Names, CallTool(t, n)
    PROVE  ManagerInv'
  <1> DEFINE r == [Idle EXCEPT !.op = "call", !.pc = "look up", !.name = n]
  <1>1. /\ thread[t] \in Calls /\ Ordered(thread[t], todo[t])
        /\ thread[t] = Idle /\ todo[t] = {}
        /\ View(n) \in Views
    BY DEF ManagerInv, ManagerTypeOK, CallsOrdered, Ordered, CallTool, At, View, Views
  <1>2. r \in Calls
    BY <1>1 DEF ManagerInv, ManagerTypeOK, Idle, Calls, ToolStates, Ops, PCs
  <1>3. r.op = "call" /\ r.pc = "look up" /\ r.name = n /\ r.sdk = None
    BY <1>1 DEF ManagerInv, ManagerTypeOK, Idle
  <1>4. Only(t, r)
    BY <1>2, Steps DEF ManagerInv, CallTool
  <1> HIDE DEF r
  <1>5. /\ seen' \in [Threads -> SUBSET Views] /\ seen'[t] = {View(n)}
        /\ \A u \in Threads \ {t} : seen'[u] = seen[u]
        /\ UNCHANGED <<conn, servers, sdkServers, clients, tools, todo, took, replaced, changes,
           crashed>>
    BY <1>1 DEF ManagerAssumption, ManagerInv, ManagerTypeOK, CallTool, At, histories
  <1>6. ManagerTypeOK'
    BY <1>1, <1>3, <1>4, <1>5 DEF ManagerInv, ManagerTypeOK, Only
  <1>7. OnceConnected'
    BY ZenonT(60), <1>1, <1>3, <1>4, <1>5 DEF ManagerInv, ManagerTypeOK, OnceConnected, Live,
       Only, Idle
  <1>8. CallsOrdered'
    <2>1. Ordered(r, todo'[t])
      BY <1>1, <1>3, <1>4, <1>5 DEF ManagerAssumption, Ordered, Closers, Idle
    <2>2. \A u \in Threads \ {t} : todo'[u] = todo[u]
      BY <1>1, <1>3, <1>4, <1>5
    <2> QED
      BY <1>1, <1>3, <1>4, <1>5, <2>1, <2>2, OrderKept DEF ManagerInv
  <1>9. TakenOrClosed'
    BY <1>1, <1>3, <1>4, <1>5 DEF ManagerInv, ManagerTypeOK, OnceConnected, Live, TakenOrClosed,
       Closers, Only, Idle
  <1>10. NoClientLost'
    <2>1. thread[t].op # "connect" /\ todo[t] = {}
      BY <1>1 DEF Idle
    <2>2. \A u \in Threads \ {t} : thread'[u] = thread[u]
      BY <1>4 DEF Only
    <2>3. \A d \in Clients : InHand(d) => InHand(d)'
      BY <1>5, <2>1, <2>2 DEF InHand
    <2> QED
      BY <1>5, <2>3 DEF ManagerInv, NoClientLost, InMap
  <1>11. CallsSeen'
    <2>1. \A m : View(m)' = View(m)
      BY <1>5 DEF View
    <2>2. Found(r, seen'[t]) /\ View(r.name)' \in seen'[t]
      BY <1>1, <1>3, <1>4, <1>5, <2>1 DEF Found
    <2>3. \A u \in Threads \ {t} : thread'[u] = thread[u] /\ seen'[u] = seen[u]
      BY <1>1, <1>3, <1>4, <1>5 DEF Only
    <2> QED
      BY <1>1, <1>3, <1>4, <1>5, <2>1, <2>2, <2>3 DEF ManagerInv, CallsSeen, Only
  <1> QED
    BY <1>6, <1>7, <1>8, <1>9, <1>10, <1>11 DEF ManagerInv

\* A step of a call that looks up or runs a tool changes nothing but the call.
LEMMA LookingInv ==
    ASSUME ManagerInv, NEW t \in Threads, thread[t].op \in {"call", "message"},
           thread' \in [Threads -> Calls],
           \A u \in Threads \ {t} : thread'[u] = thread[u],
           thread'[t].op = thread[t].op, thread'[t].name = thread[t].name,
           thread'[t].pc \in {"tool", "handler", "returned"},
           thread'[t].pc \in {"tool", "handler"} => thread'[t].sdk \in SDKServers,
           thread[t].op = "call" => Found(thread'[t], seen[t]),
           crashed' \in BOOLEAN,
           UNCHANGED <<conn, servers, sdkServers, clients, tools, todo, took, seen, replaced,
           changes>>
    PROVE  ManagerInv'
  <1>0. CallsOrdered /\ Ordered(thread[t], todo[t])
    BY DEF ManagerInv, CallsOrdered
  <1>1. ManagerTypeOK'
    BY DEF ManagerInv, ManagerTypeOK
  <1>2. OnceConnected'
    BY DEF ManagerInv, OnceConnected
  <1>3. CallsOrdered'
    <2>1. Ordered(thread'[t], todo'[t])
      BY <1>0 DEF Ordered, Closers
    <2> QED
      BY <2>1, OrderKept DEF ManagerInv, Only
  <1>4. TakenOrClosed'
    BY <1>0 DEF ManagerInv, TakenOrClosed, Closers
  <1>5. NoClientLost'
    BY <1>0 DEF ManagerInv, NoClientLost, InMap, InHand
  <1>6. CallsSeen'
    <2>1. CASE thread[t].op = "call"
      BY <2>1, OwnSeen DEF ManagerInv
    <2>2. CASE thread[t].op = "message"
      BY <2>2, OthersSeen DEF ManagerInv
    <2> QED
      BY <2>1, <2>2
  <1> QED
    BY <1>1, <1>2, <1>3, <1>4, <1>5, <1>6 DEF ManagerInv

LEMMA LookUpInv ==
    ASSUME ManagerAssumption, ManagerInv, NEW t \in Threads, LookUp(t)
    PROVE  ManagerInv'
  <1> DEFINE n == thread[t].name
             sdk == [thread[t] EXCEPT !.pc = "tool", !.sdk = sdkServers[n]]
             client == [thread[t] EXCEPT !.pc = "returned", !.client = clients[n]]
  <1>1. /\ thread[t] \in Calls /\ thread[t].op = "call" /\ thread[t].pc = "look up"
        /\ n \in Names /\ sdkServers[n] \in SDKServers \cup {None} /\ clients[n] \in Clients \cup {None}
    BY DEF ManagerInv, ManagerTypeOK, CallsOrdered, Ordered, LookUp, At
  <1>2. /\ crashed' \in BOOLEAN
        /\ UNCHANGED <<conn, servers, sdkServers, clients, tools, todo, took, seen, replaced,
           changes>>
    BY DEF ManagerInv, ManagerTypeOK, LookUp, Access, histories
  <1>3. View(n) \in seen[t] /\ thread[t].sdk = None
    BY <1>1 DEF ManagerInv, CallsSeen, Found
  <1>4. CASE sdkServers[n] # None
    <2>1. thread' = [thread EXCEPT ![t] = sdk]
      BY <1>4 DEF LookUp, Become
    <2>2. sdk \in Calls
      BY <1>1, FieldTypes DEF PCs
    <2>3. /\ sdk.op = "call" /\ sdk.pc = "tool" /\ sdk.name = n
          /\ sdk.sdk = sdkServers[n]
      BY <1>1 DEF Calls
    <2>4. Found(sdk, seen[t])
      BY <1>3, <1>4, <2>3 DEF Found, View
    <2> HIDE DEF sdk
    <2>5. thread' \in [Threads -> Calls] /\ thread'[t] = sdk /\ \A u \in Threads \ {t} :
          thread'[u] = thread[u]
      BY <2>1, <2>2 DEF ManagerInv, ManagerTypeOK
    <2> QED
      BY <1>1, <1>2, <1>4, <2>3, <2>4, <2>5, LookingInv
  <1>5. CASE sdkServers[n] = None
    <2>1. thread' = [thread EXCEPT ![t] = client]
      BY <1>5 DEF LookUp, Become
    <2>2. client \in Calls
      BY <1>1, FieldTypes DEF PCs
    <2>3. /\ client.op = "call" /\ client.pc = "returned" /\ client.name = n
          /\ client.client = clients[n] /\ client.sdk = None
      BY <1>1, <1>3 DEF Calls
    <2>4. Found(client, seen[t])
      BY <1>3, <1>5, <2>3 DEF Found, View
    <2> HIDE DEF client
    <2>5. thread' \in [Threads -> Calls] /\ thread'[t] = client /\ \A u \in Threads \ {t} :
          thread'[u] = thread[u]
      BY <2>1, <2>2 DEF ManagerInv, ManagerTypeOK
    <2> QED
      BY <1>1, <1>2, <2>3, <2>4, <2>5, LookingInv
  <1> QED
    BY <1>4, <1>5

LEMMA HandleMCPMessageInv ==
    ASSUME ManagerAssumption, ManagerInv, NEW t \in Threads, NEW n \in Names, HandleMCPMessage(t, n)
    PROVE  ManagerInv'
  <1> DEFINE r == IF sdkServers[n] = None THEN Idle
                  ELSE [Idle EXCEPT !.op = "message", !.pc = "tool", !.name = n,
                  !.sdk = sdkServers[n]]
  <1>1. /\ thread[t] \in Calls /\ Ordered(thread[t], todo[t])
        /\ thread[t] = Idle /\ todo[t] = {}
    BY DEF ManagerInv, ManagerTypeOK, CallsOrdered, Ordered, HandleMCPMessage, At, Access
  <1>2. r \in Calls
    BY <1>1 DEF ManagerInv, ManagerTypeOK, Idle, Calls, ToolStates, Ops, PCs
  <1>3. r = Idle \/ (r.op = "message" /\ r.pc = "tool" /\ r.sdk \in SDKServers)
    BY <1>1 DEF ManagerInv, ManagerTypeOK, Idle
  <1>4. Only(t, r)
    BY <1>1, <1>2, Steps DEF ManagerInv, HandleMCPMessage
  <1> HIDE DEF r
  <1>5. crashed' \in BOOLEAN
    BY DEF ManagerInv, ManagerTypeOK, ManagerAssumption, HandleMCPMessage, Access
  <1>6. UNCHANGED <<conn, servers, sdkServers, clients, tools, todo, took, seen, replaced, changes>>
    BY <1>1 DEF ManagerAssumption, ManagerInv, ManagerTypeOK, HandleMCPMessage, At, Access,
       histories
  <1>7. ManagerTypeOK'
    BY <1>1, <1>3, <1>4, <1>5, <1>6 DEF ManagerInv, ManagerTypeOK, Only
  <1>8. OnceConnected'
    BY <1>1, <1>3, <1>4, <1>5, <1>6 DEF ManagerInv, ManagerTypeOK, OnceConnected, Live, Only, Idle
  <1>9. CallsOrdered'
    <2>1. Ordered(r, todo'[t])
      BY <1>1, <1>3, <1>4, <1>5, <1>6 DEF ManagerAssumption, Ordered, Closers, Idle
    <2>2. \A u \in Threads \ {t} : todo'[u] = todo[u]
      BY <1>1, <1>3, <1>4, <1>5, <1>6
    <2> QED
      BY <1>1, <1>3, <1>4, <1>5, <1>6, <2>1, <2>2, OrderKept DEF ManagerInv
  <1>10. TakenOrClosed'
    BY <1>1, <1>3, <1>4, <1>5, <1>6 DEF ManagerInv, ManagerTypeOK, OnceConnected, Live,
       TakenOrClosed, Closers, Only, Idle
  <1>11. NoClientLost'
    BY <1>1, <1>3, <1>4, <1>5, <1>6 DEF ManagerAssumption, ManagerInv, ManagerTypeOK,
       NoClientLost, InMap, InHand, Ordered, Closers, Only, Idle
  <1>12. CallsSeen'
    BY <1>1, <1>3, <1>4, <1>5, <1>6, OthersSeen DEF ManagerInv, Only, Idle, Closers
  <1> QED
    BY <1>7, <1>8, <1>9, <1>10, <1>11, <1>12 DEF ManagerInv

LEMMA HandleCallInv ==
    ASSUME ManagerAssumption, ManagerInv, NEW t \in Threads, HandleCall(t)
    PROVE  ManagerInv'
  <1> DEFINE sdk == thread[t].sdk
  <1>1. PICK p \in {"handler", "returned"} :
            thread' = [thread EXCEPT ![t] = [thread[t] EXCEPT !.pc = p, !.tool = tools[sdk]]]
    BY DEF HandleCall, Become
  <1> DEFINE r == [thread[t] EXCEPT !.pc = p, !.tool = tools[sdk]]
  <1>2. /\ thread[t] \in Calls /\ thread[t].op \in {"call", "message"} /\ thread[t].pc = "tool"
        /\ sdk \in SDKServers /\ tools[sdk] \in ToolStates
    BY DEF ManagerInv, ManagerTypeOK, CallsOrdered, Ordered, HandleCall
  <1>3. /\ crashed' \in BOOLEAN
        /\ UNCHANGED <<conn, servers, sdkServers, clients, tools, todo, took, seen, replaced,
           changes>>
    BY DEF HandleCall, histories
  <1>4. r \in Calls
    BY <1>2, FieldTypes DEF PCs
  <1>5. /\ r.op = thread[t].op /\ r.name = thread[t].name /\ r.pc = p
        /\ r.sdk = sdk /\ r.tool = tools[sdk]
    BY <1>2 DEF Calls
  <1>6. thread[t].op = "call" => Found(r, seen[t])
    <2> HAVE thread[t].op = "call"
    <2>1. View(thread[t].name) \in seen[t] /\ \E v \in seen[t] : v.sdk = sdk
      BY <1>2 DEF ManagerInv, CallsSeen, Found, ManagerAssumption
    <2>2. View(thread[t].name).tools[sdk] = tools[sdk]
      BY DEF View
    <2> QED
      BY <1>2, <1>5, <2>1, <2>2 DEF Found, ManagerAssumption
  <1> HIDE DEF r
  <1>7. thread' \in [Threads -> Calls] /\ thread'[t] = r /\ \A u \in Threads \ {t} :
        thread'[u] = thread[u]
    BY <1>1, <1>4 DEF ManagerInv, ManagerTypeOK, r
  <1> QED
    BY <1>2, <1>3, <1>5, <1>6, <1>7, LookingInv

LEMMA HandlerReturnsInv ==
    ASSUME ManagerAssumption, ManagerInv, NEW t \in Threads, HandlerReturns(t)
    PROVE  ManagerInv'
  <1> DEFINE r == [thread[t] EXCEPT !.pc = "returned"]
  <1>1. /\ thread[t] \in Calls /\ thread[t].op \in {"call", "message"} /\ thread[t].pc = "handler"
        /\ thread[t].sdk \in SDKServers
    BY DEF ManagerInv, ManagerTypeOK, CallsOrdered, Ordered, HandlerReturns
  <1>2. /\ crashed' \in BOOLEAN /\ thread' = [thread EXCEPT ![t] = r]
        /\ UNCHANGED <<conn, servers, sdkServers, clients, tools, todo, took, seen, replaced,
           changes>>
    BY DEF ManagerInv, ManagerTypeOK, HandlerReturns, Goto, Become, histories
  <1>3. r \in Calls
    BY <1>1, FieldTypes DEF PCs
  <1>4. /\ r.op = thread[t].op /\ r.name = thread[t].name /\ r.pc = "returned"
        /\ r.sdk = thread[t].sdk /\ r.tool = thread[t].tool
    BY <1>1 DEF Calls
  <1>5. thread[t].op = "call" => Found(r, seen[t])
    BY ZenonT(60), <1>1, <1>4 DEF ManagerInv, CallsSeen, Found, ManagerAssumption
  <1> HIDE DEF r
  <1>6. thread' \in [Threads -> Calls] /\ thread'[t] = r /\ \A u \in Threads \ {t} :
        thread'[u] = thread[u]
    BY <1>2, <1>3 DEF ManagerInv, ManagerTypeOK
  <1> QED
    BY <1>1, <1>2, <1>4, <1>5, <1>6, LookingInv

LEMMA ChangeToolInv ==
    ASSUME ManagerAssumption, ManagerInv, NEW s \in SDKServers, NEW h \in Handlers \cup {NilHandler,
           None}, ChangeTool(s, h)
    PROVE  ManagerInv'
  <1>1. changes' \in 0 .. MaxChanges
    BY DEF ManagerInv, ManagerTypeOK, ManagerAssumption, ChangeTool, Change
  <1>2. /\ tools' \in [SDKServers -> ToolStates]
        /\ Seen
        /\ UNCHANGED <<conn, servers, sdkServers, clients, thread, todo, took, replaced, crashed>>
    BY DEF ManagerAssumption, ManagerInv, ManagerTypeOK, ChangeTool, Change, ToolStates, histories
  <1>3. ManagerTypeOK'
    BY <1>1, <1>2, SeenTypes DEF ManagerInv, ManagerTypeOK
  <1>4. OnceConnected'
    BY <1>1, <1>2 DEF ManagerInv, ManagerTypeOK, OnceConnected, Live
  <1>5. CallsOrdered'
    BY <1>1, <1>2 DEF ManagerAssumption, ManagerInv, ManagerTypeOK, CallsOrdered, Ordered, Closers
  <1>6. TakenOrClosed'
    BY <1>1, <1>2 DEF ManagerInv, ManagerTypeOK, OnceConnected, Live, TakenOrClosed, Closers
  <1>7. NoClientLost'
    BY <1>1, <1>2 DEF ManagerAssumption, ManagerInv, ManagerTypeOK, NoClientLost, InMap, InHand,
       Ordered, Closers
  <1>8. CallsSeen'
    BY <1>1, <1>2, ChangeSeen DEF ManagerInv
  <1> QED
    BY <1>3, <1>4, <1>5, <1>6, <1>7, <1>8 DEF ManagerInv

LEMMA ReturnInv ==
    ASSUME ManagerAssumption, ManagerInv, NEW t \in Threads, Return(t)
    PROVE  ManagerInv'
  <1>1. /\ thread[t] \in Calls /\ Ordered(thread[t], todo[t])
        /\ thread[t].pc = "returned"
    BY DEF ManagerInv, ManagerTypeOK, CallsOrdered, Ordered, Return
  <1>2. Idle \in Calls
    BY <1>1 DEF ManagerInv, ManagerTypeOK, Idle, Calls, ToolStates, Ops, PCs
  <1>3. Only(t, Idle)
    BY <1>2, Steps DEF ManagerInv, Return
  <1>4. /\ took' \in [Threads -> SUBSET Clients] /\ took'[t] = {}
        /\ seen' \in [Threads -> SUBSET Views]
        /\ \A u \in Threads \ {t} : took'[u] = took[u] /\ seen'[u] = seen[u]
        /\ UNCHANGED <<conn, servers, sdkServers, clients, tools, todo, replaced, changes, crashed>>
    BY <1>1 DEF ManagerAssumption, ManagerInv, ManagerTypeOK, Return, histories
  <1>5. ManagerTypeOK'
    BY <1>1, <1>3, <1>4 DEF ManagerInv, ManagerTypeOK, Only
  <1>6. OnceConnected'
    BY <1>1, <1>3, <1>4 DEF ManagerInv, ManagerTypeOK, OnceConnected, Live, Only, Idle
  <1>7. CallsOrdered'
    <2>1. Ordered(Idle, todo'[t])
      BY <1>1, <1>3, <1>4 DEF ManagerAssumption, Ordered, Closers, Idle
    <2>2. \A u \in Threads \ {t} : todo'[u] = todo[u]
      BY <1>1, <1>3, <1>4
    <2> QED
      BY <1>1, <1>3, <1>4, <2>1, <2>2, OrderKept DEF ManagerInv
  <1>8. TakenOrClosed'
    BY <1>1, <1>3, <1>4 DEF ManagerInv, ManagerTypeOK, OnceConnected, Live, TakenOrClosed,
       Closers, Only, Idle
  <1>9. NoClientLost'
    BY <1>1, <1>3, <1>4 DEF ManagerAssumption, ManagerInv, ManagerTypeOK, NoClientLost, InMap,
       InHand, Ordered, Closers, Only, Idle
  <1>10. CallsSeen'
    BY <1>1, <1>3, <1>4, OthersSeen DEF ManagerInv, Only, Idle, Closers
  <1> QED
    BY <1>5, <1>6, <1>7, <1>8, <1>9, <1>10 DEF ManagerInv

LEMMA NilConfigurationInv ==
    ASSUME ManagerAssumption, ManagerInv, NEW t \in Threads, NEW n \in Names, NilConfiguration(t, n)
    PROVE  ManagerInv'
  <1>1. /\ changes' \in 0 .. MaxChanges /\ crashed' \in BOOLEAN
        /\ UNCHANGED <<conn, servers, sdkServers, clients, tools, thread, todo, took, seen, replaced>>
    BY DEF ManagerInv, ManagerTypeOK, ManagerAssumption, NilConfiguration, Change, histories
  <1>2. ManagerTypeOK'
    BY <1>1 DEF ManagerInv, ManagerTypeOK
  <1> QED
    BY <1>1, <1>2 DEF ManagerInv, OnceConnected, CallsOrdered, Ordered, TakenOrClosed,
       NoClientLost, InMap, InHand, CallsSeen, View

-----------------------------------------------------------------------------
(* The specification *)

LEMMA CallInv ==
    ASSUME ManagerAssumption, ManagerInv, NEW t \in Threads, ManagerCall(t)
    PROVE  ManagerInv'
  <1>1. ASSUME NEW n \in Names, Add(t, "addServer", n, None)
        PROVE  ManagerInv'
    BY <1>1, AddInv
  <1>2. ASSUME NEW n \in Names, NEW s \in SDKServers, Add(t, "addSDK", n, s)
        PROVE  ManagerInv'
    BY <1>2, AddInv
  <1>3. ASSUME NEW n \in Names,
               LookUpServer(t, n) \/ NilConfiguration(t, n) \/ DisconnectServer(t, n)
                 \/ GetClientAndClose(t, n) \/ CallTool(t, n) \/ HandleMCPMessage(t, n)
        PROVE  ManagerInv'
    BY <1>3, LookUpServerInv, NilConfigurationInv, DisconnectServerInv, GetClientAndCloseInv,
       CallToolInv, HandleMCPMessageInv
  <1>4. CASE DisconnectAll(t)
    BY <1>4, DisconnectAllInv
  <1> QED
    BY <1>1, <1>2, <1>3, <1>4 DEF ManagerCall

LEMMA ManagerStepInv ==
    ASSUME ManagerAssumption, ManagerInv, NEW t \in Threads, ManagerStep(t)
    PROVE  ManagerInv'
  <1>1. ASSUME NEW c \in Clients, CloseBegins(t, c) \/ CloseSkipped(t, c)
        PROVE  ManagerInv'
    BY <1>1, CloseBeginsInv, CloseSkippedInv
  <1>2. CASE AddExternalServer(t) \/ AddSDKServer(t) \/ StoreClient(t)
               \/ ConnectBegins(t) \/ ConnectSucceeds(t) \/ ConnectFails(t)
    BY <1>2, AddExternalServerInv, AddSDKServerInv, StoreClientInv, ConnectBeginsInv,
       ConnectSucceedsInv, ConnectFailsInv
  <1>3. CASE LookUp(t) \/ CloseEnds(t) \/ ClosingReturns(t) \/ HandleCall(t) \/ HandlerReturns(t) \/ Return(t)
    BY <1>3, LookUpInv, CloseEndsInv, ClosingReturnsInv, HandleCallInv, HandlerReturnsInv, ReturnInv
  <1> QED
    BY <1>1, <1>2, <1>3 DEF ManagerStep

LEMMA ManagerNextInv ==
    ASSUME ManagerAssumption, ManagerInv, [ManagerNext]_managerVars
    PROVE  ManagerInv'
  <1>1. ASSUME NEW t \in Threads, ManagerCall(t) \/ ManagerStep(t)
        PROVE  ManagerInv'
    BY <1>1, CallInv, ManagerStepInv
  <1>2. ASSUME NEW s \in SDKServers, NEW h \in Handlers \cup {NilHandler, None}, ChangeTool(s, h)
        PROVE  ManagerInv'
    BY <1>2, ChangeToolInv
  <1>3. CASE UNCHANGED managerVars
    BY <1>3 DEF managerVars, histories, ManagerInv, ManagerTypeOK, OnceConnected, CallsOrdered,
       Ordered, TakenOrClosed, NoClientLost, InMap, InHand, CallsSeen, View
  <1> QED
    BY <1>1, <1>2, <1>3 DEF ManagerNext

\* The invariant that the theorems below rest on.
THEOREM ManagerInvariant ==
    ASSUME ManagerAssumption
    PROVE  ManagerSpec => []ManagerInv
  <1>1. ManagerInit => ManagerInv
    BY ManagerInitInv
  <1>2. ManagerInv /\ [ManagerNext]_managerVars => ManagerInv'
    BY ManagerNextInv
  <1> QED
    BY <1>1, <1>2, PTL DEF ManagerSpec

\* Manager and SDKMCPServer: every variable of the model keeps its type.
THEOREM ManagerTypeCorrect ==
    ASSUME ManagerAssumption
    PROVE  ManagerSpec => []ManagerTypeOK
  <1>1. ManagerInv => ManagerTypeOK
    BY DEF ManagerInv
  <1> QED
    BY <1>1, ManagerInvariant, PTL

\* Manager: a client that connects, or is connected, can be reached and closed,
\* unless ConnectServer has stored another one over it (external.go:170).
THEOREM NoClientIsLost ==
    ASSUME ManagerAssumption
    PROVE  ManagerSpec => []NoClientLost
  <1>1. ManagerInv => NoClientLost
    BY DEF ManagerInv
  <1> QED
    BY <1>1, ManagerInvariant, PTL

\* DisconnectServer and DisconnectAll: when the call returns, every client that
\* it took out of the map is closed, whoever else was closing it, and though
\* the Close of another one failed.
THEOREM WhatIsTakenIsClosed ==
    ASSUME ManagerAssumption
    PROVE  ManagerSpec => []TakenAreClosed
  <1>1. ManagerInv => TakenAreClosed
    BY DEF ManagerInv, CallsOrdered, Ordered, TakenOrClosed, TakenAreClosed, Closers
  <1> QED
    BY <1>1, ManagerInvariant, PTL

\* CallTool: its outcome is one of the manager and the SDK server as they stood
\* between its call and its return.
THEOREM CallToolOfItsTime ==
    ASSUME ManagerAssumption
    PROVE  ManagerSpec => []OutcomeOfItsTime
  <1>1. ManagerInv => OutcomeOfItsTime
    BY DEF ManagerInv, CallsSeen, Found, OutcomeOfItsTime, At
  <1> QED
    BY <1>1, ManagerInvariant, PTL

\* The steps that touch a client do so by an action of Connection, and on a client
\* that there is.
LEMMA ClientStep ==
    ASSUME CallsOrdered, NEW t \in Threads, ManagerCall(t) \/ ManagerStep(t)
    PROVE  C!Next \/ UNCHANGED conn
  <1>1. Ordered(thread[t], todo[t])
    BY DEF CallsOrdered
  <1>2. CASE ConnectBegins(t) \/ ConnectSucceeds(t) \/ ConnectFails(t)
    <2>1. thread[t].client \in Clients
      BY <1>1, <1>2 DEF Ordered, ConnectBegins, ConnectSucceeds, ConnectFails, At
    <2> QED
      BY <1>2, <2>1 DEF ConnectBegins, ConnectSucceeds, ConnectFails, C!Next
  <1>3. ASSUME NEW c \in Clients, CloseBegins(t, c) PROVE C!Next
    BY <1>3 DEF CloseBegins, C!Next
  <1>4. CASE CloseEnds(t)
    <2>1. thread[t].client \in Clients
      BY <1>1, <1>4 DEF Ordered, CloseEnds
    <2> QED
      BY <1>4, <2>1 DEF CloseEnds, C!Next
  <1>5. ASSUME NEW c \in Clients, CloseSkipped(t, c) PROVE UNCHANGED conn
    BY <1>5 DEF CloseSkipped
  <1>6. CASE AddExternalServer(t) \/ AddSDKServer(t) \/ StoreClient(t) \/ ClosingReturns(t)
               \/ LookUp(t) \/ HandleCall(t) \/ HandlerReturns(t) \/ Return(t)
    BY <1>6 DEF AddExternalServer, AddSDKServer, StoreClient, ClosingReturns, LookUp, HandleCall,
       HandlerReturns, Return
  <1>7. CASE ManagerCall(t)
    BY <1>7 DEF ManagerCall, Add, LookUpServer, NilConfiguration, DisconnectServer, GetClientAndClose, CallTool,
       HandleMCPMessage, DisconnectAll
  <1> QED
    BY <1>2, <1>3, <1>4, <1>5, <1>6, <1>7 DEF ManagerStep

\* The manager and its clients: however many goroutines connect, replace and
\* close them, each client goes through the life of Connection, of which MCPClient
\* is an implementation: no Connect of one that was connected, no Close of one
\* that is not connected, and no client that two calls close at once.
THEOREM ManagerUsesConnections ==
    ASSUME ManagerAssumption
    PROVE  ManagerSpec => C!Spec
  <1>1. ManagerInit => C!Init
    BY DEF ManagerInit
  <1>2. ManagerInv /\ [ManagerNext]_managerVars => [C!Next]_conn
    <2>1. ASSUME ManagerInv, NEW t \in Threads, ManagerCall(t) \/ ManagerStep(t)
          PROVE  C!Next \/ UNCHANGED conn
      BY <2>1, ClientStep DEF ManagerInv
    <2>2. ASSUME NEW s \in SDKServers, NEW h \in Handlers \cup {NilHandler, None}, ChangeTool(s, h)
          PROVE  UNCHANGED conn
      BY <2>2 DEF ChangeTool
    <2> QED
      BY <2>1, <2>2 DEF ManagerNext, managerVars
  <1> QED
    BY <1>1, <1>2, ManagerInvariant, PTL DEF ManagerSpec, C!Spec
=============================================================================
