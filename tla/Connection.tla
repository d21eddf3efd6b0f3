------------------------------- MODULE Connection -------------------------------
(***************************************************************************)
(* The life of an MCP client as its owner sees it: it is connected once,   *)
(* the handshake succeeds or fails, and a connected client can be closed.  *)
(* What internal/mcp/external.go may assume of internal/mcp/client.go.     *)
(***************************************************************************)

CONSTANT Clients

VARIABLE conn       \* the state of each client

States == {"new", "connecting", "connected", "failed", "closing", "closed"}

Init == conn = [c \in Clients |-> "new"]

Moves(c, from, to) ==
    /\ conn[c] = from
    /\ conn' = [conn EXCEPT ![c] = to]

Begin(c) == Moves(c, "new", "connecting")
Succeed(c) == Moves(c, "connecting", "connected")

\* The transport cannot be connected, or the handshake fails.
Fail(c) == Moves(c, "new", "failed") \/ Moves(c, "connecting", "failed")

CloseBegins(c) == Moves(c, "connected", "closing")
CloseEnds(c) == Moves(c, "closing", "closed")

Next ==
    \E c \in Clients :
        Begin(c) \/ Succeed(c) \/ Fail(c) \/ CloseBegins(c) \/ CloseEnds(c)

Spec == Init /\ [][Next]_conn
=============================================================================
