-------------------------- MODULE MCControlProtocol --------------------------
(* A small instance of ControlProtocol for TLC. *)
EXTENDS ControlProtocol, TLC

CONSTANT MaxTraffic     \* bound: see Bounded

Registered ==
    callbacks["can_use_tool"] + callbacks["hook_callback"] + callbacks["mcp_message"]

\* The more requests the SDK makes, the fewer messages and callbacks there are;
\* the last of them comes while the CLI's stdin has room.
Bounded ==
    /\ requestCounter + emitted <= MaxTraffic
    /\ requestCounter + Registered <= MaxTraffic
    /\ ~room => requestCounter + emitted < MaxTraffic

MCSpec == Init /\ [][Next /\ Bounded']_vars

CallerSymmetry == Permutations(Callers)
=============================================================================
