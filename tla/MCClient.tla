------------------------------ MODULE MCClient ------------------------------
(***************************************************************************)
(* Small instances of Client for TLC.  The bounds below leave out choices  *)
(* of the CLI; none keeps a fair action from being taken.                  *)
(***************************************************************************)
EXTENDS Client, TLC

\* Only the first line the CLI is sent may fill its stdin, so that a later
\* writer waits.
FirstLineFills == room /\ ~room' => asked = {}

\* The CLI sends one kind of message for each way the client has to treat one,
\* and answers a request once (ControlProtocol has the others).
Sparing == Len(incoming') > Len(incoming) =>
    IF emitted' > emitted
    THEN incoming'[Len(incoming')].kind \in {"conversation", "garbage", "can_use_tool", "other"}
    ELSE answered' # answered

\* The session id in the answer to initialize is another than that in messages.
MessageSession == CHOOSE sid \in Sessions : TRUE
TwoSessions ==
    /\ loop'.sid \in {None, MessageSession}
    /\ \A t \in Callers : thread'[t].sid # MessageSession

MCSpec == Init /\ [][Next /\ FirstLineFills /\ Sparing /\ TwoSessions]_vars
MCFairSpec == MCSpec /\ ClientFairness

CallerSymmetry == Permutations(Callers \ {Loop})
=============================================================================
