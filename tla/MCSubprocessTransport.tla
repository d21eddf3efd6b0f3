----------------------- MODULE MCSubprocessTransport -----------------------
(* A small instance of SubprocessTransport for TLC. *)
EXTENDS SubprocessTransport, TLC

CONSTANT MaxActivity    \* bound: on the sum below

\* What the CLI prints and the calls of the client, in one count; a message
\* counts from its first line.
Activity ==
    printed.messages + (IF printed.mid THEN 1 ELSE 0) + printed.stray + printed.stderr + calls

MCSpec == Init /\ [][Next /\ Activity' <= MaxActivity]_vars

\* With a client that reads, see SubprocessTransport.
MCServedSpec == MCSpec /\ TransportFairness /\ ClientReads
=============================================================================
