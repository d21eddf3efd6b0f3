---------------------------- MODULE MessageStream ----------------------------
(***************************************************************************)
(* What internal/transport promises to the reader of Messages(): the       *)
(* messages of the CLI, in the order the CLI printed them, none twice and  *)
(* none it did not print, until the channel is closed.  Whether one may be *)
(* missing is not said here: see NothingLost of SubprocessTransport.       *)
(***************************************************************************)
EXTENDS Naturals, Sequences

VARIABLES
    emitted,            \* messages the CLI has printed completely
    out,                \* the messages put on the channel so far, by number
    ended               \* the channel is closed

vars == <<emitted, out, ended>>

LastOut == IF out = <<>> THEN 0 ELSE out[Len(out)]

Init == emitted = 0 /\ out = <<>> /\ ended = FALSE

Emit ==
    /\ emitted' = emitted + 1
    /\ UNCHANGED <<out, ended>>

Deliver ==
    /\ ~ended
    /\ \E n \in LastOut + 1 .. emitted : out' = Append(out, n)
    /\ UNCHANGED <<emitted, ended>>

End ==
    /\ ended' = TRUE
    /\ UNCHANGED <<emitted, out>>

Next == Emit \/ Deliver \/ End

Spec == Init /\ [][Next]_vars
=============================================================================
