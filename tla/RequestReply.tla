---------------------------- MODULE RequestReply ----------------------------
(***************************************************************************)
(* What internal/protocol/control.go promises to whoever calls             *)
(* SendControlRequest: a request is made once, and it ends at most once,   *)
(* either with an answer the CLI gave to that very request or with an      *)
(* error.  Nothing is said of identifiers, channels or locks:              *)
(* ControlProtocol supplies them and implements this specification.        *)
(***************************************************************************)
CONSTANT Requests           \* the requests that can ever be made

VARIABLES
    outcome,                \* how each request stands
    answers                 \* the requests the CLI has answered, early or late

vars == <<outcome, answers>>

Outcomes == {"unmade", "open", "answered", "failed"}

TypeOK ==
    /\ outcome \in [Requests -> Outcomes]
    /\ answers \subseteq Requests

Init ==
    /\ outcome = [r \in Requests |-> "unmade"]
    /\ answers = {}

Make(r) ==
    /\ outcome[r] = "unmade"
    /\ outcome' = [outcome EXCEPT ![r] = "open"]
    /\ UNCHANGED answers

\* The CLI may answer a request whose caller has already given up.
Answer(r) ==
    /\ outcome[r] # "unmade"
    /\ answers' = answers \cup {r}
    /\ UNCHANGED outcome

Return(r) ==
    /\ outcome[r] = "open"
    /\ r \in answers
    /\ outcome' = [outcome EXCEPT ![r] = "answered"]
    /\ UNCHANGED answers

GiveUp(r) ==
    /\ outcome[r] = "open"
    /\ outcome' = [outcome EXCEPT ![r] = "failed"]
    /\ UNCHANGED answers

Next == \E r \in Requests : Make(r) \/ Answer(r) \/ Return(r) \/ GiveUp(r)

Spec == Init /\ [][Next]_vars
=============================================================================
