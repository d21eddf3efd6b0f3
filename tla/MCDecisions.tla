---------------------------- MODULE MCDecisions ----------------------------
(* Small instances of Decisions for TLC. *)
EXTENDS Decisions

MCRules ==
    {[tools |-> {"Edit"}, behavior |-> "deny"], [tools |-> {"Edit", "Read"}, behavior |-> "allow"],
     [tools |-> {"Edit", "Read"}, behavior |-> "ask"]}

Exact == [text |-> "Bash", meta |-> FALSE, compiles |-> TRUE, tools |-> {"Bash", "BashOutput"}]
Other == [text |-> "Rea(", meta |-> TRUE, compiles |-> FALSE, tools |-> {}]
Every == [text |-> "", meta |-> FALSE, compiles |-> TRUE, tools |-> {}]
Regex == [text |-> "Ba.*", meta |-> TRUE, compiles |-> TRUE, tools |-> {"Bash", "BashOutput"}]

MCEntries ==
    {[type |-> "callback", nil |-> FALSE, pattern |-> Every],
     [type |-> "callback", nil |-> TRUE, pattern |-> Exact],
     [type |-> "callback", nil |-> FALSE, pattern |-> Other],
     [type |-> "command", nil |-> FALSE, pattern |-> Regex]}

\* The parts that do not move start with one of their first values.
MCInit ==
    /\ DecisionsInit
    /\ part # "retry" => config = CHOOSE c \in Configs : TRUE
    /\ part # "permission" => mode = "default"
    /\ \A n \in Names : sdkServers[n] = None
    /\ \/ (\A n \in Names : servers[n] = "supported") /\ (\A s \in SDKServers : tools[s] = None)
       \/ part = "manager" /\ (\A n \in Names : servers[n] = "nil")
          /\ \A s \in SDKServers : tools[s] = NilServer

\* A server that is added is a supported one: nil is there from the start.
SupportedAdded == \A n \in Names : servers'[n] \in {servers[n], "supported"}

\* Trigger runs on, its callbacks return, its timers fire.  Nothing is assumed
\* of a command.
MCSpec ==
    /\ MCInit /\ [][DecisionsNext /\ SupportedAdded]_allVars
    /\ \A t \in Triggers :
        /\ WF_allVars(HooksPart(~hooksCrashed /\ H!TriggerStep(t)))
        /\ WF_allVars(HooksPart(~hooksCrashed /\ H!ContextDone(t)))

MCRetries == {-1, 0, 2}
MCDurations == {0, 8, 10}
MCFactors == {50, 200}
MCRetryAfters == {-20, 0, 20}
=============================================================================
