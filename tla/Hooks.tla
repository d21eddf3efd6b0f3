-------------------------------- MODULE Hooks --------------------------------
(***************************************************************************)
(* internal/hooks: the hooks registered for an event are run one after     *)
(* another, callbacks and shell commands, until one fails or says stop.    *)
(* Trigger copies the list under the lock and runs it without, while hooks *)
(* are registered and cleared.  A command is a shell, what it printed, and *)
(* the processes it leaves behind, which keep its pipes open; cmd.Run      *)
(* returns when the shell is dead and the pipes are closed.                *)
(***************************************************************************)
EXTENDS Naturals, Sequences

CONSTANTS
    Triggers,           \* goroutines that call Trigger
    Tool,               \* the tool the event is about
    Entries,            \* bound: the entries that may be registered
    MaxHooks,           \* bound: entries at one time
    MaxChanges          \* bound: calls of Register and Clear

HooksAssumption == MaxHooks \in Nat /\ MaxChanges \in Nat

VARIABLES
    hooks,              \* the entries of the event
    trig,               \* the call of Trigger of each goroutine
    changes,            \* how often hooks was changed
    crashed             \* a nil output was dereferenced: the program is gone

vars == <<hooks, trig, changes, crashed>>

-----------------------------------------------------------------------------
(* Matching.  A pattern is empty, or names its text, whether the text has  *)
(* characters of a regular expression, and which tools the expression      *)
(* matches, unless it does not compile.                                    *)

NewMatcher(pattern) ==
    [pattern |-> pattern.text,
     isExact |-> pattern.text # "" /\ (~pattern.meta \/ ~pattern.compiles),
     tools |-> pattern.tools]

Match(matcher, tool) ==
    \/ matcher.pattern = ""
    \/ matcher.isExact /\ matcher.pattern = tool
    \/ ~matcher.isExact /\ tool \in matcher.tools

\* An entry of Options.Hooks as it is registered.  An entry that is no
\* command is a callback, with or without a function.
convertHookEntry(entry) ==
    [type |-> IF entry.type = "command" THEN "command" ELSE "callback",
     nil |-> entry.type # "command" /\ entry.nil,
     matcher |-> NewMatcher(entry.pattern)]

\* Entries with a matcher that fails, and callback entries without a
\* callback, are passed over.
Runs(entry) == Match(entry.matcher, Tool) /\ ~entry.nil

-----------------------------------------------------------------------------
(* What a command hook says.                                               *)

Printed == {"blank", "garbage", "continue_true", "continue_false", "no_continue"}

ExitCodes == {0, 1, 2}

\* CommandOutput.Continue is FALSE when the JSON has no such field.
parseSuccessOutput(printed) ==
    IF printed \in {"blank", "garbage", "continue_true"} THEN "continue" ELSE "stop"

OutputOf(exitCode, printed) ==
    CASE exitCode = 0 -> parseSuccessOutput(printed)
      [] exitCode = 2 -> "stop"
      [] OTHER -> "continue"

NoShell == [running |-> FALSE, code |-> 0, killed |-> FALSE, printed |-> "blank",
            children |-> FALSE, ctxDone |-> FALSE]

Shells == [running : BOOLEAN, code : ExitCodes, killed : BOOLEAN, printed : Printed,
           children : BOOLEAN, ctxDone : BOOLEAN]

Idle == [pc |-> "idle", entries |-> <<>>, i |-> 1, shell |-> NoShell,
         ran |-> <<>>, answer |-> "none"]

-----------------------------------------------------------------------------
Init ==
    /\ hooks = <<>>
    /\ trig = [t \in Triggers |-> Idle]
    /\ changes = 0
    /\ crashed = FALSE

Register(entry) ==
    /\ changes < MaxChanges
    /\ Len(hooks) < MaxHooks
    /\ hooks' = Append(hooks, convertHookEntry(entry))
    /\ changes' = changes + 1
    /\ UNCHANGED <<trig, crashed>>

Clear ==
    /\ changes < MaxChanges
    /\ hooks' = <<>>
    /\ changes' = changes + 1
    /\ UNCHANGED <<trig, crashed>>

Goto(t, r) ==
    /\ trig' = [trig EXCEPT ![t] = r]
    /\ UNCHANGED <<hooks, changes>>

\* The section under mu.RLock.
Trigger(t) ==
    /\ trig[t].pc = "idle"
    /\ Goto(t, [trig[t] EXCEPT !.pc = "loop", !.entries = hooks])
    /\ UNCHANGED crashed

\* Mutant: the loop ranges over the manager's list, not over the copy.
EntryOfManager(t) ==
    IF trig[t].i \in DOMAIN hooks THEN hooks[trig[t].i] ELSE trig[t].entries[trig[t].i]

Entry(t) == trig[t].entries[trig[t].i]

InLoop(t) == trig[t].pc = "loop" /\ trig[t].i <= Len(trig[t].entries)

Skip(t) ==
    /\ InLoop(t)
    /\ ~Runs(Entry(t))
    /\ Goto(t, [trig[t] EXCEPT !.i = @ + 1])
    /\ UNCHANGED crashed

CallCallback(t) ==
    /\ InLoop(t)
    /\ Runs(Entry(t))
    /\ Entry(t).type = "callback"
    /\ Goto(t, [trig[t] EXCEPT !.pc = "callback"])
    /\ UNCHANGED crashed

StartCommand(t) ==
    /\ InLoop(t)
    /\ Runs(Entry(t))
    /\ Entry(t).type = "command"
    /\ Goto(t, [trig[t] EXCEPT !.pc = "command", !.shell = [NoShell EXCEPT !.running = TRUE]])
    /\ UNCHANGED crashed

\* A hook has said `said`: Trigger returns, or takes the next entry.
Said(t, said) ==
    LET r == [trig[t] EXCEPT !.ran = Append(@, [i |-> trig[t].i, said |-> said]),
                             !.shell = NoShell]
    IN Goto(t, IF said = "continue" THEN [r EXCEPT !.pc = "loop", !.i = @ + 1]
                                    ELSE [r EXCEPT !.pc = "done", !.answer = said])

CallbackReturns(t) ==
    /\ trig[t].pc = "callback"
    /\ \E said \in {"continue", "stop", "error"} : Said(t, said)
    /\ UNCHANGED crashed

\* nil for both output and error: Trigger reads output.Continue.
CallbackReturnsNil(t) ==
    /\ trig[t].pc = "callback"
    /\ crashed' = TRUE
    /\ UNCHANGED <<hooks, trig, changes>>

\* The shell is not found, or the working directory does not exist.
StartFails(t) ==
    /\ InLoop(t)
    /\ Runs(Entry(t))
    /\ Entry(t).type = "command"
    /\ Said(t, "error")
    /\ UNCHANGED crashed

RunReturns(t) ==
    LET shell == trig[t].shell
    IN /\ trig[t].pc = "command"
       /\ ~shell.running
       /\ ~shell.children
       /\ Said(t, IF shell.ctxDone \/ shell.killed THEN "error"
                  ELSE OutputOf(shell.code, shell.printed))
       /\ UNCHANGED crashed

\* Mutant: the shell is not told that the time is over.
ContextDoneUnheard(t) ==
    /\ trig[t].pc = "command"
    /\ ~trig[t].shell.ctxDone
    /\ Goto(t, [trig[t] EXCEPT !.shell.ctxDone = TRUE])
    /\ UNCHANGED crashed

\* The timeout of the entry, or the end of the caller's context: the shell is
\* killed, if it still runs; what it started is not.
ContextDone(t) ==
    /\ trig[t].pc = "command"
    /\ ~trig[t].shell.ctxDone
    /\ Goto(t, [trig[t] EXCEPT !.shell =
                  [@ EXCEPT !.ctxDone = TRUE, !.running = FALSE, !.killed = @ \/ trig[t].shell.running]])
    /\ UNCHANGED crashed

TriggerReturns(t) ==
    /\ trig[t].pc = "loop"
    /\ trig[t].i > Len(trig[t].entries)
    /\ Goto(t, [trig[t] EXCEPT !.pc = "done", !.answer = "continue"])
    /\ UNCHANGED crashed

-----------------------------------------------------------------------------
(* The command.                                                            *)

ShellSpawns(t) ==
    /\ trig[t].shell.running
    /\ ~trig[t].shell.children
    /\ Goto(t, [trig[t] EXCEPT !.shell.children = TRUE])
    /\ UNCHANGED crashed

ShellExits(t) ==
    /\ trig[t].shell.running
    /\ \E code \in ExitCodes, printed \in Printed :
          Goto(t, [trig[t] EXCEPT !.shell = [@ EXCEPT !.running = FALSE, !.code = code,
                                                      !.printed = printed]])
    /\ UNCHANGED crashed

\* A signal from elsewhere: ExitCode is -1.
ShellKilled(t) ==
    /\ trig[t].shell.running
    /\ Goto(t, [trig[t] EXCEPT !.shell = [@ EXCEPT !.running = FALSE, !.killed = TRUE]])
    /\ UNCHANGED crashed

ChildrenEnd(t) ==
    /\ trig[t].shell.children
    /\ Goto(t, [trig[t] EXCEPT !.shell.children = FALSE])
    /\ UNCHANGED crashed

TriggerStep(t) ==
    \/ Trigger(t) \/ Skip(t) \/ CallCallback(t) \/ StartCommand(t) \/ StartFails(t)
    \/ CallbackReturns(t) \/ RunReturns(t) \/ TriggerReturns(t)

CommandStep(t) == ShellSpawns(t) \/ ShellExits(t) \/ ShellKilled(t) \/ ChildrenEnd(t)

Next ==
    /\ ~crashed
    /\ \/ \E entry \in Entries : Register(entry)
       \/ Clear
       \/ \E t \in Triggers :
             TriggerStep(t) \/ CallbackReturnsNil(t) \/ ContextDone(t) \/ CommandStep(t)

Spec == Init /\ [][Next]_vars

-----------------------------------------------------------------------------
(* Properties.                                                             *)

EntryLists == UNION {[1 .. n -> {convertHookEntry(entry) : entry \in Entries}] : n \in 0 .. MaxHooks}

TypeOK ==
    /\ hooks \in EntryLists
    /\ \A t \in Triggers :
        /\ trig[t].pc \in {"idle", "loop", "callback", "command", "done"}
        /\ trig[t].entries \in EntryLists
        /\ trig[t].i \in 1 .. MaxHooks + 1
        /\ trig[t].shell \in Shells
        /\ trig[t].answer \in {"none", "continue", "stop", "error"}
        /\ trig[t].pc # "command" => trig[t].shell = NoShell
    /\ changes \in 0 .. MaxChanges
    /\ crashed \in BOOLEAN

(* The hooks run in the order of their registration, each at most once,    *)
(* none is left out, and none runs after one that did not say continue.    *)
(* Trigger says what the last one said; it says continue only if every     *)
(* hook that was registered for the tool when it began has said so.        *)
HooksInOrder ==
    \A t \in Triggers :
        LET ran == trig[t].ran
            entries == trig[t].entries
            AllRan(upTo) == {ran[n].i : n \in DOMAIN ran} = {i \in 1 .. upTo : Runs(entries[i])}
        IN /\ AllRan(IF ran = <<>> THEN 0 ELSE ran[Len(ran)].i)
           /\ \A m, n \in DOMAIN ran : m < n => ran[m].i < ran[n].i
           /\ \A n \in 1 .. Len(ran) - 1 : ran[n].said = "continue"
           /\ trig[t].answer = "continue" => AllRan(Len(entries))
           /\ trig[t].pc = "done" /\ ran # <<>> => trig[t].answer = ran[Len(ran)].said
           /\ trig[t].answer \in {"stop", "error"} => ran # <<>>

(* What a shell has started ends some time, and lets go of its pipes.      *)
ChildrenGo == \A t \in Triggers : trig[t].shell.children ~> ~trig[t].shell.children

(* A shell that never ends is ended by its timeout, and Trigger returns,   *)
(* unless a callback has brought the program down: but only if nothing the *)
(* shell has started runs on, for Run waits for that and for no deadline.  *)
TimeoutEndsHook == ChildrenGo =>
    \A t \in Triggers : trig[t].pc # "idle" ~> (trig[t].pc = "done" \/ crashed)
=============================================================================
