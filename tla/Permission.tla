----------------------------- MODULE Permission -----------------------------
(***************************************************************************)
(* internal/permission/permission.go: a mode, a list of rules and a        *)
(* callback decide whether a tool may be used.  Evaluate copies all three  *)
(* under the lock and decides without it, while other goroutines, or the   *)
(* callback it calls, may change them.  A rule is the set of tools its     *)
(* regular expression matches, and its behavior.                           *)
(***************************************************************************)
EXTENDS Naturals, Sequences

CONSTANTS
    Evaluators,         \* goroutines that call Evaluate
    Rules,              \* bound: the rules that may be added
    MaxRules,           \* bound: rules at one time
    MaxRuleChanges      \* bound: calls of the methods that change the manager

\* "ask" stands for every behavior that neither allows nor denies.
PermissionAssumption ==
    /\ Rules \subseteq [tools : SUBSET {"Read", "Edit"}, behavior : {"allow", "deny", "ask"}]
    /\ MaxRules \in Nat /\ MaxRuleChanges \in Nat

VARIABLES
    mode, rules, canUseTool,
    evals,              \* the call of Evaluate of each goroutine
    ruleChanges         \* how often the manager was changed

permissionVars == <<mode, rules, canUseTool, evals, ruleChanges>>

Modes == {"default", "acceptEdits", "plan", "bypassPermissions"}

\* One tool that isReadOnlyTool knows, and one it does not.
Tools == {"Read", "Edit"}
isReadOnlyTool(tool) == tool = "Read"

matches(rule, tool) == tool \in rule.tools

RuleLists == UNION {[1 .. n -> Rules] : n \in 0 .. MaxRules}

Configurations == [mode : Modes, rules : RuleLists, cb : BOOLEAN]

Configuration == [mode |-> mode, rules |-> rules, cb |-> canUseTool]

\* "rule" and "mode" stand for a decision of the manager, "callback" for the
\* answer, or the error, of the callback, which Evaluate passes on.
Results == [by : {"rule", "mode"}, allow : BOOLEAN] \cup [by : {"callback"}]

NotCalled == [pc |-> "idle"]

-----------------------------------------------------------------------------
PermissionInit ==
    /\ mode \in Modes
    /\ rules = <<>>
    /\ canUseTool = FALSE
    /\ evals = [e \in Evaluators |-> NotCalled]
    /\ ruleChanges = 0

\* What each call in progress could have seen: a history for the property.
SeenMeanwhile(configuration) ==
    [e \in Evaluators |->
        IF evals[e].pc \in {"entered", "rules", "callback"}
          THEN [evals[e] EXCEPT !.seen = @ \cup {configuration}] ELSE evals[e]]

ChangeManager ==
    /\ ruleChanges < MaxRuleChanges
    /\ ruleChanges' = ruleChanges + 1
    /\ evals' = SeenMeanwhile(Configuration')

SetMode(m) ==
    /\ mode' = m
    /\ UNCHANGED <<rules, canUseTool>>
    /\ ChangeManager

SetCanUseToolCallback(cb) ==
    /\ canUseTool' = cb
    /\ UNCHANGED <<mode, rules>>
    /\ ChangeManager

\* A rule whose expression does not compile is refused and changes nothing.
AddRule(rule) ==
    /\ Len(rules) < MaxRules
    /\ rules' = Append(rules, rule)
    /\ UNCHANGED <<mode, canUseTool>>
    /\ ChangeManager

ClearRules ==
    /\ rules' = <<>>
    /\ UNCHANGED <<mode, canUseTool>>
    /\ ChangeManager

-----------------------------------------------------------------------------
(* Evaluate.                                                               *)

SetEval(e, r) == evals' = [evals EXCEPT ![e] = r]

Finish(e, result) ==
    SetEval(e, [pc |-> "done", tool |-> evals[e].tool, seen |-> evals[e].seen, result |-> result])

Evaluate(e, tool) ==
    /\ evals[e].pc = "idle"
    /\ SetEval(e, [pc |-> "entered", tool |-> tool, seen |-> {Configuration}])
    /\ UNCHANGED <<mode, rules, canUseTool, ruleChanges>>

\* The section under mu.RLock.
Snapshot(e) ==
    /\ evals[e].pc = "entered"
    /\ SetEval(e, [pc |-> "rules", tool |-> evals[e].tool, seen |-> evals[e].seen,
                mode |-> mode, rules |-> rules, cb |-> canUseTool, i |-> 1])
    /\ UNCHANGED <<mode, rules, canUseTool, ruleChanges>>

Bypass(e) ==
    /\ evals[e].pc = "rules"
    /\ evals[e].mode = "bypassPermissions"
    /\ Finish(e, [by |-> "mode", allow |-> TRUE])
    /\ UNCHANGED <<mode, rules, canUseTool, ruleChanges>>

InRules(e) ==
    /\ evals[e].pc = "rules"
    /\ evals[e].mode # "bypassPermissions"
    /\ evals[e].i <= Len(evals[e].rules)

\* A rule that asks leaves the switch only, and the loop goes on.
TryRule(e) ==
    /\ InRules(e)
    /\ LET rule == evals[e].rules[evals[e].i]
       IN IF matches(rule, evals[e].tool) /\ rule.behavior \in {"allow", "deny"}
            THEN Finish(e, [by |-> "rule", allow |-> rule.behavior = "allow"])
            ELSE SetEval(e, [evals[e] EXCEPT !.i = @ + 1])
    /\ UNCHANGED <<mode, rules, canUseTool, ruleChanges>>

AfterRules(e) ==
    /\ evals[e].pc = "rules"
    /\ evals[e].mode # "bypassPermissions"
    /\ evals[e].i > Len(evals[e].rules)

CallBack(e) ==
    /\ AfterRules(e)
    /\ evals[e].cb
    /\ SetEval(e, [evals[e] EXCEPT !.pc = "callback"])
    /\ UNCHANGED <<mode, rules, canUseTool, ruleChanges>>

CallbackReturns(e) ==
    /\ evals[e].pc = "callback"
    /\ Finish(e, [by |-> "callback"])
    /\ UNCHANGED <<mode, rules, canUseTool, ruleChanges>>

\* Mutant: the mode is read when it is needed, after the lock was released.
ModeDecidesLate(e) ==
    /\ AfterRules(e)
    /\ ~evals[e].cb
    /\ Finish(e, [by |-> "mode",
                  allow |-> mode # "plan" \/ isReadOnlyTool(evals[e].tool)])
    /\ UNCHANGED <<mode, rules, canUseTool, ruleChanges>>

\* acceptEdits allows the tools that edit, and then, as default, all others.
ModeDecides(e) ==
    /\ AfterRules(e)
    /\ ~evals[e].cb
    /\ Finish(e, [by |-> "mode",
                  allow |-> \/ evals[e].mode # "plan"
                            \/ isReadOnlyTool(evals[e].tool)])
    /\ UNCHANGED <<mode, rules, canUseTool, ruleChanges>>

EvaluateStep(e) ==
    \/ \E tool \in Tools : Evaluate(e, tool)
    \/ Snapshot(e) \/ Bypass(e) \/ TryRule(e) \/ CallBack(e) \/ CallbackReturns(e)
    \/ ModeDecides(e)

PermissionNext ==
    \/ \E m \in Modes : SetMode(m)
    \/ \E cb \in BOOLEAN : SetCanUseToolCallback(cb)
    \/ \E rule \in Rules : AddRule(rule)
    \/ ClearRules
    \/ \E e \in Evaluators : EvaluateStep(e)

PermissionSpec == PermissionInit /\ [][PermissionNext]_permissionVars

-----------------------------------------------------------------------------
(* Properties.                                                             *)

EvalTypes ==
    [pc : {"idle"}]
    \cup [pc : {"entered"}, tool : Tools, seen : SUBSET Configurations]
    \cup [pc : {"rules", "callback"}, tool : Tools, seen : SUBSET Configurations,
          mode : Modes, rules : RuleLists, cb : BOOLEAN,
          i : 1 .. MaxRules + 1]
    \cup [pc : {"done"}, tool : Tools, seen : SUBSET Configurations, result : Results]

PermissionTypeOK ==
    /\ Configuration \in Configurations
    /\ evals \in [Evaluators -> EvalTypes]
    /\ ruleChanges \in 0 .. MaxRuleChanges

\* The decision a configuration stands for in this code: the first rule for
\* the tool that allows or denies, those after a rule that asks included (but
\* see AskLeavesToCallback); else the callback; else the mode.
Deciding(c, tool) ==
    {i \in DOMAIN c.rules : matches(c.rules[i], tool) /\ c.rules[i].behavior # "ask"}

Denied(c, tool) ==
    \E i \in Deciding(c, tool) :
        /\ c.rules[i].behavior = "deny"
        /\ \A j \in Deciding(c, tool) : i <= j

Decision(c, tool) ==
    IF c.mode = "bypassPermissions" THEN [by |-> "mode", allow |-> TRUE]
    ELSE IF Deciding(c, tool) # {} THEN [by |-> "rule", allow |-> ~Denied(c, tool)]
    ELSE IF c.cb THEN [by |-> "callback"]
    ELSE [by |-> "mode", allow |-> c.mode = "plan" => isReadOnlyTool(tool)]

(* Whatever is changed while Evaluate decides, its result is the decision  *)
(* of one configuration that was in force between its call and its return, *)
(* never of the rules of one moment under the mode of another.             *)
OneConfigurationDecides ==
    \A e \in Evaluators :
        evals[e].pc = "done" =>
            \E c \in evals[e].seen : evals[e].result = Decision(c, evals[e].tool)

-----------------------------------------------------------------------------
(* What the repository says and this code does not do: a run refutes it.   *)

AsksFirst(c, tool) ==
    \E i \in DOMAIN c.rules :
        /\ matches(c.rules[i], tool) /\ c.rules[i].behavior = "ask"
        /\ \A j \in 1 .. i - 1 : ~matches(c.rules[j], tool)

(* permission.go:164: when the first rule for the tool asks, the decision  *)
(* is left to the callback, whatever rules come after it.                  *)
AskLeavesToCallback ==
    \A e \in Evaluators :
        /\ evals[e].pc = "done"
        /\ \A c \in evals[e].seen :
              c.cb /\ c.mode # "bypassPermissions" /\ AsksFirst(c, evals[e].tool)
        => evals[e].result.by = "callback"
=============================================================================
