------------------------------ MODULE Decisions ------------------------------
(***************************************************************************)
(* The four parts of the SDK that work without the CLI.  They share no     *)
(* state: a behaviour is one of Retry, Permission, Hooks or MCPManager,    *)
(* and the variables of the other three keep their first values.           *)
(***************************************************************************)
EXTENDS Retry, Permission, MCPManager

CONSTANTS Triggers, Tool, Entries, MaxHooks, MaxHookChanges

VARIABLES part, hooks, trig, hookChanges, hooksCrashed

H == INSTANCE Hooks WITH changes <- hookChanges, crashed <- hooksCrashed,
                         MaxChanges <- MaxHookChanges

ASSUME DecisionsAssumption == PermissionAssumption /\ ManagerAssumption /\ H!HooksAssumption

hooksVars == <<hooks, trig, hookChanges, hooksCrashed>>
allVars == <<part, vars, permissionVars, hooksVars, managerVars>>

DecisionsInit ==
    /\ part \in {"retry", "permission", "hooks", "manager"}
    /\ Init /\ PermissionInit /\ H!Init /\ ManagerInit

RetryPart(A) == part = "retry" /\ A /\ UNCHANGED <<part, permissionVars, hooksVars, managerVars>>
PermissionPart(A) == part = "permission" /\ A /\ UNCHANGED <<part, vars, hooksVars, managerVars>>
HooksPart(A) == part = "hooks" /\ A /\ UNCHANGED <<part, vars, permissionVars, managerVars>>
ManagerPart(A) == part = "manager" /\ A /\ UNCHANGED <<part, vars, permissionVars, hooksVars>>

DecisionsNext ==
    \/ RetryPart(Next) \/ PermissionPart(PermissionNext)
    \/ HooksPart(H!Next) \/ ManagerPart(ManagerNext)

DecisionsSpec == DecisionsInit /\ [][DecisionsNext]_allVars

(* Every variable of the four parts has its type: no wait is negative,    *)
(* whatever time an error names.                                           *)
DecisionTypes == TypeOK /\ PermissionTypeOK /\ H!TypeOK /\ ManagerTypeOK

(* Trigger runs the hooks that were registered when it began, see Hooks.   *)
HooksInOrder == H!HooksInOrder

(* A shell that never ends is ended by its timeout, if what it started     *)
(* does not run on, see Hooks.                                             *)
TimeoutEndsHook == H!TimeoutEndsHook
=============================================================================
