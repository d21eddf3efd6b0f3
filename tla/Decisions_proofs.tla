--------------------------- MODULE Decisions_proofs ---------------------------
(***************************************************************************)
(* Proofs about the parts that work without the CLI, for every value of    *)
(* the constants: WithRetry, Evaluate, and the composition of both with    *)
(* Hooks and MCPManager, whose own proofs are in Hooks_proofs and          *)
(* MCPManager_proofs.                                                      *)
(***************************************************************************)
EXTENDS Decisions, MCPManager_proofs, TLAPS

-----------------------------------------------------------------------------
(* WithRetry, for every set of configurations and errors that              *)
(* RetryAssumption admits.                                                 *)

\* How far the loop has come, and what the backoff can be there.
Counted ==
    /\ pc = "loop" => calls = attempt /\ attempt <= Largest(config.MaxRetries + 1, 0)
    /\ pc \in {"calling", "waiting"} => calls = attempt + 1 /\ attempt <= config.MaxRetries
    /\ pc = "waiting" => attempt < config.MaxRetries
    /\ pc # "done" => result # "exhausted"

Justified ==
    pc = "waiting" \/ (pc = "loop" /\ calls > 0) =>
        IsRetryable(lastErr) /\ lastErr \in FnErrors

BackoffBounded ==
    /\ pc \in {"loop", "calling"} =>
          backoff <= Largest(config.InitialBackoff, config.MaxBackoff)
    /\ pc = "waiting" => backoff <= LongestAsked

RetryInv == TypeOK /\ Counted /\ Justified /\ BackoffBounded /\ WaitsBounded /\ GivesUpAtTheLimit

(* Every error the function returns has the type of an error.              *)
LEMMA ErrorsTyped == FnErrors \subseteq Errors
<1>1. \A cause \in Causes : Plain(cause) \in Errors /\ NewSDKError(cause) \in Errors
  BY RetryAssumption DEF Plain, NewSDKError, Errors
<1>2. \A cause \in Causes, after \in RetryAfters : NewRetryableError(cause, after) \in Errors
  BY DEF NewRetryableError, Errors
<1>3. AnyErrors \subseteq Errors
  BY <1>1, <1>2 DEF AnyErrors
<1>4. "rate_limit" \in Causes /\ "other" \in Causes
  BY DEF Causes
<1>5. \A m \in ErrorResults : resultMessageToError(m) \in Errors
  BY <1>1, <1>2, <1>4, RetryAssumption DEF resultMessageToError
<1>6. QueryErrors \subseteq Errors
  BY <1>1, <1>4, <1>5 DEF QueryErrors
<1>. QED
  BY <1>3, <1>6 DEF FnErrors

(* A backoff that is scaled is a duration again.                           *)
LEMMA GrownTyped ==
    ASSUME config \in Configs, NEW d \in Nat
    PROVE  Grown(d) \in Nat /\ Grown(d) <= config.MaxBackoff
<1>1. config.BackoffFactor \in Nat /\ config.MaxBackoff \in Nat
  BY RetryAssumption DEF Configs
<1>2. d * config.BackoffFactor \in Nat
  BY <1>1
<1> DEFINE p == d * config.BackoffFactor
<1> HIDE DEF p
<1>3. p \div 100 \in Nat
  BY <1>2 DEF p
<1>. QED
  BY <1>1, <1>3 DEF Grown, p

(* Jitter moves a wait by at most a quarter.                               *)
LEMMA JitterBounded ==
    ASSUME NEW d \in Nat, NEW w \in Jittered(d)
    PROVE  w \in Nat /\ w <= (d * 125) \div 100 /\ w >= (d * 75) \div 100
BY DEF Jittered

(* Percentages keep the order of two durations.                            *)
LEMMA PercentMonotone ==
    ASSUME NEW a \in Int, NEW b \in Int, a <= b
    PROVE  /\ (a * 125) \div 100 <= (b * 125) \div 100
           /\ (a * 75) \div 100 <= (b * 75) \div 100
OBVIOUS

(* Only the rate limit makes an error of Query one to retry.               *)
LEMMA QueryRetriesRateLimit ==
    ASSUME config.fn = "query", NEW err \in FnErrors, IsRetryable(err)
    PROVE  err.cause = "rate_limit"
BY DEF FnErrors, QueryErrors, IsRetryable, Plain, NewSDKError, NewRetryableError,
     resultMessageToError

(* The longest wait asked for is a natural number.                         *)
LEMMA LongestTyped ==
    ASSUME TypeOK
    PROVE  /\ config.InitialBackoff \in Nat /\ config.MaxBackoff \in Nat
           /\ config.MaxRetries \in Int
           /\ GetRetryAfter(lastErr) \in Int
BY RetryAssumption DEF TypeOK, Configs, Errors, GetRetryAfter

LEMMA RetryInitInv == Init => RetryInv
<1> SUFFICES ASSUME Init PROVE RetryInv
  OBVIOUS
<1>1. TypeOK
  BY RetryAssumption DEF Init, TypeOK, Configs, Errors, Plain, Causes
<1>2. config.MaxRetries \in Int /\ config.InitialBackoff \in Nat /\ config.MaxBackoff \in Nat
  BY <1>1, LongestTyped
<1>3. Counted /\ Justified /\ BackoffBounded /\ WaitsBounded /\ GivesUpAtTheLimit
  BY <1>2 DEF Init, Counted, Justified, BackoffBounded, WaitsBounded, GivesUpAtTheLimit, Largest
<1>. QED
  BY <1>1, <1>3 DEF RetryInv

LEMMA CallFnKeeps == RetryInv /\ CallFn => RetryInv'
<1> SUFFICES ASSUME RetryInv, CallFn PROVE RetryInv'
  OBVIOUS
<1>1. TypeOK'
  BY DEF RetryInv, TypeOK, CallFn
<1>2. Counted'
  BY DEF RetryInv, TypeOK, CallFn, Counted
<1>3. Justified' /\ WaitsBounded' /\ GivesUpAtTheLimit'
  BY DEF RetryInv, CallFn, Counted, Justified, WaitsBounded, GivesUpAtTheLimit
<1>4. BackoffBounded'
  BY DEF RetryInv, CallFn, BackoffBounded
<1>. QED
  BY <1>1, <1>2, <1>3, <1>4 DEF RetryInv

LEMMA LoopEndsKeeps == RetryInv /\ LoopEnds => RetryInv'
<1> SUFFICES ASSUME RetryInv, LoopEnds PROVE RetryInv'
  OBVIOUS
<1>1. TypeOK'
  BY DEF RetryInv, TypeOK, LoopEnds
<1>2. Counted' /\ Justified' /\ BackoffBounded' /\ WaitsBounded'
  BY DEF LoopEnds, Counted, Justified, BackoffBounded, WaitsBounded
<1>3. calls = Largest(config.MaxRetries + 1, 0)
  BY LongestTyped DEF RetryInv, TypeOK, LoopEnds, Counted, Largest
<1>4. GivesUpAtTheLimit'
  BY <1>3 DEF RetryInv, LoopEnds, Justified, GivesUpAtTheLimit, Largest, IsRetryable
<1>. QED
  BY <1>1, <1>2, <1>4 DEF RetryInv

LEMMA FnSucceedsKeeps == RetryInv /\ FnSucceeds => RetryInv'
<1> SUFFICES ASSUME RetryInv, FnSucceeds PROVE RetryInv'
  OBVIOUS
<1>1. TypeOK'
  BY DEF RetryInv, TypeOK, FnSucceeds
<1>2. Counted' /\ Justified' /\ BackoffBounded' /\ WaitsBounded' /\ GivesUpAtTheLimit'
  BY DEF FnSucceeds, Counted, Justified, BackoffBounded, WaitsBounded, GivesUpAtTheLimit
<1>. QED
  BY <1>1, <1>2 DEF RetryInv

(* An error either ends the call or starts a wait.                         *)
LEMMA FnFailsKeeps ==
    ASSUME RetryInv, NEW err \in FnErrors, FnFails(err)
    PROVE  RetryInv'
<1> USE DEF RetryInv
<1>1. err \in Errors /\ lastErr' = err /\ config' = config
  BY ErrorsTyped DEF FnFails
<1>2. GetRetryAfter(err) \in Int
  BY <1>1, RetryAssumption DEF Errors, GetRetryAfter
<1>3. CASE ~IsRetryable(err)
  <2>1. pc' = "done" /\ result' = "error" /\ UNCHANGED <<backoff, wait>>
    BY <1>3 DEF FnFails
  <2>2. TypeOK'
    BY <1>1, <2>1 DEF FnFails, TypeOK
  <2>. QED
    BY <2>1, <2>2 DEF Counted, Justified, BackoffBounded, WaitsBounded, GivesUpAtTheLimit
<1>4. CASE IsRetryable(err) /\ LastAttempt
  <2>1. pc' = "done" /\ result' = "exhausted" /\ UNCHANGED <<backoff, wait, attempt, calls>>
    BY <1>4 DEF FnFails
  <2>2. TypeOK'
    BY <1>1, <2>1 DEF FnFails, TypeOK
  <2>3. calls = config.MaxRetries + 1 /\ config.MaxRetries + 1 > 0
    BY <1>4, LongestTyped DEF FnFails, Counted, LastAttempt, TypeOK
  <2>4. GivesUpAtTheLimit'
    BY <1>1, <1>4, <2>1, <2>3 DEF GivesUpAtTheLimit, Largest, IsRetryable
  <2>. QED
    BY <2>1, <2>2, <2>4 DEF Counted, Justified, BackoffBounded, WaitsBounded
<1>5. CASE IsRetryable(err) /\ ~LastAttempt
  <2>1. /\ pc' = "waiting" /\ UNCHANGED <<result, attempt, calls>>
        /\ backoff' = NextBackoff(err)
        /\ wait' \in Jittered(NextBackoff(err))
    BY <1>5 DEF FnFails
  <2>2. NextBackoff(err) \in Nat
    BY <1>2 DEF NextBackoff, TypeOK
  <2>3. /\ wait' \in Nat
        /\ wait' <= (NextBackoff(err) * 125) \div 100
        /\ wait' >= (NextBackoff(err) * 75) \div 100
    BY <2>1, <2>2, JitterBounded
  <2>4. TypeOK'
    BY <1>1, <2>1, <2>2, <2>3 DEF FnFails, TypeOK
  <2>5. Counted'
    BY <1>1, <1>5, <2>1, LongestTyped DEF FnFails, Counted, LastAttempt, TypeOK
  <2>6. Justified'
    BY <1>1, <1>5, <2>1 DEF Justified, IsRetryable, FnErrors, QueryErrors, AnyErrors
  <2>7. LongestAsked' \in Nat /\ NextBackoff(err) <= LongestAsked'
    <3>1. LongestAsked' = Largest(GetRetryAfter(err),
                                  Largest(config.InitialBackoff, config.MaxBackoff))
      BY <1>1 DEF LongestAsked, GetRetryAfter
    <3>2. backoff <= Largest(config.InitialBackoff, config.MaxBackoff)
      BY DEF BackoffBounded, FnFails
    <3>. QED
      BY <1>2, <3>1, <3>2, LongestTyped DEF Largest, NextBackoff, TypeOK
  <2>8. BackoffBounded'
    BY <2>1, <2>7 DEF BackoffBounded
  <2>9. WaitsBounded'
    <3>1. GetRetryAfter(err) <= NextBackoff(err)
      BY <1>2, <2>2 DEF NextBackoff
    <3>2. (NextBackoff(err) * 125) \div 100 <= (LongestAsked' * 125) \div 100
      BY <2>2, <2>7, PercentMonotone
    <3>3. (GetRetryAfter(err) * 75) \div 100 <= (NextBackoff(err) * 75) \div 100
      BY <1>2, <2>2, <3>1, PercentMonotone
    <3>4. /\ (NextBackoff(err) * 125) \div 100 \in Int /\ (LongestAsked' * 125) \div 100 \in Int
          /\ (GetRetryAfter(err) * 75) \div 100 \in Int /\ (NextBackoff(err) * 75) \div 100 \in Int
      BY <1>2, <2>2, <2>7
    <3>5. wait' <= (LongestAsked' * 125) \div 100
      BY <2>3, <3>2, <3>4
    <3>6. wait' >= (GetRetryAfter(err) * 75) \div 100
      BY <2>3, <3>3, <3>4
    <3>7. GetRetryAfter(lastErr)' = GetRetryAfter(err)
      BY <1>1 DEF GetRetryAfter
    <3>. QED
      BY <3>5, <3>6, <3>7 DEF WaitsBounded
  <2>10. GivesUpAtTheLimit'
    BY <2>1 DEF FnFails, Counted, GivesUpAtTheLimit
  <2>. QED
    BY <2>4, <2>5, <2>6, <2>8, <2>9, <2>10
<1>. QED
  BY <1>3, <1>4, <1>5

LEMMA WaitedKeeps == RetryInv /\ Waited => RetryInv'
<1> SUFFICES ASSUME RetryInv, Waited PROVE RetryInv'
  OBVIOUS
<1> USE DEF RetryInv
<1>1. Grown(backoff) \in Nat /\ Grown(backoff) <= config.MaxBackoff
  BY GrownTyped DEF TypeOK
<1>2. TypeOK'
  BY <1>1 DEF TypeOK, Waited
<1>3. Counted'
  BY LongestTyped DEF Counted, Waited, TypeOK, Largest
<1>4. Justified'
  BY DEF Justified, Waited, FnErrors, QueryErrors, AnyErrors, IsRetryable
<1>5. BackoffBounded'
  BY <1>1, LongestTyped DEF BackoffBounded, Waited, Largest
<1>6. WaitsBounded' /\ GivesUpAtTheLimit'
  BY DEF Waited, WaitsBounded, GivesUpAtTheLimit, Counted
<1>. QED
  BY <1>2, <1>3, <1>4, <1>5, <1>6

LEMMA CanceledKeeps == RetryInv /\ Canceled => RetryInv'
<1> SUFFICES ASSUME RetryInv, Canceled PROVE RetryInv'
  OBVIOUS
<1>1. TypeOK'
  BY DEF RetryInv, TypeOK, Canceled
<1>2. Counted' /\ Justified' /\ BackoffBounded' /\ WaitsBounded' /\ GivesUpAtTheLimit'
  BY DEF Canceled, Counted, Justified, BackoffBounded, WaitsBounded, GivesUpAtTheLimit
<1>. QED
  BY <1>1, <1>2 DEF RetryInv

LEMMA UnrelatedKeeps == RetryInv /\ (ContextEnds \/ UNCHANGED vars) => RetryInv'
<1> SUFFICES ASSUME RetryInv, ContextEnds \/ UNCHANGED vars PROVE RetryInv'
  OBVIOUS
<1>1. UNCHANGED <<config, attempt, backoff, wait, lastErr, pc, result, calls>> /\ ctxEnded' \in BOOLEAN
  BY DEF ContextEnds, vars, RetryInv, TypeOK
<1>2. TypeOK'
  BY <1>1 DEF RetryInv, TypeOK
<1>3. Counted' /\ GivesUpAtTheLimit'
  BY <1>1 DEF RetryInv, Counted, GivesUpAtTheLimit, IsRetryable
<1>4. Justified'
  BY <1>1 DEF RetryInv, Justified, FnErrors, QueryErrors, AnyErrors, IsRetryable
<1>5. BackoffBounded' /\ WaitsBounded'
  BY <1>1 DEF RetryInv, BackoffBounded, WaitsBounded, LongestAsked, GetRetryAfter
<1>. QED
  BY <1>2, <1>3, <1>4, <1>5 DEF RetryInv

LEMMA RetryNextInv == RetryInv /\ [Next]_vars => RetryInv'
BY CallFnKeeps, LoopEndsKeeps, FnSucceedsKeeps, FnFailsKeeps, WaitedKeeps, CanceledKeeps,
   UnrelatedKeeps DEF Next, FnReturns

(* Backoff, wait and count stay within the configuration of the call.      *)
THEOREM RetryInvariant == Spec => []RetryInv
BY RetryInitInv, RetryNextInv, PTL DEF Spec

(* Under every configuration and whatever errors the function returns, the *)
(* durations WithRetry computes are never negative.                        *)
THEOREM RetryTypeCorrect == Spec => []TypeOK
<1>1. RetryInv => TypeOK
  BY DEF RetryInv
<1>. QED
  BY <1>1, RetryInvariant, PTL

(* No wait is more than a quarter longer than the longest that was asked   *)
(* for, nor more than a quarter shorter than RetryAfter.                   *)
THEOREM WaitsAreBounded == Spec => []WaitsBounded
<1>1. RetryInv => WaitsBounded
  BY DEF RetryInv
<1>. QED
  BY <1>1, RetryInvariant, PTL

(* WithRetry gives up after exactly the attempts it is configured for.     *)
THEOREM RetriesAreCounted == Spec => []GivesUpAtTheLimit
<1>1. RetryInv => GivesUpAtTheLimit
  BY DEF RetryInv
<1>. QED
  BY <1>1, RetryInvariant, PTL

(* The function is called again only after an error to retry, which for    *)
(* Query is the rate limit, and at most MaxRetries times.                  *)
THEOREM OnlyRetryable == Spec => OnlyRetryableRetried
<1> DEFINE A == calls' # calls =>
                  /\ calls' <= config.MaxRetries + 1
                  /\ calls > 0 =>
                      /\ IsRetryable(lastErr)
                      /\ config.fn = "query" => lastErr.cause = "rate_limit"
<1>1. ASSUME RetryInv, Next, calls' # calls PROVE A
  <2>1. CallFn
    BY <1>1 DEF Next, LoopEnds, FnReturns, FnSucceeds, FnFails, Waited, Canceled, ContextEnds
  <2>2. calls' <= config.MaxRetries + 1
    BY <1>1, <2>1, LongestTyped DEF RetryInv, Counted, CallFn, TypeOK
  <2>3. calls > 0 => IsRetryable(lastErr) /\ lastErr \in FnErrors
    BY <1>1, <2>1 DEF RetryInv, Justified, CallFn
  <2>. QED
    BY <2>2, <2>3, QueryRetriesRateLimit
<1>2. RetryInv /\ [Next]_vars => [A]_vars
  BY <1>1 DEF vars
<1>. QED
  BY <1>2, RetryInvariant, PTL DEF Spec, OnlyRetryableRetried

-----------------------------------------------------------------------------
(* Permission, for any goroutines, rules and numbers of them: the copies    *)
(* that Evaluate makes under the lock were in force together, and what is  *)
(* decided from them is the decision of that configuration.                *)

\* The configuration that a call of Evaluate has copied.
Copied(e) == [mode |-> evals[e].mode, rules |-> evals[e].rules, cb |-> evals[e].cb]

\* The rules that were tried do not decide.
NoneBefore(e) ==
    \A j \in DOMAIN evals[e].rules : j < evals[e].i => j \notin Deciding(Copied(e), evals[e].tool)

CopySeen ==
    \A e \in Evaluators :
        /\ evals[e].pc = "entered" => Configuration \in evals[e].seen
        /\ evals[e].pc \in {"rules", "callback"} => Copied(e) \in evals[e].seen
        /\ evals[e].pc = "rules" => NoneBefore(e)
        /\ evals[e].pc = "callback" => Decision(Copied(e), evals[e].tool) = [by |-> "callback"]

\* The inductive invariant.
PermissionInv == PermissionTypeOK /\ CopySeen /\ OneConfigurationDecides

-----------------------------------------------------------------------------
(* The lists of rules are the sequences of at most MaxRules rules.         *)
LEMMA RuleListsAreSequences ==
    ASSUME PermissionAssumption, NEW s
    PROVE  s \in RuleLists <=> s \in Seq(Rules) /\ Len(s) <= MaxRules
<1>1. ASSUME s \in RuleLists PROVE s \in Seq(Rules) /\ Len(s) <= MaxRules
  <2>1. PICK n \in 0 .. MaxRules : s \in [1 .. n -> Rules]
    BY <1>1 DEF RuleLists
  <2>. QED
    BY <2>1 DEF PermissionAssumption
<1>2. ASSUME s \in Seq(Rules), Len(s) <= MaxRules PROVE s \in RuleLists
  <2>1. s \in [1 .. Len(s) -> Rules] /\ Len(s) \in 0 .. MaxRules
    BY <1>2 DEF PermissionAssumption
  <2>. QED
    BY <2>1 DEF RuleLists
<1>. QED
  BY <1>1, <1>2

(* Append keeps a list of rules a list of rules, if there is room.         *)
LEMMA AddRuleTyped ==
    ASSUME PermissionAssumption, NEW s \in RuleLists, NEW rule \in Rules, Len(s) < MaxRules
    PROVE  Append(s, rule) \in RuleLists
<1>1. s \in Seq(Rules)
  BY RuleListsAreSequences
<1>2. Append(s, rule) \in Seq(Rules) /\ Len(Append(s, rule)) <= MaxRules
  BY <1>1 DEF PermissionAssumption
<1>. QED
  BY <1>2, RuleListsAreSequences

(* Every record that TypeOK allows has the fields of its step.             *)
LEMMA EvalFields ==
    ASSUME PermissionTypeOK, NEW e \in Evaluators
    PROVE  /\ evals[e].pc \in {"idle", "entered", "rules", "callback", "done"}
           /\ evals[e].pc = "entered" =>
                 evals[e] \in [pc : {"entered"}, tool : Tools, seen : SUBSET Configurations]
           /\ evals[e].pc \in {"rules", "callback"} =>
                 evals[e] \in [pc : {"rules", "callback"}, tool : Tools,
                               seen : SUBSET Configurations, mode : Modes, rules : RuleLists,
                               cb : BOOLEAN, i : 1 .. MaxRules + 1]
           /\ evals[e].pc = "done" =>
                 evals[e] \in [pc : {"done"}, tool : Tools, seen : SUBSET Configurations,
                               result : Results]
BY DEF PermissionTypeOK, EvalTypes

LEMMA PermissionInitInv ==
    ASSUME PermissionInit, PermissionAssumption
    PROVE  PermissionInv
<1>1. <<>> \in RuleLists
  <2>1. <<>> \in [1 .. 0 -> Rules] /\ 0 \in 0 .. MaxRules
    BY DEF PermissionAssumption
  <2>. QED
    BY <2>1 DEF RuleLists
<1>2. Configuration \in Configurations
  BY <1>1 DEF PermissionInit, Configuration, Configurations
<1>3. evals \in [Evaluators -> EvalTypes] /\ \A e \in Evaluators : evals[e].pc = "idle"
  BY DEF PermissionInit, EvalTypes, NotCalled
<1>4. ruleChanges \in 0 .. MaxRuleChanges
  BY DEF PermissionInit, PermissionAssumption
<1>. QED
  BY <1>2, <1>3, <1>4 DEF PermissionInv, PermissionTypeOK, CopySeen, OneConfigurationDecides

(* A change of the manager is added to what the calls in progress may have *)
(* seen; their copies stay what they are.                                  *)
LEMMA ChangeInv ==
    ASSUME PermissionAssumption, PermissionInv, Configuration' \in Configurations, ChangeManager
    PROVE  PermissionInv'
<1>1. ruleChanges' \in 0 .. MaxRuleChanges
  BY DEF PermissionInv, PermissionTypeOK, PermissionAssumption, ChangeManager
<1>2. ASSUME NEW e \in Evaluators, evals[e].pc \in {"idle", "done"}
      PROVE  evals'[e] = evals[e]
  BY <1>2 DEF ChangeManager, SeenMeanwhile
<1>3. ASSUME NEW e \in Evaluators, evals[e].pc \in {"entered", "rules", "callback"}
      PROVE  /\ evals'[e] = [evals[e] EXCEPT !.seen = evals[e].seen \cup {Configuration'}]
             /\ evals'[e].pc = evals[e].pc /\ evals'[e].tool = evals[e].tool
             /\ evals'[e].seen = evals[e].seen \cup {Configuration'}
             /\ evals[e].pc \in {"rules", "callback"} =>
                   /\ evals'[e].mode = evals[e].mode /\ evals'[e].rules = evals[e].rules
                   /\ evals'[e].cb = evals[e].cb /\ evals'[e].i = evals[e].i
  <2>1. evals'[e] = [evals[e] EXCEPT !.seen = evals[e].seen \cup {Configuration'}]
    BY <1>3 DEF ChangeManager, SeenMeanwhile
  <2>2. CASE evals[e].pc = "entered"
    <3>1. evals[e] \in [pc : {"entered"}, tool : Tools, seen : SUBSET Configurations]
      BY <2>2, EvalFields DEF PermissionInv
    <3>. QED
      BY <2>1, <2>2, <3>1
  <2>3. CASE evals[e].pc \in {"rules", "callback"}
    <3>1. evals[e] \in [pc : {"rules", "callback"}, tool : Tools,
                        seen : SUBSET Configurations, mode : Modes, rules : RuleLists,
                        cb : BOOLEAN, i : 1 .. MaxRules + 1]
      BY <2>3, EvalFields DEF PermissionInv
    <3>. QED
      BY <2>1, <2>3, <3>1
  <2>. QED
    BY <1>3, <2>2, <2>3
<1>4. \A e \in Evaluators : evals'[e] \in EvalTypes
  <2>. SUFFICES ASSUME NEW e \in Evaluators PROVE evals'[e] \in EvalTypes
    OBVIOUS
  <2>1. CASE evals[e].pc \in {"idle", "done"}
    BY <1>2, <2>1 DEF PermissionInv, PermissionTypeOK
  <2>2. CASE evals[e].pc = "entered"
    <3>1. evals[e] \in [pc : {"entered"}, tool : Tools, seen : SUBSET Configurations]
      BY <2>2, EvalFields DEF PermissionInv
    <3>2. evals'[e] \in [pc : {"entered"}, tool : Tools, seen : SUBSET Configurations]
      BY ZenonT(60), <1>3, <2>2, <3>1
    <3>. QED
      BY <3>2 DEF EvalTypes
  <2>3. CASE evals[e].pc \in {"rules", "callback"}
    <3>1. evals[e] \in [pc : {"rules", "callback"}, tool : Tools,
                        seen : SUBSET Configurations, mode : Modes, rules : RuleLists,
                        cb : BOOLEAN, i : 1 .. MaxRules + 1]
      BY <2>3, EvalFields DEF PermissionInv
    <3>2. evals'[e] \in [pc : {"rules", "callback"}, tool : Tools,
                         seen : SUBSET Configurations, mode : Modes, rules : RuleLists,
                         cb : BOOLEAN, i : 1 .. MaxRules + 1]
      BY ZenonT(60), <1>3, <2>3, <3>1
    <3>. QED
      BY <3>2 DEF EvalTypes
  <2>. QED
    BY <2>1, <2>2, <2>3, EvalFields DEF PermissionInv
<1>5. PermissionTypeOK'
  BY <1>1, <1>4 DEF PermissionInv, PermissionTypeOK, ChangeManager, SeenMeanwhile
<1>6. CopySeen'
  <2>. SUFFICES ASSUME NEW e \in Evaluators
                PROVE  /\ evals'[e].pc = "entered" => Configuration' \in evals'[e].seen
                       /\ evals'[e].pc \in {"rules", "callback"} => Copied(e)' \in evals'[e].seen
                       /\ evals'[e].pc = "rules" => NoneBefore(e)'
                       /\ evals'[e].pc = "callback" =>
                             Decision(Copied(e)', evals'[e].tool) = [by |-> "callback"]
    BY DEF CopySeen
  <2>1. CASE evals[e].pc \in {"idle", "done"}
    BY <1>2, <2>1
  <2>2. CASE evals[e].pc = "entered"
    BY <1>3, <2>2
  <2>3. CASE evals[e].pc \in {"rules", "callback"}
    <3>1. Copied(e)' = Copied(e)
      BY <1>3, <2>3 DEF Copied
    <3>2. NoneBefore(e)' <=> NoneBefore(e)
      BY <1>3, <2>3, <3>1 DEF NoneBefore
    <3>. QED
      BY <1>3, <2>3, <3>1, <3>2 DEF PermissionInv, CopySeen
  <2>. QED
    BY <2>1, <2>2, <2>3, EvalFields DEF PermissionInv
<1>7. OneConfigurationDecides'
  <2>. SUFFICES ASSUME NEW e \in Evaluators, evals'[e].pc = "done"
                PROVE  evals'[e] = evals[e]
    BY DEF PermissionInv, OneConfigurationDecides
  <2>1. evals[e].pc \in {"idle", "done"}
    BY <1>3, EvalFields DEF PermissionInv
  <2>. QED
    BY <1>2, <2>1
<1>. QED
  BY <1>5, <1>6, <1>7 DEF PermissionInv

(* A step of Evaluate touches the call of one goroutine: it keeps the      *)
(* invariant if what it leaves there does.                                 *)
Decided(r) ==
    r.pc = "done" => \E c \in r.seen : r.result = Decision(c, r.tool)

LEMMA EvaluatorInv ==
    ASSUME PermissionInv, NEW e \in Evaluators, NEW r \in EvalTypes, SetEval(e, r),
           UNCHANGED <<mode, rules, canUseTool, ruleChanges>>,
           r.pc = "entered" => Configuration \in r.seen,
           r.pc \in {"rules", "callback"} => Copied(e)' \in r.seen,
           r.pc = "rules" => NoneBefore(e)',
           r.pc = "callback" => Decision(Copied(e)', r.tool) = [by |-> "callback"],
           Decided(r)
    PROVE  PermissionInv'
<1>1. /\ evals'[e] = r
      /\ \A d \in Evaluators \ {e} : evals'[d] = evals[d]
      /\ evals' \in [Evaluators -> EvalTypes]
  BY DEF PermissionInv, PermissionTypeOK, SetEval
<1>2. Configuration' = Configuration
  BY DEF Configuration
<1>3. PermissionTypeOK'
  BY <1>1, <1>2 DEF PermissionInv, PermissionTypeOK
<1>4. CopySeen'
  <2>. SUFFICES ASSUME NEW d \in Evaluators
                PROVE  /\ evals'[d].pc = "entered" => Configuration' \in evals'[d].seen
                       /\ evals'[d].pc \in {"rules", "callback"} => Copied(d)' \in evals'[d].seen
                       /\ evals'[d].pc = "rules" => NoneBefore(d)'
                       /\ evals'[d].pc = "callback" =>
                             Decision(Copied(d)', evals'[d].tool) = [by |-> "callback"]
    BY DEF CopySeen
  <2>1. CASE d = e
    BY <1>1, <1>2, <2>1
  <2>2. CASE d # e
    <3>1. evals'[d] = evals[d]
      BY <1>1, <2>2
    <3>2. Copied(d)' = Copied(d) /\ NoneBefore(d)' = NoneBefore(d)
      BY <3>1 DEF Copied, NoneBefore
    <3>. QED
      BY <1>2, <3>1, <3>2 DEF PermissionInv, CopySeen
  <2>. QED
    BY <2>1, <2>2
<1>5. OneConfigurationDecides'
  BY <1>1 DEF PermissionInv, OneConfigurationDecides, Decided
<1>. QED
  BY <1>3, <1>4, <1>5 DEF PermissionInv

-----------------------------------------------------------------------------
(* The steps of Evaluate.                                                  *)

LEMMA EvaluateInv ==
    ASSUME PermissionInv, NEW e \in Evaluators, NEW tool \in Tools, Evaluate(e, tool)
    PROVE  PermissionInv'
<1> DEFINE r == [pc |-> "entered", tool |-> tool, seen |-> {Configuration}]
<1>1. r \in EvalTypes
  BY DEF PermissionInv, PermissionTypeOK, EvalTypes
<1>2. SetEval(e, r) /\ UNCHANGED <<mode, rules, canUseTool, ruleChanges>>
  BY DEF Evaluate
<1>. QED
  BY <1>1, <1>2, EvaluatorInv DEF Decided

LEMMA SnapshotInv ==
    ASSUME PermissionAssumption, PermissionInv, NEW e \in Evaluators, Snapshot(e)
    PROVE  PermissionInv'
<1> DEFINE r == [pc |-> "rules", tool |-> evals[e].tool, seen |-> evals[e].seen,
                 mode |-> mode, rules |-> rules, cb |-> canUseTool, i |-> 1]
<1>1. evals[e] \in [pc : {"entered"}, tool : Tools, seen : SUBSET Configurations]
  BY EvalFields DEF PermissionInv, Snapshot
<1>2. mode \in Modes /\ rules \in RuleLists /\ canUseTool \in BOOLEAN
  BY DEF PermissionInv, PermissionTypeOK, Configuration, Configurations
<1>3. r \in EvalTypes
  BY <1>1, <1>2 DEF EvalTypes, PermissionAssumption
<1>4. SetEval(e, r) /\ UNCHANGED <<mode, rules, canUseTool, ruleChanges>>
  BY DEF Snapshot
<1>5. evals'[e] = r
  BY <1>4 DEF PermissionInv, PermissionTypeOK, SetEval
<1>6. Copied(e)' = Configuration
  BY <1>5 DEF Copied, Configuration
<1>7. Configuration \in r.seen
  BY DEF PermissionInv, CopySeen, Snapshot
<1>8. NoneBefore(e)'
  <2>1. \A j \in DOMAIN rules : ~(j < 1)
    BY <1>2 DEF RuleLists
  <2>. QED
    BY <1>5, <2>1 DEF NoneBefore
<1>. QED
  BY <1>3, <1>4, <1>6, <1>7, <1>8, EvaluatorInv DEF Decided

(* A call that has its copies.                                             *)
LEMMA WithCopies ==
    ASSUME PermissionInv, NEW e \in Evaluators, evals[e].pc \in {"rules", "callback"}
    PROVE  /\ evals[e] \in [pc : {"rules", "callback"}, tool : Tools,
                             seen : SUBSET Configurations, mode : Modes, rules : RuleLists,
                             cb : BOOLEAN, i : 1 .. MaxRules + 1]
           /\ Copied(e) \in evals[e].seen
           /\ evals[e].pc = "rules" => NoneBefore(e)
BY EvalFields DEF PermissionInv, CopySeen

(* What a call with its copies decides as they do, it may return.          *)
LEMMA FinishInv ==
    ASSUME PermissionInv, NEW e \in Evaluators, evals[e].pc \in {"rules", "callback"},
           NEW answer \in Results, Finish(e, answer),
           UNCHANGED <<mode, rules, canUseTool, ruleChanges>>,
           answer = Decision(Copied(e), evals[e].tool)
    PROVE  PermissionInv'
<1> DEFINE r == [pc |-> "done", tool |-> evals[e].tool, seen |-> evals[e].seen,
                 result |-> answer]
<1>1. evals[e].tool \in Tools /\ evals[e].seen \in SUBSET Configurations
  BY WithCopies
<1>2. r \in EvalTypes
  BY <1>1 DEF EvalTypes
<1>3. SetEval(e, r)
  BY DEF Finish
<1>4. Decided(r)
  BY WithCopies DEF Decided
<1>. QED
  BY <1>2, <1>3, <1>4, EvaluatorInv

LEMMA BypassInv ==
    ASSUME PermissionInv, NEW e \in Evaluators, Bypass(e)
    PROVE  PermissionInv'
<1> DEFINE answer == [by |-> "mode", allow |-> TRUE]
<1>1. answer \in Results
  BY DEF Results
<1>2. answer = Decision(Copied(e), evals[e].tool)
  BY DEF Bypass, Decision, Copied
<1>. QED
  BY <1>1, <1>2, FinishInv DEF Bypass

(* A list of rules has its rules at 1 to its length.                       *)
LEMMA RulesOf ==
    ASSUME PermissionAssumption, NEW s \in RuleLists
    PROVE  /\ Len(s) \in Nat /\ Len(s) <= MaxRules /\ DOMAIN s = 1 .. Len(s)
           /\ \A i \in 1 .. Len(s) : s[i].behavior \in {"allow", "deny", "ask"}
<1>1. s \in Seq(Rules) /\ Len(s) <= MaxRules
  BY RuleListsAreSequences
<1>. QED
  BY <1>1 DEF PermissionAssumption

LEMMA TryRuleInv ==
    ASSUME PermissionAssumption, PermissionInv, NEW e \in Evaluators, TryRule(e)
    PROVE  PermissionInv'
<1> DEFINE rule == evals[e].rules[evals[e].i]
           tool == evals[e].tool
           c == Copied(e)
<1>1. /\ evals[e].pc = "rules" /\ evals[e].mode # "bypassPermissions"
      /\ evals[e].i <= Len(evals[e].rules)
      /\ UNCHANGED <<mode, rules, canUseTool, ruleChanges>>
  BY DEF TryRule, InRules
<1>2. /\ evals[e] \in [pc : {"rules", "callback"}, tool : Tools,
                        seen : SUBSET Configurations, mode : Modes, rules : RuleLists,
                        cb : BOOLEAN, i : 1 .. MaxRules + 1]
      /\ c \in evals[e].seen /\ NoneBefore(e)
  BY <1>1, WithCopies
<1>3. /\ Len(evals[e].rules) \in Nat /\ Len(evals[e].rules) <= MaxRules
      /\ DOMAIN evals[e].rules = 1 .. Len(evals[e].rules)
      /\ evals[e].i \in 1 .. Len(evals[e].rules)
      /\ rule.behavior \in {"allow", "deny", "ask"}
  BY <1>1, <1>2, RulesOf
<1>4. c.rules = evals[e].rules /\ c.mode = evals[e].mode /\ c.cb = evals[e].cb
  BY DEF Copied
<1>5. CASE matches(rule, tool) /\ rule.behavior \in {"allow", "deny"}
  <2> DEFINE answer == [by |-> "rule", allow |-> rule.behavior = "allow"]
  <2>1. answer \in Results
    BY DEF Results
  <2>2. evals[e].i \in Deciding(c, tool)
    BY <1>3, <1>4, <1>5 DEF Deciding
  <2>3. \A j \in Deciding(c, tool) : evals[e].i <= j
    BY <1>2, <1>3, <1>4 DEF NoneBefore, Deciding
  <2>4. Denied(c, tool) <=> rule.behavior = "deny"
    <3>1. ASSUME NEW i \in Deciding(c, tool), \A j \in Deciding(c, tool) : i <= j
          PROVE  i = evals[e].i
      BY <1>3, <1>4, <2>2, <2>3, <3>1 DEF Deciding
    <3>. QED
      BY <1>4, <2>2, <2>3, <3>1 DEF Denied
  <2>5. answer = Decision(c, tool)
    BY <1>1, <1>4, <1>5, <2>2, <2>4 DEF Decision
  <2>6. Finish(e, answer)
    BY <1>5 DEF TryRule
  <2>. QED
    BY <1>1, <2>1, <2>5, <2>6, FinishInv
<1>6. CASE ~(matches(rule, tool) /\ rule.behavior \in {"allow", "deny"})
  <2> DEFINE r == [evals[e] EXCEPT !.i = evals[e].i + 1]
  <2>1. SetEval(e, r)
    BY <1>6 DEF TryRule
  <2>2. /\ r.pc = "rules" /\ r.tool = tool /\ r.seen = evals[e].seen
        /\ r.mode = evals[e].mode /\ r.rules = evals[e].rules /\ r.cb = evals[e].cb
        /\ r.i = evals[e].i + 1
    BY <1>1, <1>2
  <2>3. r \in EvalTypes
    <3>1. evals[e].i + 1 \in 1 .. MaxRules + 1
      BY <1>3 DEF PermissionAssumption
    <3>2. r \in [pc : {"rules", "callback"}, tool : Tools,
                 seen : SUBSET Configurations, mode : Modes, rules : RuleLists,
                 cb : BOOLEAN, i : 1 .. MaxRules + 1]
      BY <1>2, <3>1
    <3>. QED
      BY <3>2 DEF EvalTypes
  <2>4. evals'[e] = r
    BY <2>1 DEF PermissionInv, PermissionTypeOK, SetEval
  <2> HIDE DEF r
  <2>5. Copied(e)' = c
    BY <2>2, <2>4 DEF Copied
  <2>6. evals[e].i \notin Deciding(c, tool)
    BY <1>3, <1>4, <1>6 DEF Deciding
  <2>7. NoneBefore(e)'
    <3>. SUFFICES ASSUME NEW j \in DOMAIN evals[e].rules, j < evals[e].i + 1
                  PROVE  j \notin Deciding(c, tool)
      BY <2>2, <2>4, <2>5 DEF NoneBefore
    <3>1. j < evals[e].i \/ j = evals[e].i
      BY <1>3
    <3>. QED
      BY <1>2, <2>6, <3>1 DEF NoneBefore
  <2>. QED
    BY <1>1, <1>2, <2>1, <2>2, <2>3, <2>5, <2>7, EvaluatorInv DEF Decided
<1>. QED
  BY <1>5, <1>6

(* When all rules were tried, none of them decides.                        *)
LEMMA NoRuleDecides ==
    ASSUME PermissionAssumption, PermissionInv, NEW e \in Evaluators, AfterRules(e)
    PROVE  /\ Deciding(Copied(e), evals[e].tool) = {}
           /\ Copied(e).mode = evals[e].mode /\ Copied(e).cb = evals[e].cb
           /\ evals[e].mode # "bypassPermissions"
<1>1. evals[e].rules \in RuleLists /\ evals[e].i \in Nat /\ NoneBefore(e)
      /\ evals[e].i > Len(evals[e].rules) /\ evals[e].mode # "bypassPermissions"
  BY WithCopies DEF AfterRules, PermissionAssumption
<1>2. /\ Copied(e).rules = evals[e].rules
      /\ Copied(e).mode = evals[e].mode /\ Copied(e).cb = evals[e].cb
  BY DEF Copied
<1>3. \A j \in DOMAIN evals[e].rules : j < evals[e].i
  BY <1>1, RulesOf
<1>. QED
  BY <1>1, <1>2, <1>3 DEF NoneBefore, Deciding

LEMMA CallBackInv ==
    ASSUME PermissionAssumption, PermissionInv, NEW e \in Evaluators, CallBack(e)
    PROVE  PermissionInv'
<1> DEFINE r == [evals[e] EXCEPT !.pc = "callback"]
<1>1. /\ AfterRules(e) /\ evals[e].pc = "rules" /\ evals[e].cb /\ SetEval(e, r)
      /\ UNCHANGED <<mode, rules, canUseTool, ruleChanges>>
  BY DEF CallBack, AfterRules
<1>2. /\ evals[e] \in [pc : {"rules", "callback"}, tool : Tools,
                        seen : SUBSET Configurations, mode : Modes, rules : RuleLists,
                        cb : BOOLEAN, i : 1 .. MaxRules + 1]
      /\ Copied(e) \in evals[e].seen
  BY <1>1, WithCopies
<1>3. /\ r.pc = "callback" /\ r.tool = evals[e].tool /\ r.seen = evals[e].seen
      /\ r.mode = evals[e].mode /\ r.rules = evals[e].rules /\ r.cb = evals[e].cb
  BY <1>2
<1>4. r \in EvalTypes
  <2>1. r \in [pc : {"rules", "callback"}, tool : Tools, seen : SUBSET Configurations,
               mode : Modes, rules : RuleLists, cb : BOOLEAN, i : 1 .. MaxRules + 1]
    BY <1>2
  <2>. QED
    BY <2>1 DEF EvalTypes
<1>5. evals'[e] = r
  BY <1>1 DEF PermissionInv, PermissionTypeOK, SetEval
<1> HIDE DEF r
<1>6. Copied(e)' = Copied(e)
  BY <1>3, <1>5 DEF Copied
<1>7. Decision(Copied(e), evals[e].tool) = [by |-> "callback"]
  BY <1>1, NoRuleDecides DEF Decision
<1>. QED
  BY <1>1, <1>2, <1>3, <1>4, <1>6, <1>7, EvaluatorInv DEF Decided

LEMMA CallbackReturnsInv ==
    ASSUME PermissionInv, NEW e \in Evaluators, CallbackReturns(e)
    PROVE  PermissionInv'
<1>1. [by |-> "callback"] \in Results
  BY DEF Results
<1>2. Decision(Copied(e), evals[e].tool) = [by |-> "callback"]
  BY DEF PermissionInv, CopySeen, CallbackReturns
<1>. QED
  BY <1>1, <1>2, FinishInv DEF CallbackReturns

LEMMA ModeDecidesInv ==
    ASSUME PermissionAssumption, PermissionInv, NEW e \in Evaluators, ModeDecides(e)
    PROVE  PermissionInv'
<1> DEFINE answer == [by |-> "mode",
                      allow |-> evals[e].mode # "plan" \/ isReadOnlyTool(evals[e].tool)]
<1>1. answer \in Results
  BY DEF Results, isReadOnlyTool
<1>2. AfterRules(e) /\ evals[e].pc = "rules" /\ ~evals[e].cb
  BY DEF ModeDecides, AfterRules
<1>3. answer = Decision(Copied(e), evals[e].tool)
  BY <1>2, NoRuleDecides DEF Decision
<1>4. Finish(e, answer) /\ UNCHANGED <<mode, rules, canUseTool, ruleChanges>>
  BY DEF ModeDecides
<1> HIDE DEF answer
<1>. QED
  BY <1>1, <1>2, <1>3, <1>4, FinishInv

-----------------------------------------------------------------------------
(* Every step of the manager and of Evaluate keeps the invariant.          *)
LEMMA PermissionNextInv ==
    ASSUME PermissionAssumption, PermissionInv, [PermissionNext]_permissionVars
    PROVE  PermissionInv'
<1>1. mode \in Modes /\ rules \in RuleLists /\ canUseTool \in BOOLEAN
  BY DEF PermissionInv, PermissionTypeOK, Configuration, Configurations
<1>2. ASSUME NEW m \in Modes, SetMode(m) PROVE PermissionInv'
  BY <1>1, <1>2, ChangeInv DEF SetMode, Configuration, Configurations
<1>3. ASSUME NEW cb \in BOOLEAN, SetCanUseToolCallback(cb) PROVE PermissionInv'
  BY <1>1, <1>3, ChangeInv DEF SetCanUseToolCallback, Configuration, Configurations
<1>4. ASSUME NEW rule \in Rules, AddRule(rule) PROVE PermissionInv'
  <2>1. Append(rules, rule) \in RuleLists
    BY <1>1, <1>4, AddRuleTyped DEF AddRule
  <2>. QED
    BY <1>1, <1>4, <2>1, ChangeInv DEF AddRule, Configuration, Configurations
<1>5. ASSUME ClearRules PROVE PermissionInv'
  <2>1. <<>> \in [1 .. 0 -> Rules] /\ 0 \in 0 .. MaxRules
    BY DEF PermissionAssumption
  <2>. QED
    BY <1>1, <1>5, <2>1, ChangeInv DEF ClearRules, Configuration, Configurations, RuleLists
<1>6. ASSUME NEW e \in Evaluators, EvaluateStep(e) PROVE PermissionInv'
  BY <1>6, EvaluateInv, SnapshotInv, BypassInv, TryRuleInv, CallBackInv, CallbackReturnsInv,
     ModeDecidesInv DEF EvaluateStep
<1>7. ASSUME UNCHANGED permissionVars PROVE PermissionInv'
  BY <1>7 DEF permissionVars, PermissionInv, PermissionTypeOK, CopySeen, NoneBefore, Copied,
     OneConfigurationDecides, Configuration
<1>. QED
  BY <1>2, <1>3, <1>4, <1>5, <1>6, <1>7 DEF PermissionNext

(* The inductive invariant holds in every behaviour of the manager.        *)
THEOREM PermissionInvariant ==
    ASSUME PermissionAssumption
    PROVE  PermissionSpec => []PermissionInv
<1>1. PermissionInit => PermissionInv
  BY PermissionInitInv
<1>2. PermissionInv /\ [PermissionNext]_permissionVars => PermissionInv'
  BY PermissionNextInv
<1>. QED
  BY <1>1, <1>2, PTL DEF PermissionSpec

(* Every variable of the manager, and every call of Evaluate, has its type *)
(* at any time, however many rules and goroutines there are.               *)
THEOREM PermissionTypeCorrect ==
    ASSUME PermissionAssumption
    PROVE  PermissionSpec => []PermissionTypeOK
<1>1. PermissionInv => PermissionTypeOK
  BY DEF PermissionInv
<1>. QED
  BY <1>1, PermissionInvariant, PTL

(* Evaluate: its answer is the decision of one configuration that was in   *)
(* force between its call and its return, whatever SetMode, AddRule,       *)
(* ClearRules and SetCanUseToolCallback do meanwhile.                      *)
THEOREM EvaluateIsAtomic ==
    ASSUME PermissionAssumption
    PROVE  PermissionSpec => []OneConfigurationDecides
<1>1. PermissionInv => OneConfigurationDecides
  BY DEF PermissionInv
<1>. QED
  BY <1>1, PermissionInvariant, PTL

-----------------------------------------------------------------------------
(* The composition.  A step of one part changes no variable of another, so  *)
(* that each part behaves as it does alone.                                *)

HP == INSTANCE Hooks_proofs WITH changes <- hookChanges, crashed <- hooksCrashed,
                                 MaxChanges <- MaxHookChanges

(* Both instances of Hooks name the same behaviours and the same property. *)
LEMMA HooksOfComposition ==
    /\ H!Init => HP!Init
    /\ [H!Next]_hooksVars => [HP!Next]_(HP!vars)
    /\ HP!TypeOK => H!TypeOK
    /\ HP!HooksInOrder => H!HooksInOrder
    /\ HP!HooksAssumption
<1>1. H!Init => HP!Init
  BY DEF H!Init, HP!Init, H!Idle, HP!Idle, H!NoShell, HP!NoShell
<1>2. [H!Next]_hooksVars => [HP!Next]_(HP!vars)
  BY DEF hooksVars, HP!vars, H!Next, HP!Next, H!Register, HP!Register, H!convertHookEntry,
     HP!convertHookEntry, H!NewMatcher, HP!NewMatcher, H!Clear, HP!Clear, H!TriggerStep,
     HP!TriggerStep, H!Trigger, HP!Trigger, H!Skip, HP!Skip, H!CallCallback, HP!CallCallback,
     H!StartCommand, HP!StartCommand, H!StartFails, HP!StartFails, H!CallbackReturns,
     HP!CallbackReturns, H!RunReturns, HP!RunReturns, H!TriggerReturns, HP!TriggerReturns,
     H!CallbackReturnsNil, HP!CallbackReturnsNil, H!ContextDone, HP!ContextDone,
     H!CommandStep, HP!CommandStep, H!ShellSpawns, HP!ShellSpawns, H!ShellExits,
     HP!ShellExits, H!ShellKilled, HP!ShellKilled, H!ChildrenEnd, HP!ChildrenEnd,
     H!Goto, HP!Goto, H!Said, HP!Said, H!InLoop, HP!InLoop, H!Entry, HP!Entry, H!Runs,
     HP!Runs, H!Match, HP!Match, H!OutputOf, HP!OutputOf, H!parseSuccessOutput,
     HP!parseSuccessOutput, H!NoShell, HP!NoShell, H!ExitCodes, HP!ExitCodes, H!Printed,
     HP!Printed
<1>3. HP!TypeOK => H!TypeOK
  BY DEF H!TypeOK, HP!TypeOK, H!EntryLists, HP!EntryLists, H!convertHookEntry,
     HP!convertHookEntry, H!NewMatcher, HP!NewMatcher, H!Shells, HP!Shells, H!NoShell,
     HP!NoShell, H!ExitCodes, HP!ExitCodes, H!Printed, HP!Printed
<1>4. HP!HooksInOrder => H!HooksInOrder
  BY DEF H!HooksInOrder, HP!HooksInOrder, H!Runs, HP!Runs, H!Match, HP!Match
<1>5. HP!HooksAssumption
  BY DecisionsAssumption DEF H!HooksAssumption, HP!HooksAssumption
<1>. QED
  BY <1>1, <1>2, <1>3, <1>4, <1>5

LEMMA PartsStep ==
    ASSUME [DecisionsNext]_allVars
    PROVE  /\ [Next]_vars /\ [PermissionNext]_permissionVars /\ [ManagerNext]_managerVars
           /\ [H!Next]_hooksVars
BY DEF DecisionsNext, RetryPart, PermissionPart, HooksPart, ManagerPart, allVars

(* Each part behaves in the composition as it does alone, so that what was *)
(* proved of it alone holds there.                                         *)
LEMMA PartsRunAlone ==
    DecisionsSpec => Spec /\ PermissionSpec /\ ManagerSpec /\ HP!Spec
<1>1. DecisionsInit => Init /\ PermissionInit /\ ManagerInit /\ HP!Init
  BY HooksOfComposition DEF DecisionsInit
<1>2. [DecisionsNext]_allVars =>
         /\ [Next]_vars /\ [PermissionNext]_permissionVars /\ [ManagerNext]_managerVars
         /\ [HP!Next]_(HP!vars)
  BY PartsStep, HooksOfComposition
<1>. QED
  BY <1>1, <1>2, PTL DEF DecisionsSpec, Spec, PermissionSpec, ManagerSpec, HP!Spec

(* WithRetry, Permission, Hooks and MCPManager: every variable has its     *)
(* type, and no wait is negative, whatever time an error names.            *)
THEOREM DecisionsTypeCorrect == DecisionsSpec => []DecisionTypes
<1>1. Spec => []TypeOK
  BY RetryTypeCorrect
<1>2. PermissionSpec => []PermissionTypeOK
  BY DecisionsAssumption, PermissionTypeCorrect
<1>3. ManagerSpec => []ManagerTypeOK
  BY DecisionsAssumption, ManagerTypeCorrect
<1>4. HP!Spec => []HP!TypeOK
  BY HooksOfComposition, HP!HooksTypeCorrect
<1>5. TypeOK /\ PermissionTypeOK /\ ManagerTypeOK /\ HP!TypeOK => DecisionTypes
  BY HooksOfComposition DEF DecisionTypes
<1>. QED
  BY <1>1, <1>2, <1>3, <1>4, <1>5, PartsRunAlone, PTL

(* Trigger, beside the other parts: see HooksRunInOrder of Hooks_proofs.   *)
THEOREM HooksOfDecisionsInOrder == DecisionsSpec => []HooksInOrder
<1>1. HP!Spec => []HP!HooksInOrder
  BY HooksOfComposition, HP!HooksRunInOrder
<1>2. HP!HooksInOrder => HooksInOrder
  BY HooksOfComposition DEF HooksInOrder
<1>. QED
  BY <1>1, <1>2, PartsRunAlone, PTL
=============================================================================
