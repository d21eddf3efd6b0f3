-------------------------------- MODULE Retry --------------------------------
(***************************************************************************)
(* WithRetry of claude/retry.go: a function is called again after a        *)
(* retryable error, after a wait that grows by a factor, that an error may *)
(* replace by its RetryAfter, and that jitter moves by up to a quarter.    *)
(* Durations are whole numbers of some unit, factor and jitter are in      *)
(* percent, and a conversion to time.Duration rounds down.                 *)
(***************************************************************************)
EXTENDS Integers

CONSTANTS
    Retries,            \* bound: values of RetryConfig.MaxRetries
    Durations,          \* bound: values of InitialBackoff and MaxBackoff
    Factors,            \* bound: values of BackoffFactor, in percent
    RetryAfters         \* bound: values of SDKError.RetryAfter

ASSUME RetryAssumption ==
    /\ Retries \subseteq Int
    /\ Durations \subseteq Nat
    /\ Factors \subseteq Nat
    /\ RetryAfters \subseteq Int
    /\ 0 \in RetryAfters

VARIABLES
    config,             \* RetryConfig, and which function is retried
    attempt,
    backoff,
    wait,               \* waitDuration of the last select
    lastErr,
    pc,                 \* where the call of WithRetry is
    ctxEnded,           \* the context is done
    result,             \* what WithRetry returned
    calls               \* history: calls of the function so far

vars == <<config, attempt, backoff, wait, lastErr, pc, ctxEnded, result, calls>>

Configs ==
    [fn : {"any", "query"}, MaxRetries : Retries, InitialBackoff : Durations,
     MaxBackoff : Durations, BackoffFactor : Factors, Jitter : BOOLEAN]

-----------------------------------------------------------------------------
(* Errors: the outermost SDKError of the chain, if any, and the cause.     *)

Causes == {"rate_limit", "control_timeout", "other"}

Errors == [sdk : BOOLEAN, Retryable : BOOLEAN, RetryAfter : RetryAfters, cause : Causes]

Plain(cause) == [sdk |-> FALSE, Retryable |-> FALSE, RetryAfter |-> 0, cause |-> cause]

NewRetryableError(cause, after) ==
    [sdk |-> TRUE, Retryable |-> TRUE, RetryAfter |-> after, cause |-> cause]

NewSDKError(cause) ==
    [sdk |-> TRUE, Retryable |-> FALSE, RetryAfter |-> 0, cause |-> cause]

\* Results with is_error, by what names the error; "" is no code.
ErrorResults ==
    [ErrorCode : {"", "rate_limit", "budget_exceeded"}, Subtype : {"rate_limit", "auth_error", "error"}]

\* Without a code the subtype is taken for one, if it is one.
GetErrorCode(m) ==
    IF m.ErrorCode # "" THEN m.ErrorCode
    ELSE IF m.Subtype \in {"rate_limit", "auth_error"} THEN m.Subtype ELSE "unknown"

\* Mutant: every result with an error may be retried.
ResultAlwaysRetryable(m) == NewRetryableError("other", 0)

resultMessageToError(m) ==
    IF GetErrorCode(m) = "rate_limit" THEN NewRetryableError("rate_limit", 0)
                                      ELSE NewSDKError("other")

\* What Query returns: the error of a result, a failure of the process, or
\* the error of the context.
QueryErrors ==
    {resultMessageToError(m) : m \in ErrorResults}
        \cup {NewSDKError("other"), Plain("other")}

AnyErrors ==
    {Plain(cause) : cause \in Causes} \cup {NewSDKError(cause) : cause \in Causes}
        \cup {NewRetryableError(cause, after) : cause \in Causes, after \in RetryAfters}

FnErrors == IF config.fn = "query" THEN QueryErrors ELSE AnyErrors

IsRetryable(err) ==
    IF err.sdk THEN err.Retryable ELSE err.cause \in {"rate_limit", "control_timeout"}

GetRetryAfter(err) == IF err.sdk THEN err.RetryAfter ELSE 0

-----------------------------------------------------------------------------
Jittered(d) == IF config.Jitter THEN (d * 75) \div 100 .. (d * 125) \div 100 ELSE {d}

\* Mutant: the cap is forgotten.
GrownUncapped(d) == (d * config.BackoffFactor) \div 100

Grown(d) ==
    LET next == (d * config.BackoffFactor) \div 100
    IN IF next > config.MaxBackoff THEN config.MaxBackoff ELSE next

\* Mutant: a RetryAfter below zero replaces the backoff as well.
NextBackoffSigned(err) == IF GetRetryAfter(err) # 0 THEN GetRetryAfter(err) ELSE backoff

NextBackoff(err) == IF GetRetryAfter(err) > 0 THEN GetRetryAfter(err) ELSE backoff

\* Mutant: MaxRetries is taken for the number of attempts.
LastAttemptEarly == attempt + 1 >= config.MaxRetries

\* After the last attempt the loop is left without a wait.
LastAttempt == attempt >= config.MaxRetries

Init ==
    /\ config \in Configs
    /\ attempt = 0
    /\ backoff = config.InitialBackoff
    /\ wait = 0
    /\ lastErr = Plain("other")
    /\ pc = "loop"
    /\ ctxEnded = FALSE
    /\ result = "none"
    /\ calls = 0

CallFn ==
    /\ pc = "loop"
    /\ attempt <= config.MaxRetries
    /\ pc' = "calling"
    /\ calls' = calls + 1
    /\ UNCHANGED <<config, attempt, backoff, wait, lastErr, ctxEnded, result>>

\* The loop is not entered at all when MaxRetries is negative.
LoopEnds ==
    /\ pc = "loop"
    /\ attempt > config.MaxRetries
    /\ pc' = "done"
    /\ result' = "exhausted"
    /\ UNCHANGED <<config, attempt, backoff, wait, lastErr, ctxEnded, calls>>

FnSucceeds ==
    /\ pc = "calling"
    /\ pc' = "done"
    /\ result' = "nil"
    /\ UNCHANGED <<config, attempt, backoff, wait, lastErr, ctxEnded, calls>>

FnFails(err) ==
    /\ pc = "calling"
    /\ lastErr' = err
    /\ \/ /\ ~IsRetryable(err)
          /\ pc' = "done"
          /\ result' = "error"
          /\ UNCHANGED <<backoff, wait>>
       \/ /\ IsRetryable(err)
          /\ LastAttempt
          /\ pc' = "done"
          /\ result' = "exhausted"
          /\ UNCHANGED <<backoff, wait>>
       \/ /\ IsRetryable(err)
          /\ ~LastAttempt
          /\ backoff' = NextBackoff(err)
          /\ wait' \in Jittered(NextBackoff(err))
          /\ pc' = "waiting"
          /\ UNCHANGED result
    /\ UNCHANGED <<config, attempt, ctxEnded, calls>>

\* The select: the wait is over, or the context is done; both may be ready.
Waited ==
    /\ pc = "waiting"
    /\ backoff' = Grown(backoff)
    /\ attempt' = attempt + 1
    /\ pc' = "loop"
    /\ UNCHANGED <<config, wait, lastErr, ctxEnded, result, calls>>

Canceled ==
    /\ pc = "waiting"
    /\ ctxEnded
    /\ pc' = "done"
    /\ result' = "context"
    /\ UNCHANGED <<config, attempt, backoff, wait, lastErr, ctxEnded, calls>>

ContextEnds ==
    /\ ~ctxEnded
    /\ ctxEnded' = TRUE
    /\ UNCHANGED <<config, attempt, backoff, wait, lastErr, pc, result, calls>>

FnReturns == FnSucceeds \/ \E err \in FnErrors : FnFails(err)

Next == CallFn \/ LoopEnds \/ FnReturns \/ Waited \/ Canceled \/ ContextEnds

Spec == Init /\ [][Next]_vars

-----------------------------------------------------------------------------
(* Properties.                                                             *)

TypeOK ==
    /\ config \in Configs
    /\ attempt \in Nat
    /\ backoff \in Nat
    /\ wait \in Nat
    /\ lastErr \in Errors
    /\ pc \in {"loop", "calling", "waiting", "done"}
    /\ ctxEnded \in BOOLEAN
    /\ result \in {"none", "nil", "error", "exhausted", "context"}
    /\ calls \in Nat

Largest(a, b) == IF a >= b THEN a ELSE b

\* The longest wait the configuration and the last error ask for.  The first
\* wait is InitialBackoff even where that exceeds MaxBackoff.
LongestAsked ==
    Largest(GetRetryAfter(lastErr), Largest(config.InitialBackoff, config.MaxBackoff))

(* However backoff, RetryAfter and jitter follow each other, a wait is at  *)
(* most a quarter longer than the longest that was asked for, and at most  *)
(* a quarter shorter than the RetryAfter of the error it follows.          *)
WaitsBounded ==
    pc = "waiting" =>
        /\ wait <= (LongestAsked * 125) \div 100
        /\ wait >= (GetRetryAfter(lastErr) * 75) \div 100

(* The function is called again only after an error that may pass, never   *)
(* more than MaxRetries times, and Query only when the rate limit hit.     *)
OnlyRetryableRetried ==
    [][calls' # calls =>
        /\ calls' <= config.MaxRetries + 1
        /\ calls > 0 =>
            /\ IsRetryable(lastErr)
            /\ config.fn = "query" => lastErr.cause = "rate_limit"]_vars

(* WithRetry gives up only when it has made all its attempts and the last  *)
(* error was one to retry; with MaxRetries below zero it makes none, and   *)
(* the error it returns then wraps no cause.                               *)
GivesUpAtTheLimit ==
    result = "exhausted" =>
        /\ calls = Largest(config.MaxRetries + 1, 0)
        /\ calls > 0 => IsRetryable(lastErr)
=============================================================================
