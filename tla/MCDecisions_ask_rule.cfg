\* A rule that asks before one that decides.
SPECIFICATION MCSpec
CONSTANTS
    Retries <- MCRetries
    Durations <- MCDurations
    Factors <- MCFactors
    RetryAfters <- MCRetryAfters
    Evaluators = {e1}
    Rules <- MCRules
    MaxRules = 2
    MaxRuleChanges = 4
    Triggers = {t1}
    Tool = "Bash"
    Entries <- MCEntries
    MaxHooks = 2
    MaxHookChanges = 4
    Threads = {u1, u2}
    Names = {n1, n2}
    Clients = {c1, c2}
    SDKServers = {s1}
    Handlers = {h1}
    MaxChanges = 4
INVARIANT AskLeavesToCallback
CHECK_DEADLOCK FALSE
