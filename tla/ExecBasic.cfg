CONSTANTS
    MaxSubs = 2
    MaxExecs = 4
    MaxCancels = 0
    MaxCrashes = 1
    MaxRetries = 1
    MaxConcurrency = 2
    PreemptPriority = 0
    FastDispatch = TRUE
    FreshIds = FALSE
    AllDue = FALSE
    Key <- DistinctKeys
    Prio <- SamePrio
    OnDup <- AllSkip
SPECIFICATION Spec
INVARIANT NoTaskLost TerminalOnce OneExecution RunningHasOwner RetryInSync
