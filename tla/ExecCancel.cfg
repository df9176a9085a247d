CONSTANTS
    MaxSubs = 3
    MaxExecs = 2
    MaxCancels = 1
    MaxCrashes = 1
    MaxRetries = 1
    MaxConcurrency = 2
    PreemptPriority = 0
    FastDispatch = TRUE
    FreshIds = TRUE
    AllDue = FALSE
    Key <- FullKeys
    Prio <- SecondUrgent
    OnDup <- LastRejects
SPECIFICATION Spec
INVARIANT NoTaskLost RunningHasOwner
