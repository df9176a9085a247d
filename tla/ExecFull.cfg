CONSTANTS
    MaxSubs = 3
    MaxExecs = 2
    MaxCancels = 1
    MaxCrashes = 0
    MaxRetries = 0
    MaxConcurrency = 1
    PreemptPriority = 0
    FastDispatch = FALSE
    FreshIds = FALSE
    AllDue = FALSE
    Key <- FullKeys
    Prio <- LastUrgent
    OnDup <- FullDup
SPECIFICATION Spec
INVARIANT TypeOK OutcomeConserved ActiveWithinLimit
