CONSTANTS
    MaxSubs = 2
    MaxExecs = 6
    MaxCancels = 0
    MaxCrashes = 1
    MaxRetries = 1
    MaxConcurrency = 1
    PreemptPriority = 0
    FastDispatch = FALSE
    FreshIds = FALSE
    AllDue = FALSE
    Key <- DistinctKeys
    Prio <- SamePrio
    OnDup <- AllSkip
SPECIFICATION FairSpec
PROPERTY InsertedFinishes
