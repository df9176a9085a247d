SPECIFICATION Spec
CONSTANTS
    MaxTasks = 3
    NoTask = NoTask
    NoExec = NoExec
    MaxExecs = 4
    MaxRetries = 1
    Scenarios <- Mixed
INVARIANT WaitingIsAwaited
PROPERTY FinalizeAfterChildren CompletedAfterChildren WaitingSettles
CHECK_DEADLOCK FALSE
