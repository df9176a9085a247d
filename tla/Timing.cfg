CONSTANTS
    Unset = Unset
    NORMAL = 128
    Second = 2
    TagKeys = {k1}
    Parent = p
    Other = c
    Reasons = {preemption, group}
    Scenarios <- AllScenarios
SPECIFICATION Spec
INVARIANT AgeIsWaiting InheritedDeadline 
PROPERTY UrgentFirst RetryWaits
CHECK_DEADLOCK FALSE
