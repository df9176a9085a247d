CONSTANTS
    MaxSubs = 3
    MaxCancels = 0
    MaxExpiries = 0
    MaxCrashes = 0
    DependsOn <- LastOnFirst
    Policy <- AllCancel
SPECIFICATION Spec
INVARIANT DependenciesSettled
CHECK_DEADLOCK FALSE
