CONSTANTS
    MaxSubs = 4
    MaxCancels = 1
    MaxExpiries = 1
    MaxCrashes = 2
    DependsOn <- Diamond
    Policy <- ThirdIgnores
SPECIFICATION FairSpec
INVARIANTS TypeOK ReadyHasNoEdge BlockedIsAwaited EdgesDescend
PROPERTY AcceptedSettles
CHECK_DEADLOCK FALSE
