SPECIFICATION Spec
CONSTANTS
    g1 = g1
    none = none
    ty1 = ty1
    ty2 = ty2
    Tasks <- MCTasks
    GroupOf <- MCGroupOf
    TypeOf <- MCTypeOf
    PriorityOf <- MCPriorityOf
    IoOf <- MCIoOf
    Groups <- MCGroups
    Types <- MCTypes
    Names <- MCNames
    NoGroup = none
    NoTask = 0
    Ceiling = 64
    Urgent = 64
    Throughput <- MCThroughput
    Scenarios <- MCScenarios
INVARIANT FastIsJustified
PROPERTY StartsWithinMax StartsWithinLimits PendingIsDispatched
CHECK_DEADLOCK FALSE
