SPECIFICATION Spec
CONSTANTS
    Singles <- MCSingles
    Batch <- MCBatch
    KeyOf <- MCKeyOf
    PriorityOf <- MCPriorityOf
    StrategyOf <- MCStrategyOf
    Refused <- MCRefused
    Chunk = 2
    Scenarios <- MCScenarios
    Loop = Loop
    NoRequest = NoRequest
    NoPriority = NoPriority
INVARIANT LastOccurrenceSubmitted
PROPERTY Serializable FollowersAreAnswered
CHECK_DEADLOCK FALSE
