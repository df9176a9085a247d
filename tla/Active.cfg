CONSTANTS
    Tasks = {t1, t2}
    MaxExecs = 2
    Unset = Unset
    DurationMax = 20
    Scenarios <- AllScenarios
SPECIFICATION FairSpec
INVARIANT ThroughputWithinRates EstimatesAreBounded OneStraggler JoinedIsWritten
PROPERTY ShutdownEnds
CHECK_DEADLOCK FALSE
