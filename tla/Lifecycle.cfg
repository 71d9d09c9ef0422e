SPECIFICATION SchedulingSpec
CONSTANTS
    N = 2
    MaxEpoch = 3
    MaxTrouble = 3
INVARIANTS RunHonest
PROPERTIES RequestStopsDriver EventuallyFinished
CHECK_DEADLOCK FALSE
