SPECIFICATION FairSpec
CONSTANTS
    Workflows <- AllWorkflows
    MaxEpoch = 3
    MaxFaults = 2
INVARIANTS WalkSafe ResumeSound
PROPERTIES WalkReturns
CHECK_DEADLOCK FALSE
