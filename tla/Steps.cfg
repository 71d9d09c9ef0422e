SPECIFICATION MCSpec
CONSTANTS
    w1 = w1  w2 = w2  w3 = w3  a1 = a1  a2 = a2
    Writers <- ThreeWriters
    Awaits <- TwoAwaits
    Keyed <- OnlyA2
    Accepted <- W2W3
    Typed <- OnlyA1
    Valid <- W2W3
    Overlapping = FALSE
    MaxFaults = 2
    MaxTurns = 0
    DefaultMaxTurns = 3
    Offered = {"grep", "ls"}
    HasSchema = TRUE
    Answers <- ProviderAnswers
    ToolResults <- ProcessResults
    MaxDrivers = 4
    MaxMishaps = 2
    Boxes <- TwoBoxes
    Snapshotted = {"work"}
    ImageTargets = {"img"}
    Versions = {"v1", "v2"}
    NameClash = TRUE
    MaxWalks = 4
    MaxTrouble = 3
INVARIANTS DeliveredExactlyOnce
PROPERTIES RightSignal EventuallyServed ReactSafe CallSafe DriversReturn
CHECK_DEADLOCK FALSE
