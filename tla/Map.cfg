CONSTANTS
  MaxItems = 3
  Scores = {1, 2}
  Target = 2
  Definitions <- MCDefinitions
  MaxEpoch = 2
  MaxFaults = 2
SPECIFICATION FairSpec
INVARIANTS MapSafe
PROPERTIES MapRecords MapReturns
CHECK_DEADLOCK FALSE
