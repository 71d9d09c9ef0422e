CONSTANTS
  Definitions <- MCDefinitions
  MaxAttempts = 3
  SinkBuffer = 1
SPECIFICATION FairSpec
INVARIANTS JournalFaithful
PROPERTIES StepReturns
CHECK_DEADLOCK FALSE
