CONSTANTS
  BatchSize = 2
  BaseBackoff = 1
  MaxBackoff = 2
  MaxEvents = 3
  MaxFaults = 3
SPECIFICATION FairSpec
INVARIANTS AttemptedInOrder NothingGoesMissing
PROPERTY EveryEventIsPublished
CHECK_DEADLOCK FALSE
