SPECIFICATION BoardingSpec
CONSTANTS
  QueueSize = 1
  MaxLinks = 2
  MaxUpdates = 2
  MaxCreds = 2
  MaxStarts = 1
  MaxEvents = 1
  MaxTimers = 2
INVARIANT BoardingInv
PROPERTIES
  UpdateWriteAnswered
  AbandonedUpdateReboots
CHECK_DEADLOCK FALSE
