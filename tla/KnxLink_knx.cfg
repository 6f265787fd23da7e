SPECIFICATION FairSpec
CONSTANTS
  BatchSize = 2
  Delay = FALSE
  QueueSize = 1
  PerEvent = 1
  MaxAttempts = 2
  MaxEvents = 2
  MaxFaults = 1
INVARIANTS LinkSound SentInOrder NotForgotten
PROPERTIES ReaderReturns AcceptedIsSent
CHECK_DEADLOCK FALSE
