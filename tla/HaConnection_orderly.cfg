SPECIFICATION Spec
CONSTANTS
  c1 = c1
  Calls <- OneCall
  Pings <- OneCall
  MaxSockets = 3
  MaxAttempts = 2
  MaxAuthTimeouts = 1
  MaxId = 4
  MayStop = TRUE
INVARIANTS ConnectionSound IdsIncrease ReaderIsCurrent CommandsAfterAuth
CHECK_DEADLOCK FALSE
