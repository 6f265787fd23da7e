SPECIFICATION FairSpec
CONSTANTS
  c1 = c1
  Calls <- OneCall
  Pings <- NoCalls
  MaxSockets = 2
  MaxAttempts = 1
  MaxAuthTimeouts = 0
  MaxId = 20
  MayStop = FALSE
PROPERTIES EveryCallEnds StableIsSubscribed
CHECK_DEADLOCK FALSE
