SPECIFICATION Spec
CONSTANTS
  r1 = r1
  r2 = r2
  r3 = r3
  NoCommand = NoCommand
  Requests <- ThreeRequests
  Users = {"alice"}
  Roles = {"normal_user"}
  Commands <- OnlyUnlock
  Kinds = {"single", "multi", "accept", "reject"}
  Failures = {"UPSTREAM_TIMEOUT", "BAD_REQUEST"}
  MaxSubCommands = 2
  MaxRestarts = 1
  Durable = TRUE
SYMMETRY Symmetry
INVARIANTS HighRiskNeedsAccept SuccessIsReal 
PROPERTIES ClosedTokenNeverRuns ImplementsGate
CHECK_DEADLOCK FALSE
