SPECIFICATION FairSpec
CONSTANTS
  r1 = r1
  r2 = r2
  r3 = r3
  NoCommand = NoCommand
  Requests <- TwoRequests
  Users = {"alice"}
  Roles = {"normal_user", "admin"}
  Commands <- TwoCommands
  Kinds = {"single", "multi", "accept", "reject"}
  Failures = {"UPSTREAM_TIMEOUT", "UPSTREAM_ERROR"}
  MaxSubCommands = 2
  MaxRestarts = 0
  Durable = FALSE
INVARIANT OnlyAllowedRuns
PROPERTY EveryRequestAnswered
CHECK_DEADLOCK FALSE
