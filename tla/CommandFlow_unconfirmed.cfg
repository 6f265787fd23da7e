SPECIFICATION Spec
CONSTANTS
  r1 = r1
  r2 = r2
  r3 = r3
  NoCommand = NoCommand
  Requests <- TwoRequests
  Users = {"alice"}
  Roles = {"admin"}
  Commands <- TwoCommands
  Kinds = {"single", "multi", "accept"}
  Failures = {"UPSTREAM_TIMEOUT"}
  MaxSubCommands = 2
  MaxRestarts = 0
  Durable = TRUE
INVARIANT NothingUnconfirmed
CHECK_DEADLOCK FALSE
