SPECIFICATION FairSpec
CONSTANTS
  c1 = c1
  c2 = c2
  Conns = {c1, c2}
  Ids = {i1, i2}
  Entities = {lamp}
  Nobody = Nobody
  Hole = Hole
  Star = Star
  Kinds <- Asking
  Slow = {c1}
  MaxEvents = 1
  MaxRequests = 1
  MaxPolls = 1
INVARIANTS ServerSound RegisteredAreLive CalledOnce
PROPERTIES BroadcastEnds ClosedLeaves
CHECK_DEADLOCK FALSE
