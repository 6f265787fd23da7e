SPECIFICATION Spec
CONSTANTS
  Entities <- MCEntities
  Kinds <- MCKinds
  Readings <- MCReadings
  Snapshots <- MCSnapshots
  Orders <- MCOrders
  MaxEvents = 3
INVARIANTS GroupingSound StateIsCurrent HeardOfIsOffered
CHECK_DEADLOCK FALSE
