SPECIFICATION FairSpec
CONSTANTS
  t1 = t1
  t2 = t2
  lamp = lamp
  lock = lock
  Threads <- MCThreads
  Entities <- MCEntities
  Listed <- MCListed
  Retries = 1
  MaxPolls = 2
  Errors <- MCErrors
INVARIANTS AdapterSound PerformedAtMost  ListIsWhole
 
CHECK_DEADLOCK FALSE
