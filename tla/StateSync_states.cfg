SPECIFICATION FairSpec
CONSTANTS
  light = light
  clock = clock
  Entities <- Both
  Hidden <- Light
  Stamps <- Clock
  Asked <- Clock
  MaxState = 3
  MaxFaults = 1
  MaxWire = 2
INVARIANT ClientsSeeTheDevice
PROPERTIES ClientsInOrder 
CHECK_DEADLOCK FALSE
