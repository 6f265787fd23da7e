SPECIFICATION SharedSpec
CONSTANTS
  t1 = t1
  t2 = t2
  t3 = t3
  Vocabulary <- MCVocabulary
  Threads = {t1, t2, t3}
  Parties <- MCParties
  MaxSize = 3
  MaxEvents = 9
  MaxStale = 1
SYMMETRY Symmetry
INVARIANTS SharedSound 
CHECK_DEADLOCK FALSE
