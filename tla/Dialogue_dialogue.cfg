SPECIFICATION Spec
CONSTANTS
  r1 = r1
  r2 = r2
  r3 = r3
  u1 = u1
  u2 = u2
  Requests = {r1, r2, r3}
  Users = {u1, u2}
  Sentences <- MCSentences
  Tried <- MCTried
  Payloads <- MCPayloads
  Found <- MCFound
  Nothing = Nothing
  MaxActive = 2
  MaxHistory = 2
  MaxExpiries = 1
SYMMETRY Symmetry
INVARIANTS DialogueSound  HistoryWhole DevicesSpokenOf
CHECK_DEADLOCK FALSE
