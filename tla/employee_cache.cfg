CONSTANTS
  u1 = u1
  u2 = u2
  p1 = p1
  p2 = p2
  g1 = g1
  g2 = g2
  w1 = w1
  w2 = w2
  Employees = {u1}
  Profiles = {p1, p2}
  Getters = {g1, g2}
  Writers = {w1, w2}
  MaxFaults = 2
SPECIFICATION Spec
CHECK_DEADLOCK FALSE
INVARIANT TypeOK
INVARIANT OutdatedOnlyByRace
INVARIANT AnsweredWritesShow
