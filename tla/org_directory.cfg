CONSTANTS
  d1 = d1
  d2 = d2
  n1 = n1
  n2 = n2
  u1 = u1
  u2 = u2
  m1 = m1
  m2 = m2
  l1 = l1
  l2 = l2
  c1 = c1
  c2 = c2
  c3 = c3
  Depts = {d1, d2}
  Names = {n1, n2}
  Emps = {u1, u2}
  Mails = {m1, m2}
  Leaves = {l1}
  Calls = {c1, c2, c3}
SPECIFICATION Spec
CHECK_DEADLOCK FALSE
SYMMETRY Alike
INVARIANT TypeOK
INVARIANT NoOrphans
INVARIANT UniqueKeys
PROPERTY DeniedOnlyByRace
