CONSTANTS
  x1 = x1
  x2 = x2
  x3 = x3
  x4 = x4
  x5 = x5
  x6 = x6
  Rows = {x1, x2, x3, x4, x5, x6}
  Created <- CreatedOf
  Limit = 2
  MaxChanges = 3
SPECIFICATION Spec
CHECK_DEADLOCK FALSE
INVARIANT TypeOK
INVARIANT MissesAreDepartures
INVARIANT RepeatsAreJoins
