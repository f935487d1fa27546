CONSTANTS
  a1 = a1
  r1 = r1
  r2 = r2
  r3 = r3
  e1 = e1
  e2 = e2
  i1 = i1
  i2 = i2
  h1 = h1
  h2 = h2
  h3 = h3
  t1 = t1
  t2 = t2
  Requests = {r1}
  Employees = {e1}
  Owner <- OwnerOf
  Dates <- DayOne
  Times = {t1}
  Null = Null
  Instances = {i1}
  Handlers = {h1}
  Home <- HomeOf
  Prefetch = 1
  MaxAttempts = 3
  Admins = {a1}
  PatchDates <- NoDates
  PatchStatuses = {}
  MaxFaults = 0
SPECIFICATION Spec
CHECK_DEADLOCK FALSE
PROPERTY DeletedStaysDeleted
