CONSTANTS
  p1 = p1
  p2 = p2
  p3 = p3
  m1 = m1
  Replicas = {p1, p2, p3}
  Messages = {m1}
  RetryAttempts = 2
  MaxFaults = 4
SPECIFICATION FairSpec
CHECK_DEADLOCK FALSE
INVARIANT TypeOK
PROPERTY DiscardNeedsReplacement
PROPERTY BootFailsForCause
PROPERTY EventuallyServing
