SPECIFICATION FairSpec
CONSTANTS
  c1 = c1  c2 = c2  v1 = v1  v2 = v2  x1 = x1  w1 = w1  w2 = w2
  alice = alice  bob = bob  n1 = n1  n2 = n2
  None = None
  Records <- MCRecords
  Target <- MCTarget
  Email <- MCEmail
  Number <- MCNumber
  Complete <- MCComplete
  Workers <- MCWorkers
  MaxTriggers = 3
  MaxCrashes = 1
INVARIANTS
  DispatchedIsReal
  OneInvoicePerNumber
PROPERTY TriggeredIsDecided
CHECK_DEADLOCK FALSE
