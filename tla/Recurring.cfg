SPECIFICATION FairSpec
CONSTANTS
  a1 = a1  a2 = a2  s1 = s1  p1 = p1
  None = None
  Schedules <- MCSchedules
  Cadence <- MCCadence
  Scans <- OneScan
  People <- OnePerson
  Hopeless <- Second
  FailureLimit = 2
  LastDay = 2
  Budget <- Anything
INVARIANTS
  DisabledAfterLimit
  InvoicesOnCadence
  NeverDisabledEarly
  PauseIsKept
PROPERTY DueIsHandled
CHECK_DEADLOCK FALSE
