SPECIFICATION FairSpec
CONSTANTS
  e1 = e1  e2 = e2  k1 = k1  w1 = w1  w2 = w2
  None = None
  Events <- MCEvents
  Keys <- MCKeys
  KeyOf <- MCKeyOf
  Workers <- MCWorkers
  MaxRetries = 3
  MaxFaults <- OneOfEach
INVARIANTS
  OneCarrier
  AttemptsCountStarts
  DeadIsAuditedOnce
  SettledIsTrue
  CompletesOnce
  OnlyCommittedEventsRun
PROPERTIES
  FollowsLifecycle
  FiresReliably
CHECK_DEADLOCK FALSE
