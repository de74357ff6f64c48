SPECIFICATION Spec
CONSTANTS
  w1 = w1  w2 = w2
  Template <- Template2
  Configured <- Both
  Workers <- MCWorkers
  MaxStarts = 1
  StepRetries = 1
  MaxCrashes = 0
  MaxRepeats = 0
  MaxUnanswered = 0
INVARIANT NoStepLost
CHECK_DEADLOCK FALSE
