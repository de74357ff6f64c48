SPECIFICATION FairSpec
CONSTANTS
  w1 = w1  w2 = w2
  Template <- Template2
  Configured <- Both
  Workers <- MCWorkers
  MaxStarts = 2
  StepRetries = 1
  MaxCrashes = 1
  MaxRepeats = 1
  MaxUnanswered = 1
INVARIANTS
  CompletedCountsSteps
  NoEffectWithoutRun
  MailsOncePerReplay
PROPERTIES
  FollowsRunLifecycle
  AllRanLeadsToDone
CHECK_DEADLOCK FALSE
