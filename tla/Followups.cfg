SPECIFICATION FairSpec
CONSTANTS
  r1 = r1  r2 = r2  q1 = q1  s1 = s1  s2 = s2
  None = None
  Reminders <- MCReminders
  Silent <- Nobody
  Broken <- Other
  Requests <- OneRequest
  Operations <- AllOps
  Scans <- TwoScans
  MaxMishaps = 1
INVARIANTS
  NoDraftMailedUnapproved
  SentIsTrue
  RepeatsHaveACause
PROPERTIES
  CancelledForGood
  OnlyBrokenOnesBlock
CHECK_DEADLOCK FALSE
