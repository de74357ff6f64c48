SPECIFICATION FairSpec
CONSTANTS
  r1 = r1  r2 = r2  q1 = q1  s1 = s1  s2 = s2
  None = None
  Reminders <- MCReminders
  Silent <- Nobody
  Broken <- Other
  Requests <- OneRequest
  Operations <- AllOps
  Scans <- OneScan
  MaxMishaps = 0
PROPERTIES
  EveryDueReminderSent
CHECK_DEADLOCK FALSE
