SPECIFICATION Spec
CONSTANTS
  i1 = i1  i2 = i2  u1 = u1
  Issuers <- MCIssuers
  Editors <- MCEditors
  LineSum = 10050
  FirstTotal = 20000
  MaxIssues = 2
  MaxEdits = 0
  MaxChanges = 0
  MaxFaults = 0
INVARIANT BilledTotalIsStored
CHECK_DEADLOCK FALSE
