SPECIFICATION Spec
CONSTANTS
  i1 = i1  i2 = i2  u1 = u1
  Issuers <- MCIssuers
  Editors <- MCEditors
  LineSum = 10050
  FirstTotal = 0
  MaxIssues = 3
  MaxEdits = 1
  MaxChanges = 1
  MaxFaults = 1
SYMMETRY Symmetry
INVARIANTS
  IssuedIsBacked
  IssuedMatchesBilling
  BilledTotalIsStored
  OrphansOnlyFromFailures
CHECK_DEADLOCK FALSE
