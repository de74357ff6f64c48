SPECIFICATION Spec
CONSTANTS
  t1 = t1  t2 = t2  c1 = c1  c2 = c2  c3 = c3
  Persistent = Persistent
  Tenants <- MCTenants
  Callers <- MCCallers
  Limit = 2
  TicksPerMinute = 2
  Ttl = 3
  MaxMinute = 2
  MaxChecks = 4
  MaxFailures = 1
SYMMETRY Symmetry
INVARIANTS
  WithinLimit
  RefusedOnlyWhenFull
  LeaksNeedAFailure
CHECK_DEADLOCK FALSE
