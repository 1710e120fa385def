SPECIFICATION Spec
CONSTANTS
  c1 = c1
  c2 = c2
  Daemon = daemon
  Consoles <- MCConsoles
  Nobody = nobody
  Ttl = 1
  MaxTime = 4
  MaxRuns = 2
  MaxRestarts = 1
INVARIANTS TypeOK RunnerHoldsLock LeftoverOnlyAfterKill
PROPERTIES SnapshotNeverGoesBack StaleRenewed ImplementsMeasurement
