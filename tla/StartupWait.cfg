SPECIFICATION Spec
CONSTANTS
  maxAttempts = 2
  ReplicaRetryLimit = 1
  MaxOutages = 1
  MaxRuns = 1
INVARIANT ApiWaitsForMigrator
\* A finished start has nothing left to do.
CHECK_DEADLOCK FALSE
