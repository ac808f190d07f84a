SPECIFICATION FairSpec
CONSTANTS
  maxAttempts = 3
  ReplicaRetryLimit = 2
  MaxOutages = 1
  MaxRuns = 3
INVARIANTS
  TypeOK
  ExitZeroIsMigrated
  GivesUpWhenSpent
  SecretsMatch
  ProvidersMatch
PROPERTIES
  MigratorEnds
  AdminStarts
\* A finished start has nothing left to do.
CHECK_DEADLOCK FALSE
