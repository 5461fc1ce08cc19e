\* The deployed shape: one worker container, restarted under a new OWNER when it dies.
SPECIFICATION FairSpec
CONSTANTS
  Jobs = {sync, extract}
  SyncJobs = {sync}
  AIJobs = {extract}
  MaxAttempts <- MCMaxAttempts
  Workers = {w1, w2, w3}
  Concurrency = 1
  NoWorker = NoWorker
  NoJob = NoJob
\* Every known key may be settled: the queue is then idle.
CHECK_DEADLOCK FALSE
INVARIANT TypeOK
INVARIANT AttemptsAccounted
INVARIANT QueuedIsClaimable
PROPERTY OutcomeStands
PROPERTY Settles
PROPERTY CrashedIsRecovered
