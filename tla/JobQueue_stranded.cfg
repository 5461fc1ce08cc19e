\* Two workers and one job: can a queued job always be claimed?
SPECIFICATION Spec
CONSTANTS
  Jobs = {rebuild}
  SyncJobs = {}
  AIJobs = {}
  MaxAttempts <- MCMaxAttempts
  Workers = {w1, w2}
  Concurrency = 2
  NoWorker = NoWorker
  NoJob = NoJob
CHECK_DEADLOCK FALSE
INVARIANT QueuedIsClaimable
