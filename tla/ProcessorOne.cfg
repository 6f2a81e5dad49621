SPECIFICATION ProcessorSpec
CONSTANTS
  w1 = w1
  w2 = w2
  api = api
  worker = worker
  a1 = a1
  a2 = a2
  Worker <- MCOneWorker
  LockId <- MCLockId
  LockIdOf <- MCOneId
  NoWorker = NoWorker
  MaxJobs = 4
  MaxAttempts = 2
  StaleAfter = 1
  RetryDelay = 1
  ClaimLimit = 2
  MaxEnqueue = 1
  Corrupt <- MCNoCorrupt
  Alert <- MCAlerts
  Config <- MCCooldown
  NoWatch = NoWatch
  Never = Never
  MaxTime = 2
  DbErrors = FALSE
INVARIANTS
  RetriesStayEligible
  CompletedIsAccounted
