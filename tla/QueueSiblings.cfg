SPECIFICATION QueueSpec
CONSTANTS
  w1 = w1
  w2 = w2
  w3 = w3
  api = api
  worker = worker
  Worker <- MCWorker
  LockId <- MCLockId
  LockIdOf <- MCLockIdOf
  NoWorker = NoWorker
  MaxJobs = 3
  MaxAttempts = 2
  StaleAfter = 1
  RetryDelay = 1
  ClaimLimit = 2
  MaxEnqueue = 2
  Corrupt <- MCCorrupt
PROPERTY
  LateReportIsNoop
SYMMETRY
  SiblingSymmetry
