SPECIFICATION ProcessorSpec
CONSTANTS
  w1 = w1
  w2 = w2
  api = api
  worker = worker
  a1 = a1
  a2 = a2
  Worker <- MCWorker
  LockId <- MCLockId
  LockIdOf <- MCSiblings
  NoWorker = NoWorker
  MaxJobs = 3
  MaxAttempts = 2
  StaleAfter = 1
  RetryDelay = 1
  ClaimLimit = 2
  MaxEnqueue = 1
  Corrupt <- MCNoCorrupt
  Alert <- MCAlert
  Config <- MCConfig
  NoWatch = NoWatch
  Never = Never
  MaxTime = 1
  DbErrors = TRUE
SYMMETRY WorkerSymmetry
INVARIANTS
  ProcessorTypeOK
  MarkerCoversNotified
