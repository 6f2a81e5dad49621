SPECIFICATION LiveSpec
CONSTANTS
  w1 = w1
  w2 = w2
  api = api
  Worker <- MCWorker
  LockId = {api}
  LockIdOf <- MCLockIdOf
  NoWorker = NoWorker
  MaxJobs = 2
  MaxAttempts = 2
  StaleAfter = 1
  RetryDelay = 1
  ClaimLimit = 2
  MaxEnqueue = 2
  Corrupt <- MCCorrupt
  MaxRuns = 2
  MaxPolls = 1
  ShownSymbol = {"p", "q"}
  BatchSize = 1
  BatchGap = 1
  FailedRetry = 2
  MaxQueued = 2
INVARIANTS
  LiveChildTracked
  TimelyCancelHonoured
  SettledStatusTrue
PROPERTIES
  ImplementsLifecycle
  EveryJobSettles
  CancelAddressed
  RefreshEnds
  CancelReturns
  LoadingEnds
