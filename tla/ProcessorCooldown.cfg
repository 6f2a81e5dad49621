SPECIFICATION ProcessorSpec
CONSTANTS
  w1 = w1
  w2 = w2
  api = api
  worker = worker
  a1 = a1
  a2 = a2
  Worker <- MCWorker
  LockId <- MCLockId
  LockIdOf <- MCApart
  NoWorker = NoWorker
  MaxJobs = 3
  MaxAttempts = 2
  StaleAfter = 1
  RetryDelay = 1
  ClaimLimit = 2
  MaxEnqueue = 1
  Corrupt <- MCNoCorrupt
  Alert <- MCAlert
  Config <- MCCooldown
  NoWatch = NoWatch
  Never = Never
  MaxTime = 2
  DbErrors = FALSE
SYMMETRY ProcessSymmetry
INVARIANTS
  NotifiedOnceUnlessOvertaken
PROPERTIES
  ImplementsQueue
  SpacedFromEarlierEvent
