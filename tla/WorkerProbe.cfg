SPECIFICATION ProbeSpec
CONSTANTS
  MaxLife <- MCMaxLife
  Interval = 1
  StaleSeconds = 1
  HealthUntil = 2
INVARIANT
  RecoveryIsNewWorker
CHECK_DEADLOCK FALSE
