SPECIFICATION RefreshSpec
CONSTANTS
  MaxRuns = 1
  MaxPolls = 1
INVARIANT
  EarlyCancelHonoured
