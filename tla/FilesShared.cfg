SPECIFICATION FilesSpec
CONSTANTS
  FileThread = {"t1", "t2"}
  ProcessOf <- OwnProcess
  NoTurn = NoTurn
  MaxRows = 2
  MaxUpdates = 3
INVARIANT
  ReadersSeeWhole
CHECK_DEADLOCK FALSE
