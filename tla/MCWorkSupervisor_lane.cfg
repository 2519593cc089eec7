SPECIFICATION Spec
CONSTANTS
  w1 = w1
  w2 = w2
  w3 = w3
  w4 = w4
  NoWork = NoWork
  Works <- FourWorks
  Limits = {1, 2}
  QueueLimit = 2
  MaxReruns = 1
  MaxExits = 1
  MaxRetries = 1
  ReportFailures = FALSE
SYMMETRY WorkSymmetry
INVARIANTS
  TypeOK
  LaneIsSound
  ToldOnce
  NothingIsLost
  StopStands
  RetryIsBacked
PROPERTIES
  StartsAreOrderly
CHECK_DEADLOCK FALSE
