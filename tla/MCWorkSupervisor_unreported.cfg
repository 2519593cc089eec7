SPECIFICATION Spec
CONSTANTS
  w1 = w1
  w2 = w2
  w3 = w3
  w4 = w4
  NoWork = NoWork
  Works <- TwoWorks
  Limits = {1}
  QueueLimit = 1
  MaxReruns = 1
  MaxExits = 1
  MaxRetries = 1
  ReportFailures = TRUE
INVARIANTS
  UnreportedStaysOpen
CHECK_DEADLOCK FALSE
