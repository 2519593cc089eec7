SPECIFICATION FairSpec
CONSTANTS
  t1 = t1
  Tasks <- OneTask
  NoTask = NoTask
  Verdicts <- AnyVerdict
  MaxTries = 2
  MaxLost = 1
  MaxFailures = 2
  MaxCrashes = 0
  MaxStops = 1
  PairingMayEnd = TRUE
  OwnerMayStop = FALSE
PROPERTIES
  HandOverIsSettled
  StopIsSettled
  DeadLetterSettles
CHECK_DEADLOCK FALSE
