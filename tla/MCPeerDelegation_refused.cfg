SPECIFICATION Spec
CONSTANTS
  t1 = t1
  Tasks <- OneTask
  NoTask = NoTask
  Verdicts <- AnyVerdict
  MaxTries = 2
  MaxLost = 1
  MaxFailures = 1
  MaxCrashes = 0
  MaxStops = 1
  PairingMayEnd = TRUE
  OwnerMayStop = FALSE
INVARIANTS
  RefusedWasNotActedOn
CHECK_DEADLOCK FALSE
