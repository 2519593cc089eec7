SPECIFICATION Spec
CONSTANTS
  t1 = t1
  Tasks <- OneTask
  NoTask = NoTask
  Verdicts <- AnyVerdict
  MaxTries = 2
  MaxLost = 1
  MaxFailures = 2
  MaxCrashes = 1
  MaxStops = 1
  PairingMayEnd = FALSE
  OwnerMayStop = TRUE
INVARIANTS
  TypeOK
  RunsOnce
  OwedIsDeliverable
  RefusedWasNotActedOn
PROPERTIES
  PromiseKept
CHECK_DEADLOCK FALSE
