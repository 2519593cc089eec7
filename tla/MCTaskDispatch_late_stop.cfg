SPECIFICATION Spec
CONSTANTS
  t1 = t1
  t2 = t2
  t3 = t3
  t4 = t4
  project = project
  push = push
  publish = publish
  NoTask = NoTask
  NoOperation = NoOperation
  Tasks <- OneTask
  Capability <- OneCapability
  CapabilityOf <- SameCapability
  AskedAbout <- OneCapability
  Operations <- OneOperation
  MaxEffects = 1
  MaxAsked = 1
  MaxConcurrent = 1
  MaxQueued = 1
  MaxCrashes = 0
  WriteFailures = FALSE
INVARIANTS
  StopIsConfirmed
CHECK_DEADLOCK FALSE
