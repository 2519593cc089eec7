SPECIFICATION FairSpec
CONSTANTS
  t1 = t1
  t2 = t2
  t3 = t3
  t4 = t4
  project = project
  push = push
  publish = publish
  NoTask = NoTask
  NoOperation = NoOperation
  Tasks <- TwoTasks
  Capability <- OneCapability
  CapabilityOf <- SameCapability
  AskedAbout <- OneCapability
  Operations <- OneOperation
  MaxEffects = 0
  MaxAsked = 0
  MaxConcurrent = 1
  MaxQueued = 1
  MaxCrashes = 0
  WriteFailures = FALSE
INVARIANTS
  ParkedIsAnswerable
PROPERTIES
  RunsEnd
  StopLands
  AskedTaskMovesOn
CHECK_DEADLOCK FALSE
