SPECIFICATION Spec
CONSTANTS
  t1 = t1
  t2 = t2
  t3 = t3
  t4 = t4
  project = project
  push = push
  publish = publish
  NoTask = NoTask
  NoOperation = NoOperation
  Tasks <- FourTasks
  Capability <- OneCapability
  CapabilityOf <- SameCapability
  AskedAbout = {}
  Operations <- OneOperation
  MaxEffects = 0
  MaxAsked = 0
  MaxConcurrent = 2
  MaxQueued = 1
  MaxCrashes = 1
  WriteFailures = FALSE
SYMMETRY TaskSymmetry
INVARIANTS
  PoolIsSound
  EveryOpenTaskHasAnOwner
PROPERTIES
  LeaseIsKept
CHECK_DEADLOCK FALSE
