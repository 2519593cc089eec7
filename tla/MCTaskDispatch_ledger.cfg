SPECIFICATION Spec
CONSTANTS
  t1 = t1
  t2 = t2
  t3 = t3
  t4 = t4
  project = project
  push = push
  publish = publish
  NoTask = NoTask
  NoOperation = NoOperation
  Tasks <- OneTask
  Capability <- OneCapability
  CapabilityOf <- SameCapability
  AskedAbout <- OneCapability
  Operations <- TwoOperations
  MaxEffects = 2
  MaxAsked = 2
  MaxConcurrent = 1
  MaxQueued = 1
  MaxCrashes = 1
  WriteFailures = TRUE
SYMMETRY OperationSymmetry
INVARIANTS
  TypeOK
  SuccessIsEarned
  OneOpenAttempt
  EventsAreLegal
  EndedTaskIsQuiet
  RefusedApprovalRunsNothing
  AnsweredMeansSettled
PROPERTIES
  TaskPromiseKept
CHECK_DEADLOCK FALSE
