SPECIFICATION FairSpec
CONSTANTS
  fix = fix
  call = call
  k1 = k1
  Intents <- TaskAndReminder
  Keys <- OneKey
  Schedule <- Schedules
  Action <- Actions
  Step = 1
  Once = 1
  MaxAttempts = 2
  Lapse = 2
  MaxTime = 2
  MaxCrashes = 1
  Failures = TRUE
INVARIANTS
  TypeOK
  StartsOnce
  StartedIsHandedOver
  ReminderIsMade
  NoBurst
PROPERTIES
  OnlyActiveActs
  RunIsDecided
  SignalIsSettled
CHECK_DEADLOCK FALSE
