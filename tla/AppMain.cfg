SPECIFICATION AppSpec
CONSTANTS
  MaxEvents = 4
INVARIANTS
  AppTypeOK
  LockIsNoticed
  StopReachesTheThread
CHECK_DEADLOCK FALSE
