SPECIFICATION FairSpec
CONSTANTS
  Instances = {i1, i2}
  MaxNotifications = 2
INVARIANTS
  TypeOK
  PasswordGivenOnce
  FreshPassword
PROPERTIES
  EveryWaitEnds
  HandlersEnd
  StopReturnsUnlessMissed
CHECK_DEADLOCK FALSE
