SPECIFICATION Spec
CONSTANTS
  PhoneIds = {p1, p2}
  Keys = {k1}
  NoKey = noKey
  Phones <- SharingPhones
  MaxPhones = 1
  Threads = {t1, t2}
  MaxSessions = 2
  TTL = 0
  MaxTime = 1
SYMMETRY Symmetry
INVARIANTS
  TypeOK
  CommitsAreConfirmed
  RegistryRespected
PROPERTIES
  DeadSessionsStayDead
CHECK_DEADLOCK FALSE
