SPECIFICATION Spec
CONSTANTS
  i1 = i1
  bar = bar
  PhoneIds = {i1, bar, noId}
  NoId = noId
  Keys = {key}
  NoKey = noKey
  Phones <- SomePhones
  MaxPhones = 2
  Threads = {t1, t2}
  NoThread = noThread
  Credentials = {password}
  ReadBack <- CutAtTheBar
  ReadBackCred <- BarInPassword
  Blank = blank
  NoCredential = noCredential
  MaxIdentities = 2
  FaultySaves = TRUE
SYMMETRY Symmetry
VIEW Seen
INVARIANTS
  TypeOK
  RevokedNotTrusted
  RegistryBounded
  RevocationsSurvive
  QuiescentVaultIsCurrent
  PairedWithThisIdentity
CHECK_DEADLOCK FALSE
