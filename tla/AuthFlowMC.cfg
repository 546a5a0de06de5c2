SPECIFICATION Spec
CONSTANTS
  PhoneIds = {p1, p2}
  Keys = {k1}
  NoKey = noKey
  Phones <- SharingPhones
  MaxPhones = 2
  Handlers = {h1, h2}
  MaxChallenges = 2
  MaxNonces = 1
  Window = 0
  MaxTime = 1
SYMMETRY Symmetry
INVARIANTS
  TypeOK
  BlacklistHonoured
  NoLostAcceptance
  OfferedIsNewest
PROPERTIES
  ImplementsLedger
CHECK_DEADLOCK FALSE
