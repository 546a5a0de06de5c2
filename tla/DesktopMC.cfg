SPECIFICATION Spec
CONSTANTS
  Apps = {a1, a2}
  Phones = {p1, p2}
  Asking = {p3}
SYMMETRY Symmetry
CONSTRAINT OneTrouble
INVARIANTS
  NobodyPairsAlone
PROPERTIES
  VaultKeepsWhatItKnows
  ClickTakesTheShownPhone
CHECK_DEADLOCK FALSE
