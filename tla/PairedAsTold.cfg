SPECIFICATION Spec
CONSTANTS
  Apps = {a1}
  Phones = {p1}
  Asking = {p3}
INVARIANTS
  PairedAsTold
CHECK_DEADLOCK FALSE
