SPECIFICATION QrSpec
CONSTANTS
  Lengths <- PairingLength
  Levels <- Medium
  Sample <- SampleBlock
  Scores <- ScoreVectors
INVARIANTS
  SymbolReadable
CHECK_DEADLOCK FALSE
