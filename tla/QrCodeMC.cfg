SPECIFICATION QrSpec
CONSTANTS
  Lengths <- SomeLengths
  Levels <- AllLevels
  Sample <- SampleBlock
  Scores <- ScoreVectors
INVARIANTS
  SmallestStrongestSymbol
  ScanMeetsEveryDataModule
  DataDrawnInOrder
  InformationReadable
PROPERTIES
  PatternsKeepTheirColour
CHECK_DEADLOCK FALSE
