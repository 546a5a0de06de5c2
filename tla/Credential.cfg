SPECIFICATION FairSpec
CONSTANTS
  MaxMonitors = 3
  MaxPackets = 2
INVARIANTS
  TypeOK
  SubmittedOnce
  OneLogonPerConfirmation
  SelectedTileListens
PROPERTIES
  StopEndsMonitors
CHECK_DEADLOCK FALSE
