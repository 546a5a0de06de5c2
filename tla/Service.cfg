SPECIFICATION FairSpec
CONSTANTS
  WifiClients = {w1}
  BtClients = {b1}
  MaxEvents = 0
INVARIANTS
  StoppedIsQuiet
PROPERTIES
  NobodyServedAfterStop
  StopCompletes
CHECK_DEADLOCK FALSE
