SPECIFICATION Spec
CONSTANTS
  Pages = {p1, p2}
  WaitForSpill = TRUE
  RunLength = 1
  MaxClicks = 4
  MaxTroubles = 1
  MaxQueue = 1
INVARIANTS
  TypeOK
  RunCanBeStopped
PROPERTIES
  PageCatchesUp
  AutopilotKeepsRunning
CHECK_DEADLOCK FALSE
