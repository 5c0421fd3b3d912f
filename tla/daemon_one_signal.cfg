CONSTANTS
  Detector = {d1, d2}
  Reader = {}
  AskOnce = TRUE
  MaxEvents = 1
SPECIFICATION FairSpec
PROPERTIES
  OneSignalStops
CHECK_DEADLOCK FALSE
