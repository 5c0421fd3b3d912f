\* Three events, two resets, kills and power losses without a bound.
CONSTANTS
  MaxGen = 3
  MaxResets = 2
SPECIFICATION FileSpec
INVARIANTS
  FileNeverTorn
  ResetOfStoppedSticks
PROPERTIES
  RestartKeepsSaves
  ImplementsAtomicFile
CHECK_DEADLOCK FALSE
