CONSTANTS
  MaxGen = 2
  MaxResets = 1
SPECIFICATION FileSpec
PROPERTIES
  ResetIsForgotten
CHECK_DEADLOCK FALSE
