\* Three pairs for a table of two: cap reached, oversized and stale loads,
\* a day of two one-minute hours, a clock that may be set back.
CONSTANTS
  Pair = {p1, p2, p3}
  PairsMax = 2
  EvictAge = 2
  LearningTime = 1
  MinSamples = 2
  DropDivisor = 10
  HoursPerDay = 2
  MinutesPerHour = 1
  LoadedSamples = 1
  MaxClockMoves = 4
  MaxPerMinute = 3
SPECIFICATION Spec
INVARIANTS
  NoOrphanMinutes
  EventsLandInTheirHour
PROPERTIES
  GrowsOnlyWithinCap
  OldestForgottenFirst
  FloodDoesNotTrain
SYMMETRY MCSymmetry
CHECK_DEADLOCK FALSE
