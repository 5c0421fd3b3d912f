\* Two detectors that are awaited, one reader that is not, an operator who
\* may signal at any moment and insists.  Liveness: no symmetry.
CONSTANTS
  Detector = {d1, d2}
  Reader = {r1}
  AskOnce = FALSE
  MaxEvents = 2
SPECIFICATION InsistentSpec
INVARIANTS
  GracefulStopKeepsAll
PROPERTIES
  JoinedIsKept
  StopsOnlyWhenAsked
  InsistenceStops
CHECK_DEADLOCK FALSE
