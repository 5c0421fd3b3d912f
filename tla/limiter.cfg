\* Three keys compete for two entries, an eviction sees both; the edges of both
\* windows, which are not aligned, lie within the time.
CONSTANTS
  Key = {k1, k2, k3}
  Severity = {0, 1}
  Window = 3
  WindowMax = 2
  BurstThreshold = 2
  BurstWindow = 2
  BackoffInitial = 2
  BackoffMax = 4
  KeysMax = 2
  SampleK = 2
  FarPast = 4
  MaxTime = 4
  MaxPerTick = 2
SPECIFICATION HSpec
INVARIANTS
  KeyCap
  SpanBelowTwoWindows
  FloodRaisesBurst
  HeldBackIsAccounted
PROPERTIES
  FreshestSurvive
  ImplementsWindowLimiter
SYMMETRY MCSymmetry
CHECK_DEADLOCK FALSE
