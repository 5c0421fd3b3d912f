\* Two CPUs, a ring of two records, four events, one restart.  Liveness: no
\* symmetry.
CONSTANTS
  Cpu = {c1, c2}
  Capacity = 2
  MaxEvents = 4
  MaxStarts = 2
SPECIFICATION FairSpec
INVARIANTS
  LossIsCounted
  NoSleepOverWork
PROPERTIES
  EventsAreHandled
CHECK_DEADLOCK FALSE
