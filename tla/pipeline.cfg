\* Two workers, two alerts, summaries and scrapes at any moment.
CONSTANTS
  Worker = {w1, w2}
  MaxAlerts = 2
SPECIFICATION Spec
INVARIANTS
  SummariesConserve
  CountersMatchOutput
PROPERTIES
  ScrapesConsistent
  QuietHourWasQuiet
SYMMETRY MCSymmetry
CHECK_DEADLOCK FALSE
