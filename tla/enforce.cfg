\* The kernel-module list has one usable entry more than its map holds.
CONSTANTS
  Entry <- MCEntry
  Usable <- MCUsable
  MapMax = 2
  Allowlist <- MCAllowlist
  MainComm = "kernelradar"
  WorkerComm = "tokio-rt-worker"
  Detector = {d1}
  MaxReplaced = 1
SPECIFICATION ISpec
INVARIANTS
  EnforcedOnlyWhole
  RunsWhatWasBuilt
  RelaxedRefusesNone
CHECK_DEADLOCK FALSE
