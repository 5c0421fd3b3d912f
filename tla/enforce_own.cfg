CONSTANTS
  Entry <- MCEntry
  Usable <- MCUsable
  MapMax = 3
  Allowlist <- MCAllowlist
  MainComm = "kernelradar"
  WorkerComm = "tokio-rt-worker"
  Detector = {d1}
SPECIFICATION Spec
INVARIANTS
  OwnLoadsNotDenied
CHECK_DEADLOCK FALSE
