SPECIFICATION Spec
CONSTANTS
  Orgs = {o1, o2}
  Writers = {w1, w2}
  Payloads = {p1, p2}
  Backend = "memory"
  MaxFaults = 0
  Corruptible = TRUE
  MaxReports = 2
  MaxCrashes = 0
  NoJob = NoJob
SYMMETRY Symmetry
INVARIANTS
  ChainIntact
  CorruptionReported
CHECK_DEADLOCK FALSE
