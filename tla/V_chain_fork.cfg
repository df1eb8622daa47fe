SPECIFICATION Spec
CONSTANTS
  Orgs = {o1}
  Writers = {w1, w2}
  Payloads = {p1, p2}
  Backend = "postgres"
  MaxFaults = 0
  Corruptible = FALSE
  MaxReports = 2
  MaxCrashes = 0
  NoJob = NoJob
SYMMETRY Symmetry
INVARIANTS
  ChainIntact
CHECK_DEADLOCK FALSE
