SPECIFICATION Spec
CONSTANTS
  Orgs = {o1}
  Writers = {w1, w2}
  Payloads = {p1, p2}
  Backend = "postgres"
  MaxFaults = 2
  Corruptible = FALSE
  MaxReports = 3
  MaxCrashes = 1
  NoJob = NoJob
SYMMETRY Symmetry
INVARIANTS
  BreakIsExplained
  ReportedIsStored
  UnsignedIsAttended
CHECK_DEADLOCK FALSE
