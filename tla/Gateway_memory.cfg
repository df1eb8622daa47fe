SPECIFICATION Spec
CONSTANTS
  Txns = {t1}
  Keys = {k1, k2}
  Requests = {r1, r2}
  Ops = {"propose", "execute", "decide", "reconcile", "commit"}
  Backend = "memory"
  Exclusive = FALSE
  MaxCrashes = 0
  MaxFaults = 0
  Dedup = {}
  Reconcilable = {k1, k2}
  Payload <- DistinctPayload
  None = None
SYMMETRY Symmetry
INVARIANTS
  TypeOK
  DeniedNeverDispatched
  ApprovalGate
  ReceiptBacked
  HalfDoneHasHandler
PROPERTIES
  DecisionFinal
  IllegalMoveIsStale
