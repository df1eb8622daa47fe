SPECIFICATION Spec
CONSTANTS
  Txns = {t1}
  Keys = {k1, k2}
  Requests = {r1, r2}
  Ops = {"propose", "execute", "decide", "reconcile", "commit"}
  Backend = "postgres"
  Exclusive = TRUE
  MaxCrashes = 1
  MaxFaults = 1
  Dedup = {k1}
  Reconcilable = {k1, k2}
  Payload <- DistinctPayload
  None = None
SYMMETRY RequestSymmetry
INVARIANTS
  ReceiptBacked
  RedispatchNeedsLoss
  AttestedOnce
