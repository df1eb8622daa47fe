SPECIFICATION Spec
CONSTANTS
  Txns = {t1}
  Keys = {k1}
  Requests = {r1, r2}
  Ops = {"propose", "execute", "decide", "reconcile", "commit"}
  Backend = "memory"
  Exclusive = FALSE
  MaxCrashes = 0
  MaxFaults = 0
  Dedup = {}
  Reconcilable = {k1}
  Payload <- DistinctPayload
  None = None
INVARIANTS
  NoDoubleEffect
