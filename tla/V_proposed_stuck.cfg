SPECIFICATION RetrySpec
CONSTANTS
  Txns = {t1}
  Keys = {k1}
  Requests = {r1}
  Ops = {"propose", "execute", "decide", "reconcile", "commit"}
  Backend = "postgres"
  Exclusive = FALSE
  MaxCrashes = 1
  MaxFaults = 0
  Dedup = {}
  Reconcilable = {k1}
  Payload <- DistinctPayload
  None = None
PROPERTIES
  DecisionReached
