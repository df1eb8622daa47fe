SPECIFICATION SagaSpec
CONSTANTS
  Txns = {t1}
  Keys = {k1, k2, k3}
  Requests = {r1}
  Ops = {"propose", "execute"}
  Backend = "postgres"
  Exclusive = FALSE
  MaxCrashes = 1
  MaxFaults = 1
  Dedup = {}
  Reconcilable = {}
  Payload <- DistinctPayload
  None = None
  Irreversible = {k2}
  Compensable = {k1}
  Compensators = {k1}
  MaxSagas = 1
CONSTRAINT Bound
INVARIANTS
  RolledBackMeansUndone
  ReverseOrder
CHECK_DEADLOCK FALSE
