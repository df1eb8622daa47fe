\* An operator and an agent use the API while credentials are issued and revoked.
SPECIFICATION Spec
CONSTANTS
  Agents = {a1}
  Keys = {k1, k2}
  OpKey = op
  Requests = {r1, r2}
  Limit = 2
  Window = 2
  MaxTime = 3
  MaxArrivals = 4
  MaxCrashes = 1
  None = None
SYMMETRY Symmetry
\* The bounds on keys, requests and time end every run.
CHECK_DEADLOCK FALSE
INVARIANTS
  WindowBound
  RevokedNeverServed
PROPERTIES
  RefusedWhenFull
  SecretGoodUntilRevoked
