SPECIFICATION Spec
CONSTANTS
  Backends = {"memory", "postgres"}
  Proposals = {p1}
  Operators = {o1, o2}
  Attempts <- SomeAttempts
  Grants = {"g1", "g2"}
  Terms <- SomeTerms
  Drafts <- SomeDrafts
  Legacy <- OldRules
  Registrations <- SomeRegistrations
  Screened = TRUE
  Answers <- SomeAnswers
  Threshold = 70
  StartTime = 22
  MaxTime = 23
  MaxSets = 2
  MaxFaults = 1
CONSTRAINT Bound
SYMMETRY Symmetry
INVARIANTS
  OneActive
  StampedByItsRules
  AuthorityHonoured
  RefundLimits
PROPERTIES
  PolicyStays
