SPECIFICATION Spec
CONSTANTS
  Backends = {"memory", "postgres"}
  NMigrations = 2
  Environments <- SomeEnvironments
  MaxEvents = 4
  Answers <- SomeAnswers
  Threshold = 70
  Tools = {"t1"}
  Bodies <- SomeBodies
  Secrets = {"s1"}
  LegacyRows <- OldRows
  Operators = {o1, o2}
  Calls = {1, 2}
CONSTRAINT Bound
CHECK_DEADLOCK FALSE
INVARIANTS
  MigratedOnce
  ServesSeeded
  SecretSurvives
  SentAsRegistered
  MissingHandlerNeedsRestart
  EntryFollowsRow
  BurstJudged
PROPERTIES
  EventuallyServing
