SPECIFICATION Spec
CONSTANTS
  Outputs <- SomeOutputs
  Fixtures <- AllFixtures
  AttemptLimit = 3
INVARIANTS
  ReturnedIsRunnable
  ScenariosHold
  TraceIsHistory
  RepairsMatchAttempts
PROPERTIES
  Terminates
