SPECIFICATION LiveSpec
CONSTANTS
  Plans = {p1, p2}
  Requests = {r1, r2}
  Sessions = {s1, s2}
  Programs <- CostlyOrDenied
  Sources <- OneCatalogue
  Clearance = "internal"
  QueryLimit = 2
  MaxAttempts = 1
  MaxFaults = 0
  MaxLives = 1
  MaxRelabels = 0
INVARIANTS
  TypeOK
  OneRunPerApproval
  DigestsAreOfRuns
  DenyIsFinal
  BudgetIsExact
  ShownIsLogged
  StatusIsTheLastWord
PROPERTIES
  LoopIsFreed
  ApprovalIsAnswered
