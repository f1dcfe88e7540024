SPECIFICATION Spec
CONSTANTS
  Plans = {p1}
  Requests = {r1, r2}
  Sessions = {s1}
  Programs <- AllPrograms
  Sources <- TwoCatalogues
  Clearance = "internal"
  QueryLimit = 2
  MaxAttempts = 2
  MaxFaults = 2
  MaxLives = 3
  MaxRelabels = 2
SYMMETRY Symmetry
INVARIANTS
  RunsAreAuthorised
  TrailIsUnbroken
  RecordsAreLogged
  ReadsInOrder
  LedgerInv
  ApprovalsAreAccountedFor
  ClearedUnlessRelabelled
PROPERTIES
  KeepsThePromise
