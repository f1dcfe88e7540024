SPECIFICATION SpecService
CONSTANTS
  Plans = {p1, p2}
  Requests = {r1}
  Sessions = {s1}
  Programs <- OrdersOnly
  Sources <- OneCatalogue
  Clearance = "internal"
  QueryLimit = 2
  MaxAttempts = 1
  MaxFaults = 2
  MaxLives = 3
  MaxRelabels = 0
  NoPayload = NoPayload
  MaxAppends = 20
SYMMETRY Symmetry
INVARIANTS
  FileIsTheTrail
  RunsAreOnFile
  TrailIsUnbroken
PROPERTIES
  KeepsThePromise
