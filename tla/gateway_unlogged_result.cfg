SPECIFICATION Spec
CONSTANTS
  Plans = {p1}
  Requests = {r1}
  Sessions = {s1}
  Programs <- OrdersOnly
  Sources <- OneCatalogue
  Clearance = "internal"
  QueryLimit = 2
  MaxAttempts = 1
  MaxFaults = 1
  MaxLives = 1
  MaxRelabels = 0
SYMMETRY Symmetry
INVARIANTS
  ShownIsLogged
