SPECIFICATION Spec
CONSTANTS
  Payloads = {d1, d2}
  NoPayload = NoPayload
  MaxAppends = 2
  MaxFaults = 1
  MaxLives = 2
  MaxTampers = 0
SYMMETRY Symmetry
INVARIANTS
  NothingSkipped
