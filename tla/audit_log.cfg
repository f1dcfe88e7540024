SPECIFICATION Spec
CONSTANTS
  Payloads = {d1, d2}
  NoPayload = NoPayload
  MaxAppends = 3
  MaxFaults = 2
  MaxLives = 2
  MaxTampers = 1
SYMMETRY Symmetry
INVARIANTS
  VerifiedMeansComplete
  VerifiedMeansGenuine
  MemoryMatchesFile
  ViewIsComplete
  FalseBreakIsInProgress
PROPERTIES
  KeepsTheTrail
