SPECIFICATION Spec
CONSTANTS
  Plans <- OrdersPlans
  Sources <- Catalogues
  RowsOf <- SmallTables
  Columns <- Names
  Adapters <- Postgres
  RawK <- Zero
  DefaultK = 2
  MaxRows = 4
  MaxRelabels = 1
INVARIANTS
  TaggedWithItsSnapshot
