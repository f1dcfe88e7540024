SPECIFICATION Spec
CONSTANTS
  Plans <- AllPlans
  Sources <- Catalogues
  RowsOf <- Tables
  Columns <- Names
  Adapters <- AllAdapters
  RawK <- Zero
  DefaultK = 2
  MaxRows = 4
  MaxRelabels = 1
INVARIANTS
  TypeOK
  BackedByK
  NothingDroppedSilently
  UnreachableIsUnreachable
  LabelIsThePolicys
PROPERTIES
  Terminates
