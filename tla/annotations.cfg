SPECIFICATION Spec
CONSTANTS
  Plans <- AllPlans
  Sources <- OneOrTwoTables
  Comments <- SomeComments
  Names = {"region", "email"}
  Clearances <- AllClearances
CHECK_DEADLOCK FALSE
INVARIANTS
  AllowedIsCovered
PROPERTIES
  StricterNeverAllows
