SPECIFICATION Spec
CONSTANTS
  Fields <- MCFields
  Key = "id"
  Values = {0, 1, 2, 3, 4}
  Clients = {c1, c2}
  Menu <- MCMenu
  Tables <- MCTables
  MaxCount = 1
  IntMax = 7
  Invalid = Invalid
INVARIANTS
  TypeOK
  PageExact
  WalkComplete
  RetriesHarmless
PROPERTIES
  StatementsMean
  EveryCallReturns
