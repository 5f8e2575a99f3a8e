\* Two query parameters.
CONSTANTS
  Texts = {"a", "b"}
  Fold <- MCFold
  CKey <- MCCKey
  CValue <- MCCValue
  Values = {"u"}
  Other = Other
  Tables <- MCTables
  Nil = Nil
  NotTable = NotTable
  MaxEntries = 2
SPECIFICATION Spec
INVARIANTS QueryArrives
