\* A table with a string and a number as keys that read alike.
CONSTANTS
  Texts = {"a", "b"}
  Fold <- MCFold
  CKey <- MCCKey
  CValue <- MCCValue
  Values = {"u"}
  Other = Other
  Tables <- MCTables
  Nil = Nil
  NotTable = NotTable
  MaxEntries = 2
SPECIFICATION FairSpec
PROPERTIES WalkEnds
