\* Tables of up to two entries in every order, calls one after the other.
CONSTANTS
  Texts = {"a", "b", "c"}
  Fold <- MCFold
  CKey <- MCCKey
  CValue <- MCCValue
  Values = {"u", "v", "w"}
  Other = Other
  Tables <- MCTables
  Nil = Nil
  NotTable = NotTable
  MaxEntries = 2
SPECIFICATION FairSpec
INVARIANTS TypeOK RequestIsComplete
PROPERTIES CallEnds
