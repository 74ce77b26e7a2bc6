SPECIFICATION Spec
CONSTANTS
  main = main
  aux = aux
  shopFile = shopFile
  order = order
  item = item
  sqlite_sequence = sqlite_sequence
  Versions <- MCVersions
  Databases <- MCDatabases
  Main = main
  File <- MCFile
  Memory = Memory
  Names <- MCNames
  Internal = {sqlite_sequence}
  Definitions <- MCDefinitions
  Created <- MCCreated
  Start <- MCStart
  MaxChanges = 2
  None = None
INVARIANTS
  UntouchedIsExact
  TablesAreOfMoments
CHECK_DEADLOCK FALSE
