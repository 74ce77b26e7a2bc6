SPECIFICATION Spec
CONSTANTS
  shop = shop
  other = other
  MaxRows = 3
  Dialects = {"postgres", "mysql", "sqlserver"}
  Catalogs <- MCCatalogs
  Keys <- MCKeys
  Blank = Blank
  None = None
INVARIANTS
  TypeOK
  WholeCatalog
  KeysAreWhole
  OrderIsIrrelevant
CHECK_DEADLOCK FALSE
