SPECIFICATION Spec
CONSTANTS
  t1 = t1
  t2 = t2
  vehicle = vehicle
  car = car
  Tables = {t1, t2}
  Columns = {c1}
  Facts = {int, text}
  Choices = {x}
  Mappings = {g}
  Names = {vehicle, car}
  NameOf <- MCNameOf
  Databases = {main, other}
  Database = main
  Selections <- MCSelections
  None = None
  NoFile = NoFile
  Broken = Broken
  Partial = Partial
  MaxCommands = 3
  MaxEdits = 1
  MaxChanges = 1
  MaxFaults = 1
SYMMETRY FactSymmetry
INVARIANTS
  TypeOK
  AllOrNothing
  OutputMatchesManifest
PROPERTIES
  KeepsChoices
  FactsAreFresh
  RefreshIsStable
CHECK_DEADLOCK FALSE
