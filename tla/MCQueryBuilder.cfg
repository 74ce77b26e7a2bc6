SPECIFICATION Spec
CONSTANTS
  a = a
  b = b
  x = x
  y = y
  Names = {a, b}
  InvalidNames = {bad}
  NameLength = 1
  Text = Text
  Colon = Colon
  Comma = Comma
  Escape = Escape
  Refused = Refused
  Atoms = {x, y}
  Values <- MCValues
  Fragments <- MCFragments
  None = None
  MaxFragments = 2
  MaxBinds = 2
  MaxChanges = 1
INVARIANTS
  TypeOK
  StatementMeansBindings
  FirstMistakeReported
  ReservedSizeSuffices
