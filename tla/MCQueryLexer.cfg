SPECIFICATION Spec
CONSTANTS
  Letters = {"a", "E", "p"}
  Digits = {"1"}
  HighBytes = {"h"}
  Profiles <- MCProfiles
  MaxLength = 5
INVARIANTS
  TypeOK
  FragmentsCompose
  ProtectedTextIsOpaque
  EscapedParameterIsLiteral
CHECK_DEADLOCK FALSE
