CONSTANTS
  MaxGoFileStem = 6
  TypeMappings <- MCTypeMappings
  Inputs <- MCInputs
  Exercised <- MCExercised
  Half = 4
  Generated <- MCGenerated
  Others <- MCOthers
  Projections <- MCProjections
  MaxRows = 2
SPECIFICATION Spec
INVARIANTS PackageCompiles FileNameIsValid
PROPERTIES UnreadIsNeverWritten UpdateIsExact IdentityIsRead
VIEW WithoutReply
CHECK_DEADLOCK FALSE
