SPECIFICATION Spec
CONSTANTS
  p1 = p1
  p2 = p2
  o1 = o1
  o2 = o2
  d1 = d1
  NoFile = NoFile
  Garbled = Garbled
  Procs <- MCProcs
  Outputs <- OneOutput
  Parent <- OneParent
  Forbidden = {}
  Failing <- AllSteps
  CanCrash = TRUE
  MaxGens = 2
  MaxFaults = 2
  MaxEdits = 1
  CarelessUser = FALSE
  EditsDuringSwap = FALSE
SYMMETRY ProcSymmetry
CHECK_DEADLOCK FALSE
INVARIANTS TypeOK Recoverable NoPartialOutput TruthfulResult CleanUnlessFaulted
PROPERTIES UnmanagedUntouched AtomicSpec
