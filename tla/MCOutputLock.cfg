SPECIFICATION Spec
CONSTANTS
  p1 = p1
  p2 = p2
  o1 = o1
  o2 = o2
  d1 = d1
  NoFile = NoFile
  Garbled = Garbled
  Procs <- MCProcs
  Outputs <- TwoOutputs
  Parent <- OneParent
  Forbidden = {}
  Failing <- AllSteps
  CanCrash = TRUE
  MaxGens = 1
  MaxFaults = 2
  MaxEdits = 0
  CarelessUser = FALSE
  EditsDuringSwap = FALSE
SYMMETRY Symmetry
CHECK_DEADLOCK FALSE
INVARIANTS MutualExclusion
PROPERTIES ReleasesOwnLock OnlyHolderWrites
