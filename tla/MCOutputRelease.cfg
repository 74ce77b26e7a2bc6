SPECIFICATION FairSpec
CONSTANTS
  p1 = p1
  p2 = p2
  o1 = o1
  o2 = o2
  d1 = d1
  NoFile = NoFile
  Garbled = Garbled
  Procs <- MCProcs
  Outputs <- OneOutput
  Parent <- OneParent
  Forbidden = {}
  Failing <- AllButRelease
  CanCrash = FALSE
  MaxGens = 1
  MaxFaults = 1
  MaxEdits = 1
  CarelessUser = FALSE
  EditsDuringSwap = FALSE

CHECK_DEADLOCK FALSE
PROPERTIES LockReleased
