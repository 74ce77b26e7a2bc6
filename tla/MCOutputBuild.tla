--------------------------- MODULE MCOutputBuild ---------------------------
(* Instances of OutputBuild for TLC. *)
EXTENDS OutputBuild, TLC

CONSTANTS p1, p2, o1, o2, d1

MCProcs == {p1, p2}
OneOutput == {o1}
TwoOutputs == {o1, o2}
OneParent == [o \in Outputs |-> d1]

AllSteps == Steps
ReleaseSteps == {"dropOwner", "dropLock", "readOwner", "removeOwner", "removeLock"}
AllButRelease == Steps \ ReleaseSteps

ProcSymmetry == Permutations(MCProcs)
Symmetry == Permutations(MCProcs) \cup Permutations(TwoOutputs)
=============================================================================
