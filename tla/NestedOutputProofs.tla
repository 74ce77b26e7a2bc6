------------------------- MODULE NestedOutputProofs -------------------------
(***************************************************************************)
(* Proofs about NestedOutput, checked by TLAPS, for every number of renders *)
(* of gen and of gen/models: type correctness, that the last complete gen  *)
(* is never lost, that what a render of gen/models reports is true, and    *)
(* that nothing is left in gen when all have returned.                     *)
(*                                                                         *)
(* LastRenderKept is not inductive: that a rename may put gen where the    *)
(* backup was needs SwapInv, which says between which steps the backup     *)
(* holds anything, and that a gen that is not there has no marker.         *)
(* ReportIsTrue and NothingLeftBehind speak of renders that have returned; *)
(* ReportInv says, for every call of a render, what it may have left in the *)
(* gen that is at the path now, which need not be the one it began in.     *)
(***************************************************************************)
EXTENDS NestedOutput, TLAPS

(* What ARollback and AMoveOut rely on (output.go, replace). *)
SwapInv ==
  /\ ~outer.there => outer.gen = 0
  /\ ~abackup.there => abackup.gen = 0
  /\ apc \notin {"moveIn", "rollback", "dropBackup"} => abackup.gen = 0
  /\ apc = "dropBackup" => outer.gen = kept

-----------------------------------------------------------------------------
(* Types. *)

(* The trees the steps put at gen are trees.                               *)
LEMMA TreeType ==
  /\ Gone \in Trees /\ Bare \in Trees
  /\ \A g \in 0 .. MaxRenders + 1 : Made(g) \in Trees
  /\ \A t \in Trees : MkdirAll(t) \in Trees
<1>0. NoSub \in Subs
  BY DEF NoSub, Subs, Origins
<1>1. ASSUME NEW g \in 0 .. MaxRenders + 1 PROVE Made(g) \in Trees
  BY <1>0 DEF Made, Trees
<1>2. 0 \in 0 .. MaxRenders + 1
  BY MaxRendersAssumption
<1>3. Made(0) \in Trees
  BY <1>1, <1>2
<1>4. Bare \in Trees /\ Gone \in Trees
  BY <1>3 DEF Bare, Gone, Trees
<1> QED BY <1>1, <1>4 DEF MkdirAll

(* Every step of a render of gen/models keeps the types, and whatever it   *)
(* does to the tree at gen it does not change of which render it is.       *)
LEMMA InnerStep ==
  ASSUME TypeOK, SwapInv, NEW d \in Inner, Step(d)
  PROVE  /\ TypeOK'
         /\ UNCHANGED ancestor
         /\ outer'.gen = outer.gen
         /\ ~outer'.there => ~outer.there
<1> DEFINE Good == /\ outer' \in Trees /\ outer'.gen = outer.gen /\ (~outer'.there => ~outer.there)
                   /\ pc' \in [Inner -> {"done"} \cup Steps]
                   /\ result' \in [Inner -> {"nil", "error", "committed"}]
                   /\ UNCHANGED ancestor
                   /\ saved' \in [Inner -> BOOLEAN]
                   /\ into' \in [Inner -> -1 .. MaxRenders + 1]
                   /\ overtaken' \subseteq Inner
<1> USE TypeOK, SwapInv, MaxRendersAssumption
        DEF TypeOK, Steps, LockSteps, At, Goto, Ok, Fail, JoinError
<1> SUFFICES Good
  <2> HIDE DEF Steps, LockSteps
  <2> QED BY DEF ancestor
<1>2. CASE Prepare(d)
  BY <1>2 DEF Prepare, Look
<1>3. CASE MkdirParent(d)
  <2>1. outer' = MkdirAll(outer)
    BY <1>3 DEF MkdirParent
  <2>2. outer' \in Trees
    BY <2>1, TreeType
  <2>3. outer'.gen = outer.gen /\ (~outer'.there => ~outer.there)
    BY <2>1 DEF MkdirAll, Bare, Made, SwapInv
  <2> QED BY <1>3, <2>2, <2>3 DEF MkdirParent
<1>4. CASE Verify(d)
  BY <1>4 DEF Verify, Look
<1>5. CASE TakeLock(d)
  BY <1>5 DEF TakeLock, Trees
<1>6. CASE WriteOwner(d)
  BY <1>6 DEF WriteOwner, Trees
<1>7. CASE DropOwner(d)
  BY <1>7 DEF DropOwner, Trees
<1>8. CASE DropLock(d)
  BY <1>8 DEF DropLock, Trees
<1>9. CASE Recheck(d)
  BY <1>9 DEF Recheck, Look
<1>10. CASE Inspect(d)
  BY <1>10 DEF Inspect, Look
<1>11. CASE Stage(d)
  BY <1>11 DEF Stage, Trees
<1>12. CASE Mark(d)
  BY <1>12 DEF Mark, Trees
<1>13. CASE Fill(d)
  <2>1. MkdirAll(outer) \in Trees
    BY TreeType
  <2>2. MkdirAll(outer).gen = outer.gen /\ (~MkdirAll(outer).there => ~outer.there)
    BY DEF MkdirAll, Bare, Made, SwapInv
  <2> QED BY <1>13, <2>1, <2>2 DEF Fill, Trees
<1>14. CASE Write(d)
  BY <1>14 DEF Write, Look
<1>15. CASE SetMode(d)
  BY <1>15 DEF SetMode, Look
<1>16. CASE BeginSwap(d)
  BY <1>16 DEF BeginSwap, Look
<1>17. CASE Stat(d)
  BY <1>17 DEF Stat, Look
<1>18. CASE MoveOut(d)
  <2>1. NoSub \in Subs
    BY DEF NoSub, Subs, Origins
  <2>2. outer.sub \in Subs /\ outer.backups \in [Inner -> Subs]
    BY DEF Trees
  <2>3. [outer.backups EXCEPT ![d] = outer.sub] \in [Inner -> Subs]
    BY <2>2
  <2>4. CASE outer.sub # NoSub
    <3>1. outer' = [outer EXCEPT !.backups = [outer.backups EXCEPT ![d] = outer.sub], !.sub = NoSub]
      BY <1>18, <2>4 DEF MoveOut
    <3>2. outer' \in Trees /\ outer'.gen = outer.gen /\ outer'.there = outer.there
      BY <3>1, <2>1, <2>3 DEF Trees
    <3> QED BY <1>18, <2>4, <3>2 DEF MoveOut
  <2>5. CASE outer.sub = NoSub
    BY <1>18, <2>5 DEF MoveOut
  <2> QED BY <2>4, <2>5
<1>19. CASE MoveIn(d)
  <2>1. \A marked \in BOOLEAN : Subtree(d, marked) \in Subs
    BY DEF Subtree, Subs, Origins
  <2>2. outer.gen \in -1 .. MaxRenders + 1
    BY DEF Trees
  <2>3. CASE outer.stages[d] # "none" /\ outer.sub = NoSub
    <3> DEFINE new == Subtree(d, outer.stages[d] = "marked")
               empty == [outer.stages EXCEPT ![d] = "none"]
    <3>1. outer' = [outer EXCEPT !.sub = new, !.stages = empty]
      BY <1>19, <2>3 DEF MoveIn
    <3>2. new \in Subs /\ empty \in [Inner -> {"none", "unmarked", "marked"}]
      BY <2>1 DEF Trees
    <3>3. outer' \in Trees /\ outer'.gen = outer.gen /\ outer'.there = outer.there
      BY <3>1, <3>2 DEF Trees
    <3> QED BY <1>19, <2>2, <2>3, <3>3 DEF MoveIn
  <2>4. CASE ~(outer.stages[d] # "none" /\ outer.sub = NoSub)
    BY <1>19, <2>4 DEF MoveIn
  <2> QED BY <2>3, <2>4
<1>20. CASE Rollback(d)
  <2>1. NoSub \in Subs
    BY DEF NoSub, Subs, Origins
  <2>2. outer.sub \in Subs /\ outer.backups \in [Inner -> Subs]
    BY DEF Trees
  <2>3. outer' \in Trees /\ outer'.gen = outer.gen /\ outer'.there = outer.there
    BY <1>20, <2>1, <2>2 DEF Rollback, Trees
  <2>4. Ok(d, "cleanStaging") /\ UNCHANGED <<ancestor, saved, into, overtaken>>
    BY <1>20 DEF Rollback
  <2> QED BY <2>3, <2>4
<1>21. CASE DropBackup(d)
  <2>1. NoSub \in Subs
    BY DEF NoSub, Subs, Origins
  <2> QED BY <1>21, <2>1 DEF DropBackup, Trees
<1>22. CASE CleanStaging(d)
  BY <1>22 DEF CleanStaging, Trees
<1>23. CASE ReadOwner(d)
  BY <1>23 DEF ReadOwner
<1>24. CASE RemoveOwner(d)
  BY <1>24 DEF RemoveOwner, Trees
<1>25. CASE RemoveLock(d)
  BY <1>25 DEF RemoveLock, Trees
<1> QED
  BY <1>2, <1>3, <1>4, <1>5, <1>6, <1>7, <1>8, <1>9, <1>10, <1>11, <1>12, <1>13, <1>14,
     <1>15, <1>16, <1>17, <1>18, <1>19, <1>20, <1>21, <1>22, <1>23, <1>24, <1>25 DEF Step

(* Every step of a render of gen keeps the types.                          *)
LEMMA AncestorType ==
  ASSUME TypeOK, ANext
  PROVE  TypeOK'
<1> USE TypeOK, MaxRendersAssumption DEF TypeOK, inner, AStep, ASteps
<1>1. CASE AStart
  BY <1>1 DEF AStart
<1>2. CASE AInspect \/ ASwap \/ AStat
  BY <1>2 DEF AInspect, ASwap, AStat
<1>3. CASE AMoveOut
  BY <1>3, TreeType DEF AMoveOut
<1>4. CASE AMoveIn
  <2>1. renders + 1 \in 0 .. MaxRenders + 1
    OBVIOUS
  <2>2. Made(renders + 1) \in Trees
    BY <2>1, TreeType
  <2> QED BY <1>4, <2>1, <2>2 DEF AMoveIn
<1>5. CASE ARollback
  <2>1. abackup.gen \in 0 .. MaxRenders + 1
    BY DEF Trees
  <2> QED BY <1>5, <2>1, TreeType DEF ARollback
<1>6. CASE ADropBackup
  BY <1>6, TreeType DEF ADropBackup
<1> QED BY <1>1, <1>2, <1>3, <1>4, <1>5, <1>6 DEF ANext

(* The program starts with values of the right types.                      *)
LEMMA InitType ==
  ASSUME Init
  PROVE  TypeOK
<1>1. 0 \in 0 .. MaxRenders + 1 /\ 1 \in 0 .. MaxRenders + 1
  BY MaxRendersAssumption
<1>2. Made(1) \in Trees /\ Gone \in Trees /\ Bare \in Trees
  BY <1>1, TreeType
<1>3. \A s \in {Subtree(Earlier, TRUE), Subtree(User, FALSE)} : [Bare EXCEPT !.sub = s] \in Trees
  <2>1. Subtree(Earlier, TRUE) \in Subs /\ Subtree(User, FALSE) \in Subs
    BY DEF Subtree, Subs, Origins
  <2> QED BY <2>1, <1>2 DEF Trees
<1>4. outer \in Trees
  BY <1>2, <1>3 DEF Init
<1>5. outer.gen \in 0 .. MaxRenders + 1
  BY <1>4 DEF Trees
<1> QED BY <1>1, <1>2, <1>4, <1>5, MaxRendersAssumption DEF Init, TypeOK, Steps

-----------------------------------------------------------------------------
(* The last complete gen. *)

(* A render of gen sets aside, installs and puts back without losing the   *)
(* last complete gen, also when gen was made anew between its two renames. *)
LEMMA AncestorStep ==
  ASSUME TypeOK, SwapInv, LastRenderKept, ANext
  PROVE  SwapInv' /\ LastRenderKept'
<1> USE TypeOK, SwapInv, LastRenderKept DEF SwapInv, LastRenderKept, AStep, inner
<1>1. Gone.gen = 0 /\ ~Gone.there
  BY DEF Gone, Made
<1>2. CASE AStart
  BY <1>2 DEF AStart
<1>3. CASE AInspect \/ ASwap \/ AStat
  BY <1>3 DEF AInspect, ASwap, AStat
<1>4. CASE AMoveOut
  BY <1>4, <1>1 DEF AMoveOut
<1>5. CASE AMoveIn
  <2>1. Made(renders + 1).gen = renders + 1 /\ Made(renders + 1).there
    BY DEF Made
  <2> QED BY <1>5, <2>1 DEF AMoveIn
<1>6. CASE ARollback
  BY <1>6, <1>1 DEF ARollback
<1>7. CASE ADropBackup
  BY <1>7, <1>1 DEF ADropBackup
<1> QED BY <1>2, <1>3, <1>4, <1>5, <1>6, <1>7 DEF ANext

(* The inductive invariant. *)
NestedInv == TypeOK /\ SwapInv /\ LastRenderKept

(* NestedInv holds at first and after every step.                          *)
LEMMA NestedInductive ==
  Spec => []NestedInv
<1>1. Init => NestedInv
  <2> SUFFICES ASSUME Init PROVE NestedInv
    OBVIOUS
  <2>1. Gone.gen = 0 /\ Gone.there = FALSE /\ Bare.gen = 0 /\ Bare.there = TRUE /\ Made(1).there = TRUE
    BY DEF Gone, Bare, Made
  <2>2. \A s : [Bare EXCEPT !.sub = s].there = TRUE
    BY DEF Bare, Made
  <2>3. ~outer.there => outer.gen = 0
    BY <2>1, <2>2 DEF Init
  <2> QED BY <2>1, <2>3, InitType DEF Init, NestedInv, SwapInv, LastRenderKept
<1>2. NestedInv /\ [Next]_vars => NestedInv'
  <2> SUFFICES ASSUME NestedInv, [Next]_vars PROVE NestedInv'
    OBVIOUS
  <2>1. CASE UNCHANGED vars
    BY <2>1 DEF vars, ancestor, inner, NestedInv, TypeOK, SwapInv, LastRenderKept
  <2>2. CASE ANext
    BY <2>2, AncestorType, AncestorStep DEF NestedInv
  <2>3. ASSUME NEW d \in Inner, Step(d) PROVE NestedInv'
    <3>1. /\ TypeOK' /\ UNCHANGED ancestor /\ outer'.gen = outer.gen
          /\ ~outer'.there => ~outer.there
      BY <2>3, InnerStep DEF NestedInv
    <3> QED BY <3>1 DEF NestedInv, SwapInv, LastRenderKept, ancestor
  <2> QED BY <2>1, <2>2, <2>3 DEF Next
<1> QED BY <1>1, <1>2, PTL DEF Spec

(* The variables keep their types, for every set of renders.               *)
THEOREM NestedTypeCorrect == Spec => []TypeOK
<1>1. NestedInv => TypeOK
  BY DEF NestedInv
<1> QED BY <1>1, NestedInductive, PTL

(* The last complete gen is never lost: it is at its path or under a       *)
(* backup's name, however many renders of gen/models interfere (replace).  *)
THEOREM LastRenderIsKept == Spec => []LastRenderKept
<1>1. NestedInv => LastRenderKept
  BY DEF NestedInv
<1> QED BY <1>1, NestedInductive, PTL
-----------------------------------------------------------------------------
(* Renders of gen/models. *)

(* What a render has, by the call it makes next.                           *)

(* It may have a staging directory. *)
Staging == {"mark", "fill", "write", "chmod", "swap", "stat", "moveOut", "moveIn", "rollback",
            "cleanStaging"}
(* The staging directory it made under its lock had its marker. *)
Marked == {"fill", "write", "chmod", "swap", "stat", "moveOut", "moveIn"}
(* Its tree may be installed. *)
Installed == {"dropBackup", "readOwner", "removeOwner", "removeLock", "done"}
(* It has failed unless its tree is installed. *)
Ending == Installed \cup {"dropOwner", "dropLock", "rollback", "cleanStaging"}
(* It may own the lock at gen, and what is left of that in a marked gen. *)
Owning == {"recheck", "inspect", "stage", "dropBackup", "readOwner", "removeOwner"} \cup Staging
OwningManaged == {"recheck", "readOwner", "removeOwner"}
(* It removes a lock without an owner, or becomes its owner. *)
Unlocking == {"writeOwner", "dropOwner", "dropLock", "removeLock"}

(* Every call of a render leaves what the later ones rely on (Build and its
   deferred calls), whatever gen has become in between. *)
StepInv(d) ==
  /\ outer.stages[d] # "none" => pc[d] \in Staging
  /\ into[d] >= 0 => pc[d] \in Installed
  /\ pc[d] \in Ending /\ into[d] = -1 => result[d] # "nil"
  /\ outer.backups[d] # NoSub =>
       \/ saved[d] /\ pc[d] \in {"moveIn", "dropBackup"}
       \/ /\ pc[d] \in {"rollback", "cleanStaging", "readOwner", "removeOwner", "removeLock", "done"}
          /\ result[d] = "error" /\ into[d] = -1

(* The lock of the gen that is there. *)
LockInv(d) ==
  outer.lock = d =>
    /\ pc[d] \in Owning
    /\ outer.gen > 0 => pc[d] \in OwningManaged /\ into[d] = -1
    /\ pc[d] \in Marked => outer.stages[d] = "marked"

UnownedInv == outer.lock = "unowned" => \E d \in Inner : pc[d] \in Unlocking

(* Where a render has put a tree that its caller did not ask for, it finds that
   the lock is not its own, and says so. *)
Unmarked(d) ==
  outer.sub = Subtree(d, FALSE) \/ \E e \in Inner : outer.backups[e] = Subtree(d, FALSE)

MisplacedInv(d) ==
  into[d] > 0 \/ Unmarked(d) =>
    /\ into[d] >= 0
    /\ outer.lock # d
    /\ pc[d] \notin {"removeOwner", "removeLock"}
    /\ pc[d] = "done" => result[d] = "committed"

(* The tree of a render is at gen/models, or in a backup that is not about to be
   removed, and no render of gen is past its last look. *)
TreeKept ==
  \/ outer.sub.from \in Inner
  \/ \E e \in Inner : outer.backups[e].from \in Inner /\ pc[e] # "dropBackup"

Protected == outer.there /\ outer.gen = 0 /\ TreeKept /\ apc \notin {"stat", "moveOut"}

ProtectedInv(d) == into[d] = 0 /\ d \notin overtaken => Protected

(* There is nothing in a gen that is not there, and a rollback finds gen. *)
PathInv ==
  /\ ~outer.there =>
       /\ outer.lock = "free" /\ outer.sub = NoSub
       /\ \A d \in Inner : outer.stages[d] = "none" /\ outer.backups[d] = NoSub
  /\ apc = "rollback" => outer.there

ReportInv ==
  /\ PathInv /\ UnownedInv
  /\ \A d \in Inner : StepInv(d) /\ LockInv(d) /\ MisplacedInv(d) /\ ProtectedInv(d)

(* Every call of a render of gen/models keeps the account, whatever the renders *)
(* of gen and of gen/models have done since its last one.                  *)
LEMMA InnerReport ==
  ASSUME TypeOK, SwapInv, ReportInv, NEW d \in Inner, Step(d)
  PROVE  ReportInv'
<1> USE InnerAssumption
        DEF TypeOK, At, Goto, Ok, Fail, JoinError, Look, Owning, OwningManaged, Unlocking,
            Staging, Marked, Installed, Ending, ReportInv, ancestor
<1>0. outer' \in Trees /\ outer'.gen = outer.gen
  BY InnerStep
<1>1. CASE Prepare(d) \/ Verify(d) \/ Inspect(d) \/ Write(d) \/ SetMode(d) \/ BeginSwap(d) \/ Stat(d)
  <2> USE <1>1, <1>0 DEF Prepare, Verify, Inspect, Write, SetMode, BeginSwap, Stat, Trees
  <2>1. PathInv'
    BY DEF PathInv
  <2>2. UnownedInv'
    BY DEF UnownedInv
  <2>3. \A e \in Inner : StepInv(e)'
    BY DEF StepInv
  <2>4. \A e \in Inner : LockInv(e)'
    BY DEF LockInv, StepInv
  <2>5. \A e \in Inner : Unmarked(e)' => Unmarked(e)
    BY DEF Unmarked
  <2>6. \A e \in Inner : MisplacedInv(e)'
    BY <2>5 DEF MisplacedInv, StepInv, LockInv
  <2>7. \A e \in Inner : ProtectedInv(e)'
    BY DEF ProtectedInv, Protected, TreeKept, StepInv
  <2> QED BY <2>1, <2>2, <2>3, <2>4, <2>6, <2>7
<1>2. CASE Recheck(d)
  <2> USE <1>2, <1>0 DEF Recheck, Trees
  <2>1. PathInv'
    BY DEF PathInv
  <2>2. UnownedInv'
    BY DEF UnownedInv
  <2>3. \A e \in Inner : StepInv(e)'
    BY DEF StepInv
  <2>4. \A e \in Inner : LockInv(e)'
    BY DEF LockInv, StepInv, Managed, SwapInv
  <2>5. \A e \in Inner : Unmarked(e)' => Unmarked(e)
    BY DEF Unmarked
  <2>6. \A e \in Inner : MisplacedInv(e)'
    BY <2>5 DEF MisplacedInv, StepInv, LockInv
  <2>7. \A e \in Inner : ProtectedInv(e)'
    BY DEF ProtectedInv, Protected, TreeKept, StepInv
  <2> QED BY <2>1, <2>2, <2>3, <2>4, <2>6, <2>7
<1>3. CASE MkdirParent(d)
  <2>0. /\ outer' = MkdirAll(outer)
        /\ outer'.there /\ outer'.lock = outer.lock /\ outer'.sub = outer.sub
        /\ \A e \in Inner : outer'.stages[e] = outer.stages[e] /\ outer'.backups[e] = outer.backups[e]
    BY <1>3 DEF MkdirParent, MkdirAll, Bare, Made, PathInv
  <2> USE <1>3, <1>0, <2>0 DEF MkdirParent, Trees
  <2>1. PathInv'
    BY DEF PathInv
  <2>2. UnownedInv'
    BY DEF UnownedInv
  <2>3. \A e \in Inner : StepInv(e)'
    BY DEF StepInv
  <2>4. \A e \in Inner : LockInv(e)'
    BY DEF LockInv, StepInv
  <2>5. \A e \in Inner : Unmarked(e)' => Unmarked(e)
    BY DEF Unmarked
  <2>6. \A e \in Inner : MisplacedInv(e)'
    BY <2>5 DEF MisplacedInv, StepInv, LockInv
  <2>7. \A e \in Inner : ProtectedInv(e)'
    BY DEF ProtectedInv, Protected, TreeKept, StepInv
  <2> QED BY <2>1, <2>2, <2>3, <2>4, <2>6, <2>7
<1>4. CASE TakeLock(d)
  <2> USE <1>4, <1>0 DEF TakeLock, Trees
  <2>1. PathInv'
    BY DEF PathInv
  <2>2. UnownedInv'
    BY DEF UnownedInv
  <2>3. \A e \in Inner : StepInv(e)'
    BY DEF StepInv
  <2>4. \A e \in Inner : LockInv(e)'
    BY DEF LockInv, StepInv
  <2>5. \A e \in Inner : Unmarked(e)' => Unmarked(e)
    <3>1. outer'.sub = outer.sub /\ outer'.backups = outer.backups
      OBVIOUS
    <3> QED BY <3>1 DEF Unmarked
  <2>6. \A e \in Inner : MisplacedInv(e)'
    BY <2>5 DEF MisplacedInv, StepInv, LockInv
  <2>7. \A e \in Inner : ProtectedInv(e)'
    BY DEF ProtectedInv, Protected, TreeKept, StepInv
  <2> QED BY <2>1, <2>2, <2>3, <2>4, <2>6, <2>7
<1>5. CASE WriteOwner(d)
  <2> USE <1>5, <1>0 DEF WriteOwner, Trees
  <2>1. PathInv'
    BY DEF PathInv
  <2>2. UnownedInv'
    BY DEF UnownedInv
  <2>3. \A e \in Inner : StepInv(e)'
    BY DEF StepInv
  <2>4. \A e \in Inner : LockInv(e)'
    BY DEF LockInv, StepInv
  <2>5. \A e \in Inner : Unmarked(e)' => Unmarked(e)
    <3>1. outer'.sub = outer.sub /\ outer'.backups = outer.backups
      OBVIOUS
    <3> QED BY <3>1 DEF Unmarked
  <2>6. \A e \in Inner : MisplacedInv(e)'
    BY <2>5 DEF MisplacedInv, StepInv, LockInv
  <2>7. \A e \in Inner : ProtectedInv(e)'
    BY DEF ProtectedInv, Protected, TreeKept, StepInv
  <2> QED BY <2>1, <2>2, <2>3, <2>4, <2>6, <2>7
<1>6. CASE DropOwner(d) \/ DropLock(d)
  <2> USE <1>6, <1>0 DEF DropOwner, DropLock, Trees
  <2>1. PathInv'
    BY DEF PathInv
  <2>2. UnownedInv'
    BY DEF UnownedInv
  <2>3. \A e \in Inner : StepInv(e)'
    BY DEF StepInv
  <2>4. \A e \in Inner : LockInv(e)'
    BY DEF LockInv, StepInv
  <2>5. \A e \in Inner : Unmarked(e)' => Unmarked(e)
    BY ZenonT(60) DEF Unmarked
  <2>6. \A e \in Inner : MisplacedInv(e)'
    BY <2>5 DEF MisplacedInv, StepInv, LockInv
  <2>7. \A e \in Inner : ProtectedInv(e)'
    BY DEF ProtectedInv, Protected, TreeKept, StepInv
  <2> QED BY <2>1, <2>2, <2>3, <2>4, <2>6, <2>7
<1>7. CASE Stage(d)
  <2> USE <1>7, <1>0 DEF Stage, Trees
  <2>1. PathInv'
    BY DEF PathInv
  <2>2. UnownedInv'
    BY DEF UnownedInv
  <2>3. \A e \in Inner : StepInv(e)'
    BY DEF StepInv
  <2>4. \A e \in Inner : LockInv(e)'
    BY DEF LockInv, StepInv
  <2>5. \A e \in Inner : Unmarked(e)' => Unmarked(e)
    BY ZenonT(60) DEF Unmarked
  <2>6. \A e \in Inner : MisplacedInv(e)'
    BY <2>5 DEF MisplacedInv, StepInv, LockInv
  <2>7. \A e \in Inner : ProtectedInv(e)'
    BY DEF ProtectedInv, Protected, TreeKept, StepInv
  <2> QED BY <2>1, <2>2, <2>3, <2>4, <2>6, <2>7
<1>8. CASE Mark(d)
  <2> USE <1>8, <1>0 DEF Mark, Trees
  <2>1. PathInv'
    BY DEF PathInv
  <2>2. UnownedInv'
    BY DEF UnownedInv
  <2>3. \A e \in Inner : StepInv(e)'
    BY DEF StepInv
  <2>4. \A e \in Inner : LockInv(e)'
    BY DEF LockInv, StepInv
  <2>5. \A e \in Inner : Unmarked(e)' => Unmarked(e)
    <3>1. outer'.sub = outer.sub /\ outer'.backups = outer.backups
      OBVIOUS
    <3> QED BY <3>1 DEF Unmarked
  <2>6. \A e \in Inner : MisplacedInv(e)'
    BY <2>5 DEF MisplacedInv, StepInv, LockInv
  <2>7. \A e \in Inner : ProtectedInv(e)'
    BY DEF ProtectedInv, Protected, TreeKept, StepInv
  <2> QED BY <2>1, <2>2, <2>3, <2>4, <2>6, <2>7
<1>9. CASE Fill(d)
  <2>0. /\ outer'.there /\ outer'.lock = outer.lock /\ outer'.sub = outer.sub
        /\ outer'.stages[d] = IF outer.stages[d] = "none" THEN "unmarked" ELSE outer.stages[d]
        /\ \A e \in Inner : /\ e # d => outer'.stages[e] = outer.stages[e]
                            /\ outer'.backups[e] = outer.backups[e]
    <3>1. MkdirAll(outer) \in Trees
      BY TreeType
    <3>2. /\ MkdirAll(outer).there /\ MkdirAll(outer).lock = outer.lock /\ MkdirAll(outer).sub = outer.sub
          /\ \A e \in Inner : /\ MkdirAll(outer).stages[e] = outer.stages[e]
                              /\ MkdirAll(outer).backups[e] = outer.backups[e]
      BY DEF MkdirAll, Bare, Made, PathInv
    <3> QED BY <1>9, <3>1, <3>2 DEF Fill, Trees
  <2> USE <1>9, <1>0, <2>0 DEF Fill
  <2>1. PathInv'
    BY DEF PathInv
  <2>2. UnownedInv'
    BY DEF UnownedInv
  <2>3. \A e \in Inner : StepInv(e)'
    BY DEF StepInv
  <2>4. \A e \in Inner : LockInv(e)'
    BY DEF LockInv, StepInv
  <2>5. \A e \in Inner : Unmarked(e)' => Unmarked(e)
    BY DEF Unmarked
  <2>6. \A e \in Inner : MisplacedInv(e)'
    BY <2>5 DEF MisplacedInv, StepInv, LockInv
  <2>7. \A e \in Inner : ProtectedInv(e)'
    BY DEF ProtectedInv, Protected, TreeKept, StepInv
  <2> QED BY <2>1, <2>2, <2>3, <2>4, <2>6, <2>7
<1>10. CASE MoveOut(d)
  <2>1. CASE outer.sub # NoSub
    <3>1. /\ pc' = [pc EXCEPT ![d] = "moveIn"] /\ saved' = [saved EXCEPT ![d] = TRUE]
          /\ UNCHANGED <<apc, result, into, overtaken>> /\ pc[d] = "moveOut"
      BY <1>10, <2>1 DEF MoveOut
    <3>2. /\ outer'.there = outer.there /\ outer'.lock = outer.lock /\ outer'.sub = NoSub
          /\ outer'.stages = outer.stages
          /\ outer'.backups = [outer.backups EXCEPT ![d] = outer.sub]
      <4>1. outer' = [outer EXCEPT !.backups = [outer.backups EXCEPT ![d] = outer.sub], !.sub = NoSub]
        BY <1>10, <2>1 DEF MoveOut
      <4> QED BY <4>1 DEF Trees
    <3> USE <1>0, <3>1, <3>2 DEF Trees
    <3>3. PathInv'
      BY <2>1 DEF PathInv
    <3>4. UnownedInv'
      BY DEF UnownedInv
    <3>5. \A e \in Inner : StepInv(e)'
      BY DEF StepInv
    <3>6. \A e \in Inner : LockInv(e)'
      BY DEF LockInv
    <3>7. \A e \in Inner : Unmarked(e)' => Unmarked(e)
      <4>1. \A e \in Inner : NoSub # Subtree(e, FALSE)
        BY DEF NoSub, Subtree
      <4>2. \A f \in Inner : outer'.backups[f] = outer.sub \/ outer'.backups[f] = outer.backups[f]
        OBVIOUS
      <4> QED BY <4>1, <4>2 DEF Unmarked
    <3>8. \A e \in Inner : MisplacedInv(e)'
      BY <3>7 DEF MisplacedInv
    <3>9. \A e \in Inner : ProtectedInv(e)'
      <4>1. TreeKept => TreeKept'
        <5>1. CASE outer.sub.from \in Inner
          <6>1. outer'.backups[d].from \in Inner /\ pc'[d] # "dropBackup"
            BY <5>1
          <6> QED BY <6>1 DEF TreeKept
        <5>2. ASSUME NEW e \in Inner, outer.backups[e].from \in Inner, pc[e] # "dropBackup"
              PROVE  TreeKept'
          <6>1. outer.backups[e] # NoSub
            BY <5>2 DEF NoSub
          <6>2. e # d
            BY <6>1 DEF StepInv
          <6>3. outer'.backups[e] = outer.backups[e] /\ pc'[e] = pc[e]
            BY <6>2
          <6> QED BY <5>2, <6>3 DEF TreeKept
        <5> QED BY <5>1, <5>2 DEF TreeKept
      <4> QED BY <4>1 DEF ProtectedInv, Protected
    <3> QED BY <3>3, <3>4, <3>5, <3>6, <3>8, <3>9
  <2>2. CASE outer.sub = NoSub
    <3> USE <1>10, <2>2, <1>0 DEF MoveOut
    <3>3. PathInv'
      BY DEF PathInv
    <3>4. UnownedInv'
      BY DEF UnownedInv
    <3>5. \A e \in Inner : StepInv(e)'
      BY DEF StepInv
    <3>6. \A e \in Inner : LockInv(e)'
      BY DEF LockInv
    <3>7. \A e \in Inner : Unmarked(e)' => Unmarked(e)
      BY DEF Unmarked
    <3>8. \A e \in Inner : MisplacedInv(e)'
      BY <3>7 DEF MisplacedInv
    <3>9. \A e \in Inner : ProtectedInv(e)'
      BY DEF ProtectedInv, Protected, TreeKept
    <3> QED BY <3>3, <3>4, <3>5, <3>6, <3>8, <3>9
  <2> QED BY <2>1, <2>2
<1>11. CASE MoveIn(d)
  <2>1. CASE outer.stages[d] # "none" /\ outer.sub = NoSub
    <3> DEFINE step == IF saved[d] THEN "dropBackup" ELSE "readOwner"
               new  == Subtree(d, outer.stages[d] = "marked")
    <3>1. /\ pc' = [pc EXCEPT ![d] = step] /\ into' = [into EXCEPT ![d] = outer.gen]
          /\ overtaken' = IF apc \in {"stat", "moveOut"} THEN overtaken \cup {d} ELSE overtaken
          /\ UNCHANGED <<apc, result, saved>> /\ pc[d] = "moveIn"
      BY <1>11, <2>1 DEF MoveIn
    <3>2. /\ outer'.there = outer.there /\ outer'.lock = outer.lock /\ outer'.sub = new
          /\ outer'.stages = [outer.stages EXCEPT ![d] = "none"]
          /\ outer'.backups = outer.backups
      <4>1. outer' = [outer EXCEPT !.sub = new, !.stages = [outer.stages EXCEPT ![d] = "none"]]
        BY <1>11, <2>1 DEF MoveIn
      <4> HIDE DEF new
      <4> QED BY <4>1 DEF Trees
    <3>0. outer.gen \in Nat /\ into[d] = -1 /\ outer.there
      <4>1. outer.gen \in Nat
        BY DEF Trees
      <4>2. into[d] = -1
        BY <3>1 DEF StepInv
      <4>3. outer.there
        BY <2>1 DEF PathInv
      <4> QED BY <4>1, <4>2, <4>3
    <3>3. PathInv'
      BY <1>0, <3>0, <3>1, <3>2 DEF PathInv
    <3>4. UnownedInv'
      BY <1>0, <3>1, <3>2 DEF UnownedInv
    <3>5. \A e \in Inner : StepInv(e)'
      <4> TAKE e \in Inner
      <4>1. CASE e = d
        BY <1>0, <3>0, <3>1, <3>2, <4>1 DEF StepInv, Trees
      <4>2. CASE e # d
        BY <1>0, <3>1, <3>2, <4>2 DEF StepInv, Trees
      <4> QED BY <4>1, <4>2
    <3>6. \A e \in Inner : LockInv(e)'
      <4> TAKE e \in Inner
      <4>1. CASE e = d
        BY <1>0, <3>0, <3>1, <3>2, <4>1 DEF LockInv, Trees
      <4>2. CASE e # d
        BY <1>0, <3>1, <3>2, <4>2 DEF LockInv, Trees
      <4> QED BY <4>1, <4>2
    <3>7. outer.lock = d => outer.stages[d] = "marked" /\ ~(outer.gen > 0)
      BY <3>1 DEF LockInv
    <3>8. \A e \in Inner : MisplacedInv(e)'
      <4> TAKE e \in Inner
      <4>1. CASE e = d
        <5>1. Unmarked(d)' => outer.stages[d] # "marked"
          <6>1. ~Unmarked(d)
            BY <3>0 DEF MisplacedInv
          <6>2. outer.stages[d] = "marked" => new # Subtree(d, FALSE)
            BY DEF Subtree
          <6> QED BY <3>2, <6>1, <6>2 DEF Unmarked
        <5> QED BY <1>0, <3>0, <3>1, <3>2, <3>7, <4>1, <5>1 DEF MisplacedInv
      <4>2. CASE e # d
        <5>1. new # Subtree(e, FALSE)
          BY <4>2 DEF Subtree
        <5>2. Unmarked(e)' => Unmarked(e)
          BY <3>2, <5>1 DEF Unmarked
        <5> QED BY <3>1, <3>2, <4>2, <5>2 DEF MisplacedInv
      <4> QED BY <4>1, <4>2
    <3>9. \A e \in Inner : ProtectedInv(e)'
      <4> TAKE e \in Inner
      <4>1. TreeKept'
        BY <3>2 DEF TreeKept, Subtree
      <4>2. CASE e = d
        BY <1>0, <3>0, <3>1, <3>2, <4>1, <4>2 DEF ProtectedInv, Protected
      <4>3. CASE e # d
        BY <1>0, <3>1, <3>2, <4>1, <4>3 DEF ProtectedInv, Protected
      <4> QED BY <4>2, <4>3
    <3> QED BY <3>3, <3>4, <3>5, <3>6, <3>8, <3>9
  <2>2. CASE ~(outer.stages[d] # "none" /\ outer.sub = NoSub)
    <3>1. /\ pc' = [pc EXCEPT ![d] = IF saved[d] THEN "rollback" ELSE "cleanStaging"]
          /\ result' = [result EXCEPT ![d] = "error"]
          /\ UNCHANGED <<outer, apc, saved, into, overtaken>> /\ pc[d] = "moveIn"
      BY <1>11, <2>2 DEF MoveIn
    <3> USE <3>1, <1>0
    <3>3. PathInv'
      BY DEF PathInv
    <3>4. UnownedInv'
      BY DEF UnownedInv
    <3>5. \A e \in Inner : StepInv(e)'
      BY DEF StepInv
    <3>6. \A e \in Inner : LockInv(e)'
      BY DEF LockInv
    <3>7. \A e \in Inner : Unmarked(e)' => Unmarked(e)
      BY DEF Unmarked
    <3>8. \A e \in Inner : MisplacedInv(e)'
      BY <3>7 DEF MisplacedInv
    <3>9. \A e \in Inner : ProtectedInv(e)'
      BY DEF ProtectedInv, Protected, TreeKept
    <3> QED BY <3>3, <3>4, <3>5, <3>6, <3>8, <3>9
  <2> QED BY <2>1, <2>2
<1>12. CASE Rollback(d)
  <2> USE <1>12, <1>0 DEF Rollback, Trees
  <2>1. PathInv'
    BY DEF PathInv
  <2>2. UnownedInv'
    BY DEF UnownedInv
  <2>3. \A e \in Inner : StepInv(e)'
    BY DEF StepInv
  <2>4. \A e \in Inner : LockInv(e)'
    BY DEF LockInv, StepInv
  <2>5. \A e \in Inner : Unmarked(e)' => Unmarked(e)
    BY ZenonT(60) DEF Unmarked
  <2>6. \A e \in Inner : MisplacedInv(e)'
    BY <2>5 DEF MisplacedInv, StepInv, LockInv
  <2>7. \A e \in Inner : ProtectedInv(e)'
    BY DEF ProtectedInv, Protected, TreeKept, StepInv
  <2> QED BY <2>1, <2>2, <2>3, <2>4, <2>6, <2>7
<1>13. CASE DropBackup(d)
  <2> USE <1>13, <1>0 DEF DropBackup, Trees
  <2>1. PathInv'
    BY DEF PathInv
  <2>2. UnownedInv'
    BY DEF UnownedInv
  <2>3. \A e \in Inner : StepInv(e)'
    BY DEF StepInv
  <2>4. \A e \in Inner : LockInv(e)'
    BY DEF LockInv, StepInv
  <2>5. \A e \in Inner : Unmarked(e)' => Unmarked(e)
    <3>1. outer'.sub = outer.sub /\ outer'.backups = [outer.backups EXCEPT ![d] = NoSub]
      OBVIOUS
    <3>2. \A e \in Inner : NoSub # Subtree(e, FALSE)
      BY DEF NoSub, Subtree
    <3>3. \A f \in Inner : outer'.backups[f] = NoSub \/ outer'.backups[f] = outer.backups[f]
      BY <3>1
    <3> QED BY <3>1, <3>2, <3>3, ZenonT(60) DEF Unmarked
  <2>6. \A e \in Inner : MisplacedInv(e)'
    BY <2>5 DEF MisplacedInv, StepInv, LockInv
  <2>7. \A e \in Inner : ProtectedInv(e)'
    BY DEF ProtectedInv, Protected, TreeKept, StepInv
  <2> QED BY <2>1, <2>2, <2>3, <2>4, <2>6, <2>7
<1>14. CASE CleanStaging(d)
  <2> USE <1>14, <1>0 DEF CleanStaging, Trees
  <2>1. PathInv'
    BY DEF PathInv
  <2>2. UnownedInv'
    BY DEF UnownedInv
  <2>3. \A e \in Inner : StepInv(e)'
    BY DEF StepInv
  <2>4. \A e \in Inner : LockInv(e)'
    BY DEF LockInv, StepInv
  <2>5. \A e \in Inner : Unmarked(e)' => Unmarked(e)
    BY DEF Unmarked
  <2>6. \A e \in Inner : MisplacedInv(e)'
    BY <2>5 DEF MisplacedInv, StepInv, LockInv
  <2>7. \A e \in Inner : ProtectedInv(e)'
    BY DEF ProtectedInv, Protected, TreeKept, StepInv
  <2> QED BY <2>1, <2>2, <2>3, <2>4, <2>6, <2>7
<1>15. CASE ReadOwner(d)
  <2> USE <1>15, <1>0 DEF ReadOwner, Trees
  <2>1. PathInv'
    BY DEF PathInv
  <2>2. UnownedInv'
    BY DEF UnownedInv
  <2>3. \A e \in Inner : StepInv(e)'
    BY DEF StepInv
  <2>4. \A e \in Inner : LockInv(e)'
    BY DEF LockInv, StepInv
  <2>5. \A e \in Inner : Unmarked(e)' => Unmarked(e)
    BY DEF Unmarked
  <2>6. \A e \in Inner : MisplacedInv(e)'
    BY <2>5 DEF MisplacedInv, StepInv, LockInv
  <2>7. \A e \in Inner : ProtectedInv(e)'
    BY DEF ProtectedInv, Protected, TreeKept, StepInv
  <2> QED BY <2>1, <2>2, <2>3, <2>4, <2>6, <2>7
<1>16. CASE RemoveOwner(d)
  <2> USE <1>16, <1>0 DEF RemoveOwner, Trees
  <2>1. PathInv'
    BY DEF PathInv
  <2>2. UnownedInv'
    BY DEF UnownedInv
  <2>3. \A e \in Inner : StepInv(e)'
    BY DEF StepInv
  <2>4. \A e \in Inner : LockInv(e)'
    BY DEF LockInv, StepInv
  <2>5. \A e \in Inner : Unmarked(e)' => Unmarked(e)
    <3>1. outer'.sub = outer.sub /\ outer'.backups = outer.backups
      OBVIOUS
    <3> QED BY <3>1 DEF Unmarked
  <2>6. \A e \in Inner : MisplacedInv(e)'
    BY <2>5 DEF MisplacedInv, StepInv, LockInv
  <2>7. \A e \in Inner : ProtectedInv(e)'
    BY DEF ProtectedInv, Protected, TreeKept, StepInv
  <2> QED BY <2>1, <2>2, <2>3, <2>4, <2>6, <2>7
<1>17. CASE RemoveLock(d)
  <2> USE <1>17, <1>0 DEF RemoveLock, Trees
  <2>1. PathInv'
    BY DEF PathInv
  <2>2. UnownedInv'
    BY DEF UnownedInv
  <2>3. \A e \in Inner : StepInv(e)'
    BY DEF StepInv
  <2>4. \A e \in Inner : LockInv(e)'
    BY DEF LockInv, StepInv
  <2>5. \A e \in Inner : Unmarked(e)' => Unmarked(e)
    <3>1. outer'.sub = outer.sub /\ outer'.backups = outer.backups
      OBVIOUS
    <3> QED BY <3>1 DEF Unmarked
  <2>6. \A e \in Inner : MisplacedInv(e)'
    BY <2>5 DEF MisplacedInv, StepInv, LockInv
  <2>7. \A e \in Inner : ProtectedInv(e)'
    BY DEF ProtectedInv, Protected, TreeKept, StepInv
  <2> QED BY <2>1, <2>2, <2>3, <2>4, <2>6, <2>7
<1> QED BY <1>1, <1>2, <1>3, <1>4, <1>5, <1>6, <1>7, <1>8, <1>9, <1>10, <1>11,
     <1>12, <1>13, <1>14, <1>15, <1>16, <1>17 DEF Step

(* A render of gen starts with an empty gen, and puts nothing back into one that *)
(* a render of gen/models made anew; past its last look no tree is protected. *)
LEMMA AncestorReport ==
  ASSUME TypeOK, SwapInv, ReportInv, ANext
  PROVE  ReportInv'
<1> USE InnerAssumption DEF inner, AStep, ReportInv
<1>1. /\ UNCHANGED <<pc, saved, result, into, overtaken>>
      /\ \/ UNCHANGED outer
         \/ /\ outer' \in {Gone, Made(renders + 1)}
            /\ apc = "moveOut" \/ (~outer.there /\ outer'.there)
      /\ apc' = "rollback" => outer'.there
      /\ apc' \in {"stat", "moveOut"} => apc \in {"stat", "moveOut"} \/ Replaceable(outer)
  <2>1. CASE AStart
    BY <2>1 DEF AStart
  <2>2. CASE AInspect \/ ASwap \/ AStat
    BY <2>2 DEF AInspect, ASwap, AStat
  <2>3. CASE AMoveOut
    BY <2>3 DEF AMoveOut
  <2>4. CASE AMoveIn
    BY <2>4 DEF AMoveIn, Made
  <2>5. CASE ARollback \/ ADropBackup
    BY <2>5 DEF ARollback, ADropBackup, PathInv
  <2> QED BY <2>1, <2>2, <2>3, <2>4, <2>5 DEF ANext
<1>2. CASE UNCHANGED outer
  <2>1. PathInv' /\ UnownedInv'
    BY <1>1, <1>2 DEF PathInv, UnownedInv
  <2>2. \A d \in Inner : StepInv(d)' /\ LockInv(d)'
    BY <1>1, <1>2 DEF StepInv, LockInv
  <2>3. \A d \in Inner : MisplacedInv(d)'
    BY <1>1, <1>2 DEF MisplacedInv, Unmarked
  <2>4. \A d \in Inner : ProtectedInv(d)'
    <3>1. TreeKept /\ outer.gen = 0 /\ outer.there => ~Replaceable(outer)
      BY DEF TreeKept, Replaceable, Gone, Bare, Made, NoSub
    <3>2. Protected => Protected'
      <4>1. TreeKept => TreeKept'
        BY <1>1, <1>2 DEF TreeKept
      <4> QED BY <1>1, <1>2, <3>1, <4>1 DEF Protected
    <3> QED BY <1>1, <3>2 DEF ProtectedInv
  <2> QED BY <2>1, <2>2, <2>3, <2>4
<1>3. CASE outer' \in {Gone, Made(renders + 1)} /\ ~Protected
  <2>0. /\ outer'.lock = "free" /\ outer'.sub = NoSub
        /\ \A d \in Inner : outer'.stages[d] = "none" /\ outer'.backups[d] = NoSub
    BY <1>3 DEF Gone, Made
  <2>1. PathInv' /\ UnownedInv'
    BY <1>1, <2>0 DEF PathInv, UnownedInv
  <2>2. \A d \in Inner : StepInv(d)' /\ LockInv(d)'
    BY <1>1, <2>0 DEF StepInv, LockInv
  <2>3. \A d \in Inner : MisplacedInv(d)'
    <3>1. \A d \in Inner : NoSub # Subtree(d, FALSE)
      BY DEF NoSub, Subtree
    <3> QED BY <1>1, <2>0, <3>1, ZenonT(60) DEF MisplacedInv, Unmarked
  <2>4. \A d \in Inner : ProtectedInv(d)'
    BY <1>1, <1>3 DEF ProtectedInv
  <2> QED BY <2>1, <2>2, <2>3, <2>4
<1>4. ~(UNCHANGED outer) => ~Protected
  BY <1>1 DEF Protected
<1> QED BY <1>1, <1>2, <1>3, <1>4

(* No render has a tree, a lock or a staging directory at first.            *)
LEMMA InitReport ==
  ASSUME Init
  PROVE  ReportInv
<1>0. PICK s \in Subs :
        /\ s.from \notin Inner
        /\ outer \in {Gone, Bare, Made(1), [Bare EXCEPT !.sub = s]}
  <2>1. Earlier \notin Inner /\ User \notin Inner
    BY InnerAssumption
  <2>2. /\ Subtree(Earlier, TRUE) \in Subs /\ Subtree(Earlier, TRUE).from \notin Inner
        /\ Subtree(User, FALSE) \in Subs /\ Subtree(User, FALSE).from \notin Inner
    BY <2>1 DEF Subtree, Subs, Origins
  <2> QED BY <2>2 DEF Init
<1>1. /\ outer.lock = "free" /\ \A d \in Inner : outer.stages[d] = "none" /\ outer.backups[d] = NoSub
      /\ ~outer.there => outer.sub = NoSub
      /\ outer.sub \in {NoSub, s}
  BY <1>0 DEF Gone, Bare, Made
<1>3. outer.sub.from \notin Inner
  BY <1>0, <1>1, InnerAssumption DEF NoSub
<1>4. \A d \in Inner : ~Unmarked(d)
  BY <1>1, <1>3, InnerAssumption DEF Unmarked, Subtree, NoSub
<1>5. \A d \in Inner : pc[d] = "prepare" /\ into[d] = -1
  BY DEF Init
<1>6. PathInv /\ UnownedInv
  BY <1>1 DEF PathInv, UnownedInv, Init
<1>7. \A d \in Inner : StepInv(d) /\ LockInv(d)
  BY <1>1, <1>5, InnerAssumption DEF StepInv, LockInv, Ending, Installed
<1>8. \A d \in Inner : MisplacedInv(d) /\ ProtectedInv(d)
  BY <1>4, <1>5 DEF MisplacedInv, ProtectedInv
<1> QED BY <1>6, <1>7, <1>8 DEF ReportInv

(* ReportInv is inductive, relative to the types and to SwapInv.            *)
LEMMA ReportInductive ==
  Spec => []ReportInv
<1>1. Init => ReportInv
  BY InitReport
<1>2. NestedInv /\ ReportInv /\ [Next]_vars => ReportInv'
  <2> SUFFICES ASSUME NestedInv, ReportInv, [Next]_vars PROVE ReportInv'
    OBVIOUS
  <2>1. CASE UNCHANGED vars
    BY <2>1, ZenonT(60) DEF vars, ancestor, inner, ReportInv, PathInv, UnownedInv, StepInv, LockInv,
                MisplacedInv, Unmarked, ProtectedInv, Protected, TreeKept
  <2>2. CASE ANext
    BY <2>2, AncestorReport DEF NestedInv
  <2>3. ASSUME NEW d \in Inner, Step(d) PROVE ReportInv'
    BY <2>3, InnerReport DEF NestedInv
  <2> QED BY <2>1, <2>2, <2>3 DEF Next
<1> QED BY <1>1, <1>2, NestedInductive, PTL DEF Spec

(* What a render of gen/models reports is true, for every number of them and of *)
(* renders of gen: nil only for a tree, with its marker, where the caller asked *)
(* for it and where no render of gen destroys it (Build).                  *)
THEOREM ReportsAreTrue == Spec => []ReportIsTrue
<1>1. NestedInv /\ ReportInv => ReportIsTrue
  <2> SUFFICES ASSUME NestedInv, ReportInv, NEW d \in Inner, pc[d] = "done"
               PROVE  /\ into[d] > 0 \/ outer.sub = Subtree(d, FALSE) => result[d] = "committed"
                      /\ result[d] = "nil" /\ d \notin overtaken =>
                           /\ outer.there /\ outer.gen = 0
                           /\ \/ outer.sub.from \in Inner
                              \/ \E e \in Inner : outer.backups[e].from \in Inner
    BY DEF ReportIsTrue
  <2>1. into[d] > 0 \/ outer.sub = Subtree(d, FALSE) => result[d] = "committed"
    BY DEF ReportInv, MisplacedInv, Unmarked
  <2>2. result[d] = "nil" => into[d] = 0
    <3>1. into[d] \in Int /\ into[d] >= -1
      BY MaxRendersAssumption DEF NestedInv, TypeOK
    <3>2. result[d] = "nil" => into[d] # -1
      BY DEF ReportInv, StepInv, Ending, Installed
    <3>3. result[d] = "nil" => ~(into[d] > 0)
      BY <2>1
    <3> QED BY <3>1, <3>2, <3>3
  <2>3. into[d] = 0 /\ d \notin overtaken => Protected
    BY DEF ReportInv, ProtectedInv
  <2> QED BY <2>1, <2>2, <2>3 DEF Protected, TreeKept
<1> QED BY <1>1, NestedInductive, ReportInductive, PTL

(* Once every render has returned, gen holds no lock and no staging directory, *)
(* and a backup only of a render that said that it failed (the deferred calls *)
(* of Build).                                                              *)
THEOREM NothingIsLeftBehind == Spec => []NothingLeftBehind
<1>1. NestedInv /\ ReportInv => NothingLeftBehind
  <2> SUFFICES ASSUME NestedInv, ReportInv, \A d \in Inner : pc[d] = "done"
               PROVE  /\ outer.lock = "free"
                      /\ \A d \in Inner : /\ outer.stages[d] = "none"
                                          /\ outer.backups[d] # NoSub => result[d] = "error"
    BY DEF NothingLeftBehind
  <2>1. outer.lock \in {"free", "unowned"} \cup Inner
    BY DEF NestedInv, TypeOK, Trees
  <2>2. outer.lock # "unowned"
    BY DEF ReportInv, UnownedInv, Unlocking
  <2>3. outer.lock \notin Inner
    BY DEF ReportInv, LockInv, Owning, Staging
  <2>4. ASSUME NEW d \in Inner
        PROVE  outer.stages[d] = "none" /\ (outer.backups[d] # NoSub => result[d] = "error")
    BY <2>4 DEF ReportInv, StepInv, Staging
  <2> QED BY <2>1, <2>2, <2>3, <2>4
<1> QED BY <1>1, NestedInductive, ReportInductive, PTL
=============================================================================
