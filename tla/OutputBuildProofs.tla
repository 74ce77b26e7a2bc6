------------------------- MODULE OutputBuildProofs --------------------------
(***************************************************************************)
(* Proofs about OutputBuild, checked by TLAPS: type correctness, mutual    *)
(* exclusion, the survival of every content, the protection of unmanaged   *)
(* directories, that OutputBuild implements AtomicOutput, and the outcome  *)
(* of a Build.                                                             *)
(*                                                                         *)
(* All but the first rest on the inductive invariant IInv.  LockInv is     *)
(* preserved on its own; SwapInv needs it, because what a Build is between *)
(* two renames of survives only if no other Build is there; Recoverable    *)
(* and the refinement need SwapInv.                                        *)
(*                                                                         *)
(* The second half is what a Build reports and what it leaves behind.      *)
(* That the result is truthful, that no unfinished tree becomes visible    *)
(* and that a Build releases no lock but one that it found to be its own   *)
(* holds whatever the user does.  That only the holder of the lock writes, *)
(* to the output and to the staging and backup directories beside it, that *)
(* a lock is taken away by its owner only and that nothing is left behind  *)
(* without a fault needs the careful user, LockInv and SwapInv.            *)
(***************************************************************************)
EXTENDS OutputBuild, TLAPS

-----------------------------------------------------------------------------
(* Types. *)

(* The two kinds of content that Build tells apart (output.go, stage) are  *)
(* contents of a directory.                                                *)
LEMMA ContentsType ==
  /\ Absent \in Contents /\ Empty \in Contents /\ Partial \in Contents
  /\ \A n \in Nat : Generation(n) \in Contents
  /\ UserContents \subseteq Contents
BY DEF Contents, Kinds, Absent, Empty, Partial, Generation, Plain, UserContents

(* The parent of the directory that a process renders to is a parent.      *)
LEMMA ParentType ==
  ASSUME TypeOK, NEW p \in Procs
  PROVE  ParentOf(p) \in Parents
BY TypeOK DEF TypeOK, ParentOf, Parents

(* What a process leaves behind on the disk is litter.                     *)
LEMMA LeaveType ==
  ASSUME TypeOK, NEW p \in Procs, NEW kind \in {"staging", "backup"}, NEW c \in Contents
  PROVE  Leave(kind, p, c) \subseteq Litter
BY TypeOK DEF TypeOK, Leave, Litter

(* The locks that the steps write are locks.                               *)
LEMMA LockType ==
  /\ Free \in Locks
  /\ Lock(TRUE, NoFile) \in Locks
  /\ Lock(TRUE, Garbled) \in Locks
  /\ \A p \in Procs : Lock(TRUE, p) \in Locks
  /\ TypeOK => \A d \in Parents : Lock(lock[d].held, NoFile) \in Locks
BY DEF Locks, Lock, Free, TypeOK

(* Every step keeps the variables in their types: one step of the proof    *)
(* for every action.                                                       *)
LEMMA TypeStep ==
  ASSUME TypeOK, [Next]_vars
  PROVE  TypeOK'
<1> USE TypeOK DEF TypeOK, Results, Goto, Pcs, Steps, LockSteps, HoldSteps, SwapSteps, files, history
<1>1. ASSUME NEW p \in Procs, Prepare(p) PROVE TypeOK'
  BY <1>1 DEF Prepare, Fault, NoFault, Fail
<1>2. ASSUME NEW p \in Procs, Verify(p) PROVE TypeOK'
  BY <1>2 DEF Verify, Fault, NoFault, Fail
<1>3. ASSUME NEW p \in Procs, TakeLock(p) PROVE TypeOK'
  <2> DEFINE d == ParentOf(p)
  <2>a. lock' \in {lock, [lock EXCEPT ![d] = Lock(TRUE, NoFile)]}
    BY <1>3 DEF TakeLock
  <2>1. lock' \in [Parents -> Locks]
    BY <2>a, ParentType, LockType
  <2>b. (Fault(p) \/ NoFault) /\ (Fail(p, "done") \/ (Goto(p, "writeOwner") /\ UNCHANGED result))
    BY <1>3 DEF TakeLock
  <2>2. pc' \in [Procs -> Pcs] /\ result' \in [Procs -> Results] /\ faults' \in Nat
    BY <2>b DEF Fault, NoFault, Fail
  <2> QED BY <2>1, <2>2, <1>3 DEF TakeLock
<1>4. ASSUME NEW p \in Procs, WriteOwner(p) PROVE TypeOK'
  <2> DEFINE d == ParentOf(p)
  <2>a. lock' \in {lock, [lock EXCEPT ![d] = Lock(TRUE, p)], [lock EXCEPT ![d] = Lock(TRUE, Garbled)]}
    BY <1>4 DEF WriteOwner
  <2>1. lock' \in [Parents -> Locks]
    BY <2>a, ParentType, LockType
  <2>b. (Fault(p) \/ NoFault) /\ (Fail(p, "dropOwner") \/ (Goto(p, "recheck") /\ UNCHANGED result))
    BY <1>4 DEF WriteOwner
  <2>2. pc' \in [Procs -> Pcs] /\ result' \in [Procs -> Results] /\ faults' \in Nat
    BY <2>b DEF Fault, NoFault, Fail
  <2> QED BY <2>1, <2>2, <1>4 DEF WriteOwner
<1>5. ASSUME NEW p \in Procs, DropOwner(p) PROVE TypeOK'
  <2> DEFINE d == ParentOf(p)
  <2>a. lock' \in {lock, [lock EXCEPT ![d] = Lock(lock[d].held, NoFile)]}
    BY <1>5 DEF DropOwner
  <2>1. lock' \in [Parents -> Locks]
    BY <2>a, ParentType, LockType
  <2>2. pc' \in [Procs -> Pcs] /\ result' \in [Procs -> Results] /\ faults' \in Nat
    BY <1>5 DEF DropOwner, Fault, NoFault
  <2> QED BY <2>1, <2>2, <1>5 DEF DropOwner
<1>6. ASSUME NEW p \in Procs, DropLock(p) PROVE TypeOK'
  <2> DEFINE d == ParentOf(p)
  <2>a. lock' \in {lock, [lock EXCEPT ![d] = Free]}
    BY <1>6 DEF DropLock
  <2>1. lock' \in [Parents -> Locks]
    BY <2>a, ParentType, LockType
  <2>2. pc' \in [Procs -> Pcs] /\ result' \in [Procs -> Results] /\ faults' \in Nat
    BY <1>6 DEF DropLock, Fault, NoFault, Fail
  <2> QED BY <2>1, <2>2, <1>6 DEF DropLock
<1>7. ASSUME NEW p \in Procs, Recheck(p) PROVE TypeOK'
  BY <1>7 DEF Recheck, Fault, NoFault, Fail
<1>8. ASSUME NEW p \in Procs, Inspect(p) PROVE TypeOK'
  BY <1>8 DEF Inspect, Fault, NoFault, Fail
<1>9. ASSUME NEW p \in Procs, Stage(p) PROVE TypeOK'
  BY <1>9, ContentsType DEF Stage, Fault, NoFault, Fail
<1>10. ASSUME NEW p \in Procs, Mark(p) PROVE TypeOK'
  BY <1>10, ContentsType DEF Mark, Fault, NoFault, Fail
<1>11. ASSUME NEW p \in Procs, Fill(p) PROVE TypeOK'
  BY <1>11, ContentsType DEF Fill, Fault, NoFault, Fail
<1>12. ASSUME NEW p \in Procs, SetMode(p) PROVE TypeOK'
  BY <1>12 DEF SetMode, Fault, NoFault, Fail
<1>13. ASSUME NEW p \in Procs, BeginSwap(p) PROVE TypeOK'
  BY <1>13 DEF BeginSwap, Fault, NoFault, Fail
<1>14. ASSUME NEW p \in Procs, Stat(p) PROVE TypeOK'
  BY <1>14 DEF Stat, Fault, NoFault, Fail
<1>15. ASSUME NEW p \in Procs, Reserve(p) PROVE TypeOK'
  <2>1. litter' \subseteq Litter
    BY <1>15, LeaveType, ContentsType DEF Reserve
  <2> QED BY <2>1, <1>15 DEF Reserve, Fault, NoFault, Fail
<1>16. ASSUME NEW p \in Procs, MoveOut(p) PROVE TypeOK'
  <2>1. dir' \in [Outputs -> Contents]
    BY <1>16, ContentsType DEF MoveOut
  <2> QED BY <2>1, <1>16, ContentsType DEF MoveOut, Fault, NoFault, Fail
<1>17. ASSUME NEW p \in Procs, MoveIn(p) PROVE TypeOK'
  <2>1. dir' \in [Outputs -> Contents] /\ kept' \in [Outputs -> Contents]
    BY <1>17, ContentsType DEF MoveIn
  <2>2. pc' \in [Procs -> Pcs] /\ staging' \in [Procs -> Contents]
    BY <1>17, ContentsType DEF MoveIn, Fail
  <2>4. committed' \in [Procs -> BOOLEAN]
    BY <1>17 DEF MoveIn
  <2>3. swapped' \in [Procs -> BOOLEAN] /\ result' \in [Procs -> Results]
    BY <1>17 DEF MoveIn, Fail
  <2> QED
    BY <2>1, <2>2, <2>3, <2>4, <1>17 DEF MoveIn, Fault, NoFault
<1>18. ASSUME NEW p \in Procs, Rollback(p) PROVE TypeOK'
  <2>1. dir' \in [Outputs -> Contents]
    BY <1>18, ContentsType DEF Rollback
  <2>2. litter' \subseteq Litter
    BY <1>18, LeaveType DEF Rollback
  <2> QED BY <2>1, <1>18, <2>2, ContentsType DEF Rollback, Fault, NoFault
<1>19. ASSUME NEW p \in Procs, DropBackup(p) PROVE TypeOK'
  BY <1>19, LeaveType, ContentsType DEF DropBackup, Fault, NoFault, Fail
<1>20. ASSUME NEW p \in Procs, CleanStaging(p) PROVE TypeOK'
  BY <1>20, LeaveType, ContentsType DEF CleanStaging, Fault, NoFault, Fail, JoinError
<1>21. ASSUME NEW p \in Procs, ReadOwner(p) PROVE TypeOK'
  BY <1>21 DEF ReadOwner, Fault, NoFault, Fail, JoinError
<1>22. ASSUME NEW p \in Procs, RemoveOwner(p) PROVE TypeOK'
  <2> DEFINE d == ParentOf(p)
  <2>a. lock' \in {lock, [lock EXCEPT ![d] = Lock(lock[d].held, NoFile)]}
    BY <1>22 DEF RemoveOwner
  <2>1. lock' \in [Parents -> Locks]
    BY <2>a, ParentType, LockType
  <2>2. pc' \in [Procs -> Pcs] /\ result' \in [Procs -> Results] /\ faults' \in Nat
    BY <1>22 DEF RemoveOwner, Fault, NoFault, Fail, JoinError
  <2> QED BY <2>1, <2>2, <1>22 DEF RemoveOwner
<1>23. ASSUME NEW p \in Procs, RemoveLock(p) PROVE TypeOK'
  <2> DEFINE d == ParentOf(p)
  <2>a. lock' \in {lock, [lock EXCEPT ![d] = Free]}
    BY <1>23 DEF RemoveLock
  <2>1. lock' \in [Parents -> Locks]
    BY <2>a, ParentType, LockType
  <2>2. pc' \in [Procs -> Pcs] /\ result' \in [Procs -> Results] /\ faults' \in Nat
    BY <1>23 DEF RemoveLock, Fault, NoFault, Fail, JoinError
  <2> QED BY <2>1, <2>2, <1>23 DEF RemoveLock
<1>24. ASSUME NEW p \in Procs, NEW o \in Outputs, Start(p, o) PROVE TypeOK'
  BY <1>24, ContentsType DEF Start, counters
<1>25. ASSUME NEW p \in Procs, Cancel(p) PROVE TypeOK'
  BY <1>25 DEF Cancel, counters
<1>26. ASSUME NEW p \in Procs, Crash(p) PROVE TypeOK'
  <2>1. litter' \subseteq Litter
    BY <1>26, LeaveType DEF Crash
  <2> QED BY <1>26, <2>1, ContentsType DEF Crash
<1>27. ASSUME NEW o \in Outputs, UserEdits(o) PROVE TypeOK'
  BY <1>27, ContentsType DEF UserEdits, locals
<1>28. ASSUME NEW o \in Outputs, UserRestores(o) PROVE TypeOK'
  BY <1>28 DEF UserRestores, locals, Litter
<1>29. ASSUME NEW d \in Parents, MarkerAppears(d) PROVE TypeOK'
  BY <1>29 DEF MarkerAppears, locals, counters
<1>30. ASSUME NEW d \in Parents, UserRemovesLock(d) PROVE TypeOK'
  <2>1. lock' \in [Parents -> Locks]
    BY <1>30, LockType DEF UserRemovesLock
  <2> QED BY <2>1, <1>30 DEF UserRemovesLock, locals, counters
<1>31. CASE UNCHANGED vars
  BY <1>31 DEF vars, locals, counters
<1> QED
  BY [Next]_vars, <1>1, <1>2, <1>3, <1>4, <1>5, <1>6, <1>7, <1>8, <1>9, <1>10, <1>11, <1>12, <1>13, <1>14, <1>15, <1>16, <1>17, <1>18, <1>19, <1>20, <1>21, <1>22, <1>23, <1>24, <1>25, <1>26, <1>27, <1>28, <1>29, <1>30, <1>31
     DEF Next, ProcNext, UserNext, Step

-----------------------------------------------------------------------------
(* The lock. *)

(* A step that leaves the locks alone and takes no process into the locked part. *)
LEMMA LockGoto ==
  ASSUME TypeOK, LockInv, NEW p \in Procs, NEW s \in Pcs, pc' = [pc EXCEPT ![p] = s],
         UNCHANGED <<lock, target>>,
         s \in LockSteps => pc[p] \in LockSteps,
         s \in HoldSteps => pc[p] \in HoldSteps
  PROVE  LockInv'
<1>1. \A q \in Procs : /\ pc'[q] \in LockSteps => pc[q] \in LockSteps
                       /\ pc'[q] \in HoldSteps => pc[q] \in HoldSteps
                       /\ ParentOf(q)' = ParentOf(q)
  BY TypeOK DEF TypeOK, ParentOf
<1> QED BY <1>1, LockInv DEF LockInv, MutualExclusion

(* A step of the process that has the lock, which changes only its own lock. *)
LEMMA LockOwn ==
  ASSUME TypeOK, LockInv, NEW p \in Procs, NEW s \in Pcs, pc' = [pc EXCEPT ![p] = s],
         UNCHANGED target, pc[p] \in LockSteps,
         NEW l \in Locks, lock' = [lock EXCEPT ![ParentOf(p)] = l],
         s \in LockSteps => l.held,
         s \in HoldSteps => l.owner = p
  PROVE  LockInv'
<1>1. \A q \in Procs : /\ pc'[q] \in LockSteps => pc[q] \in LockSteps
                       /\ ParentOf(q)' = ParentOf(q)
                       /\ q # p => pc'[q] = pc[q]
  BY TypeOK DEF TypeOK, ParentOf
<1>2. \A q \in Procs : (q # p /\ pc[q] \in LockSteps) => ParentOf(q) # ParentOf(p)
  BY LockInv DEF LockInv, MutualExclusion
<1>3. \A q \in Procs : (q # p /\ pc[q] \in LockSteps) => lock'[ParentOf(q)] = lock[ParentOf(q)]
  BY <1>2, TypeOK, ParentType DEF TypeOK
<1>4. lock'[ParentOf(p)] = l /\ pc'[p] = s
  BY TypeOK, ParentType DEF TypeOK
<1>5. HoldSteps \subseteq LockSteps
  BY DEF LockSteps
<1> QED BY <1>1, <1>2, <1>3, <1>4, <1>5, LockInv DEF LockInv, MutualExclusion

(* The Mkdir of a lock directory that was not there. *)
LEMMA LockTaken ==
  ASSUME TypeOK, LockInv, NEW p \in Procs, pc' = [pc EXCEPT ![p] = "writeOwner"],
         UNCHANGED target, ~lock[ParentOf(p)].held,
         lock' = [lock EXCEPT ![ParentOf(p)] = Lock(TRUE, NoFile)]
  PROVE  LockInv'
<1>1. \A q \in Procs : pc[q] \in LockSteps => ParentOf(q) # ParentOf(p)
  BY LockInv DEF LockInv
<1>2. \A q \in Procs : ParentOf(q)' = ParentOf(q) /\ (q # p => pc'[q] = pc[q])
  BY TypeOK DEF TypeOK, ParentOf
<1>3. pc'[p] = "writeOwner" /\ "writeOwner" \notin HoldSteps
  BY TypeOK DEF TypeOK, HoldSteps, SwapSteps
<1>4. \A q \in Procs : (q # p /\ pc[q] \in LockSteps) => lock'[ParentOf(q)] = lock[ParentOf(q)]
  BY <1>1, TypeOK, ParentType DEF TypeOK
<1>5. lock'[ParentOf(p)].held
  BY TypeOK, ParentType DEF TypeOK, Lock
<1>6. HoldSteps \subseteq LockSteps
  BY DEF LockSteps
<1>7. MutualExclusion'
  BY <1>1, <1>2, LockInv DEF LockInv, MutualExclusion
<1>8. \A q \in Procs : pc'[q] \in LockSteps => lock'[ParentOf(q)'].held
  <2> TAKE q \in Procs
  <2>1. CASE q = p
    BY <2>1, <1>2, <1>5
  <2>2. CASE q # p
    BY <2>2, <1>2, <1>4, LockInv DEF LockInv
  <2> QED BY <2>1, <2>2
<1>9. \A q \in Procs : pc'[q] \in HoldSteps => lock'[ParentOf(q)'].owner = q
  <2> TAKE q \in Procs
  <2>1. CASE q = p
    BY <2>1, <1>3
  <2>2. CASE q # p
    BY <2>2, <1>2, <1>4, <1>6, LockInv DEF LockInv
  <2> QED BY <2>1, <2>2
<1> QED BY <1>7, <1>8, <1>9 DEF LockInv

(* Every step keeps mutual exclusion and the ownership of locks, unless a  *)
(* careless user removes a lock that is in use.                            *)
LEMMA LockStep ==
  ASSUME TypeOK, LockInv, ~CarelessUser, [Next]_vars
  PROVE  LockInv'
<1> USE TypeOK, LockInv DEF At, Goto, Fail, Pcs, Steps, LockSteps, HoldSteps, SwapSteps
<1>1. ASSUME NEW p \in Procs, Prepare(p) PROVE LockInv'
  BY <1>1, LockGoto DEF Prepare, files
<1>2. ASSUME NEW p \in Procs, Verify(p) PROVE LockInv'
  BY <1>2, LockGoto DEF Verify, files
<1>3. ASSUME NEW p \in Procs, Recheck(p) PROVE LockInv'
  BY <1>3, LockGoto DEF Recheck, files
<1>4. ASSUME NEW p \in Procs, Inspect(p) PROVE LockInv'
  BY <1>4, LockGoto DEF Inspect, files
<1>5. ASSUME NEW p \in Procs, Stage(p) PROVE LockInv'
  BY <1>5, LockGoto DEF Stage, files
<1>6. ASSUME NEW p \in Procs, Mark(p) PROVE LockInv'
  BY <1>6, LockGoto DEF Mark, files
<1>7. ASSUME NEW p \in Procs, Fill(p) PROVE LockInv'
  BY <1>7, LockGoto DEF Fill, files
<1>8. ASSUME NEW p \in Procs, SetMode(p) PROVE LockInv'
  BY <1>8, LockGoto DEF SetMode, files
<1>9. ASSUME NEW p \in Procs, BeginSwap(p) PROVE LockInv'
  BY <1>9, LockGoto DEF BeginSwap, files
<1>10. ASSUME NEW p \in Procs, Stat(p) PROVE LockInv'
  BY <1>10, LockGoto DEF Stat, files
<1>11. ASSUME NEW p \in Procs, Reserve(p) PROVE LockInv'
  BY <1>11, LockGoto DEF Reserve, files
<1>12. ASSUME NEW p \in Procs, MoveOut(p) PROVE LockInv'
  BY <1>12, LockGoto DEF MoveOut, files
<1>13. ASSUME NEW p \in Procs, MoveIn(p) PROVE LockInv'
  BY <1>13, LockGoto DEF MoveIn, files
<1>14. ASSUME NEW p \in Procs, Rollback(p) PROVE LockInv'
  BY <1>14, LockGoto DEF Rollback, files
<1>15. ASSUME NEW p \in Procs, DropBackup(p) PROVE LockInv'
  BY <1>15, LockGoto DEF DropBackup, files
<1>16. ASSUME NEW p \in Procs, CleanStaging(p) PROVE LockInv'
  BY <1>16, LockGoto DEF CleanStaging, files
<1>17. ASSUME NEW p \in Procs, ReadOwner(p) PROVE LockInv'
  BY <1>17, LockGoto DEF ReadOwner, files
<1>18. ASSUME NEW p \in Procs, TakeLock(p) PROVE LockInv'
  <2>1. CASE Fail(p, "done") /\ UNCHANGED lock
    BY <1>18, <2>1, LockGoto DEF TakeLock
  <2>2. CASE /\ ~lock[ParentOf(p)].held
             /\ lock' = [lock EXCEPT ![ParentOf(p)] = Lock(TRUE, NoFile)]
             /\ Goto(p, "writeOwner")
    BY <1>18, <2>2, LockTaken DEF TakeLock
  <2> QED BY <1>18, <2>1, <2>2 DEF TakeLock
<1>19. ASSUME NEW p \in Procs, WriteOwner(p) PROVE LockInv'
  <2>1. pc[p] \in LockSteps /\ "recheck" \in Pcs /\ "dropOwner" \in Pcs
        /\ "dropOwner" \notin HoldSteps
    BY <1>19 DEF WriteOwner
  <2>2. UNCHANGED target
    BY <1>19 DEF WriteOwner
  <2>3. CASE Goto(p, "recheck") /\ lock' = [lock EXCEPT ![ParentOf(p)] = Lock(TRUE, p)]
    <3>1. Lock(TRUE, p).held /\ Lock(TRUE, p).owner = p
      BY DEF Lock
    <3> HIDE DEF LockSteps, HoldSteps, Pcs
    <3> QED BY <2>1, <2>2, <2>3, <3>1, LockOwn, LockType
  <2>4. CASE Fail(p, "dropOwner") /\ UNCHANGED lock
    <3> HIDE DEF LockSteps, HoldSteps, Pcs
    <3> QED BY <2>1, <2>2, <2>4, LockGoto
  <2>5. CASE Fail(p, "dropOwner") /\ lock' = [lock EXCEPT ![ParentOf(p)] = Lock(TRUE, Garbled)]
    <3>1. Lock(TRUE, Garbled).held
      BY DEF Lock
    <3> HIDE DEF LockSteps, HoldSteps, Pcs
    <3> QED BY <2>1, <2>2, <2>5, <3>1, LockOwn, LockType
  <2> QED BY <1>19, <2>3, <2>4, <2>5 DEF WriteOwner
<1>20. ASSUME NEW p \in Procs, DropOwner(p) PROVE LockInv'
  <2>1. pc[p] \in LockSteps /\ "dropLock" \in Pcs /\ "dropLock" \notin HoldSteps /\ "done" \in Pcs
        /\ "done" \notin LockSteps /\ "done" \notin HoldSteps
    BY <1>20 DEF DropOwner
  <2>2. UNCHANGED target
    BY <1>20 DEF DropOwner
  <2>3. CASE UNCHANGED lock
    <3>1. Goto(p, "dropLock")
      BY <1>20, <2>3 DEF DropOwner
    <3> HIDE DEF LockSteps, HoldSteps, Pcs
    <3> QED BY <2>1, <2>2, <2>3, <3>1, LockGoto
  <2>4. CASE lock' = [lock EXCEPT ![ParentOf(p)] = Lock(lock[ParentOf(p)].held, NoFile)]
    <3>1. Lock(lock[ParentOf(p)].held, NoFile).held
      BY <1>20 DEF DropOwner, Lock, LockInv
    <3>2. Goto(p, "dropLock")
      BY <1>20, <2>4 DEF DropOwner
    <3> HIDE DEF LockSteps, HoldSteps, Pcs
    <3> QED BY <2>1, <2>2, <2>4, <3>2, <3>1, LockOwn, LockType, ParentType
  <2> QED BY <1>20, <2>3, <2>4 DEF DropOwner
<1>21. ASSUME NEW p \in Procs, DropLock(p) PROVE LockInv'
  <2>1. pc[p] \in LockSteps /\ "done" \in Pcs /\ "done" \notin HoldSteps /\ "done" \in Pcs
        /\ "done" \notin LockSteps /\ "done" \notin HoldSteps
    BY <1>21 DEF DropLock
  <2>2. UNCHANGED target
    BY <1>21 DEF DropLock
  <2>3. CASE UNCHANGED lock
    <3>1. Goto(p, "done")
      BY <1>21, <2>3 DEF DropLock
    <3> HIDE DEF LockSteps, HoldSteps, Pcs
    <3> QED BY <2>1, <2>2, <2>3, <3>1, LockGoto
  <2>4. CASE lock' = [lock EXCEPT ![ParentOf(p)] = Free]
    <3>2. Goto(p, "done")
      BY <1>21, <2>4 DEF DropLock
    <3> HIDE DEF LockSteps, HoldSteps, Pcs
    <3> QED BY <2>1, <2>2, <2>4, <3>2, LockOwn, LockType, ParentType
  <2> QED BY <1>21, <2>3, <2>4 DEF DropLock
<1>22. ASSUME NEW p \in Procs, RemoveOwner(p) PROVE LockInv'
  <2>1. pc[p] \in LockSteps /\ "removeLock" \in Pcs /\ "removeLock" \notin HoldSteps /\ "done" \in Pcs
        /\ "done" \notin LockSteps /\ "done" \notin HoldSteps
    BY <1>22 DEF RemoveOwner
  <2>2. UNCHANGED target
    BY <1>22 DEF RemoveOwner
  <2>3. CASE Goto(p, "done") /\ UNCHANGED lock
    <3>1. Goto(p, "done")
      BY <1>22, <2>3 DEF RemoveOwner
    <3> HIDE DEF LockSteps, HoldSteps, Pcs
    <3> QED BY <2>1, <2>2, <2>3, <3>1, LockGoto
  <2>4. CASE Goto(p, "removeLock") /\ lock' = [lock EXCEPT ![ParentOf(p)] = Lock(lock[ParentOf(p)].held, NoFile)]
    <3>1. Lock(lock[ParentOf(p)].held, NoFile).held
      BY <1>22 DEF RemoveOwner, Lock, LockInv
    <3>2. Goto(p, "removeLock")
      BY <1>22, <2>4 DEF RemoveOwner
    <3> HIDE DEF LockSteps, HoldSteps, Pcs
    <3> QED BY <2>1, <2>2, <2>4, <3>2, <3>1, LockOwn, LockType, ParentType
  <2> QED BY <1>22, <2>3, <2>4 DEF RemoveOwner
<1>23. ASSUME NEW p \in Procs, RemoveLock(p) PROVE LockInv'
  <2>1. pc[p] \in LockSteps /\ "done" \in Pcs /\ "done" \notin HoldSteps /\ "done" \in Pcs
        /\ "done" \notin LockSteps /\ "done" \notin HoldSteps
    BY <1>23 DEF RemoveLock
  <2>2. UNCHANGED target
    BY <1>23 DEF RemoveLock
  <2>3. CASE UNCHANGED lock
    <3>1. Goto(p, "done")
      BY <1>23, <2>3 DEF RemoveLock
    <3> HIDE DEF LockSteps, HoldSteps, Pcs
    <3> QED BY <2>1, <2>2, <2>3, <3>1, LockGoto
  <2>4. CASE lock' = [lock EXCEPT ![ParentOf(p)] = Free]
    <3>2. Goto(p, "done")
      BY <1>23, <2>4 DEF RemoveLock
    <3> HIDE DEF LockSteps, HoldSteps, Pcs
    <3> QED BY <2>1, <2>2, <2>4, <3>2, LockOwn, LockType, ParentType
  <2> QED BY <1>23, <2>3, <2>4 DEF RemoveLock
<1>24. ASSUME NEW p \in Procs, NEW o \in Outputs, Start(p, o) PROVE LockInv'
  <2>1. \A q \in Procs : pc'[q] \in LockSteps => /\ pc'[q] = pc[q]
                                                 /\ ParentOf(q)' = ParentOf(q)
    BY <1>24 DEF Start, TypeOK, ParentOf
  <2>2. lock' = lock
    BY <1>24 DEF Start, files
  <2>3. HoldSteps \subseteq LockSteps
    OBVIOUS
  <2> HIDE DEF LockSteps, HoldSteps
  <2> QED BY <2>1, <2>2, <2>3 DEF LockInv, MutualExclusion
<1>25. ASSUME NEW p \in Procs, Cancel(p) PROVE LockInv'
  BY <1>25 DEF Cancel, files, LockInv, MutualExclusion, ParentOf
<1>26. ASSUME NEW p \in Procs, Crash(p) PROVE LockInv'
  BY <1>26, LockGoto DEF Crash
<1>27. ASSUME NEW o \in Outputs, UserEdits(o) PROVE LockInv'
  BY <1>27 DEF UserEdits, locals, LockInv, MutualExclusion, ParentOf
<1>28. ASSUME NEW o \in Outputs, UserRestores(o) PROVE LockInv'
  BY <1>28 DEF UserRestores, locals, LockInv, MutualExclusion, ParentOf
<1>29. ASSUME NEW d \in Parents, MarkerAppears(d) PROVE LockInv'
  BY <1>29 DEF MarkerAppears, locals, LockInv, MutualExclusion, ParentOf
<1>30. ASSUME NEW d \in Parents, UserRemovesLock(d) PROVE LockInv'
  <2>1. \A q \in Procs : pc[q] \in LockSteps => ParentOf(q) # d
    BY <1>30, ~CarelessUser DEF UserRemovesLock, Running
  <2>2. \A q \in Procs : pc[q] \in LockSteps => lock'[ParentOf(q)] = lock[ParentOf(q)]
    BY <1>30, <2>1, ParentType DEF UserRemovesLock, TypeOK
  <2>3. UNCHANGED <<pc, target>> /\ \A q \in Procs : ParentOf(q)' = ParentOf(q)
    BY <1>30 DEF UserRemovesLock, locals, ParentOf
  <2>4. HoldSteps \subseteq LockSteps
    OBVIOUS
  <2> HIDE DEF LockSteps, HoldSteps
  <2> QED BY <2>2, <2>3, <2>4 DEF LockInv, MutualExclusion
<1>31. CASE UNCHANGED vars
  BY <1>31 DEF vars, files, locals, LockInv, MutualExclusion, ParentOf
<1> QED
  BY [Next]_vars, <1>1, <1>2, <1>3, <1>4, <1>5, <1>6, <1>7, <1>8, <1>9, <1>10, <1>11, <1>12, <1>13, <1>14, <1>15, <1>16, <1>17, <1>18, <1>19, <1>20, <1>21, <1>22, <1>23, <1>24, <1>25, <1>26, <1>27, <1>28, <1>29, <1>30, <1>31
     DEF Next, ProcNext, UserNext, Step

-----------------------------------------------------------------------------
(* The swap. *)

(* A step of p keeps SwapInv when it establishes SwapOK(p) and touches nothing
   the others are in the middle of swapping. *)
LEMMA SwapLocal ==
  ASSUME TypeOK, LockInv, SwapInv, NEW p \in Procs, SwapOK(p)',
         \A q \in Procs : q # p => /\ pc'[q] = pc[q]
                                   /\ target'[q] = target[q]
                                   /\ staging'[q] = staging[q]
                                   /\ backup'[q] = backup[q],
         \/ UNCHANGED <<dir, kept>>
         \/ /\ pc[p] \in LockSteps
            /\ \A o \in Outputs : o # target[p] => dir'[o] = dir[o] /\ kept'[o] = kept[o]
  PROVE  SwapInv'
<1>1. ASSUME NEW q \in Procs, q # p PROVE SwapOK(q)'
  <2>1. pc[q] \in SwapSteps \cup {"dropBackup"} =>
          dir'[target[q]] = dir[target[q]] /\ kept'[target[q]] = kept[target[q]]
    <3>1. CASE UNCHANGED <<dir, kept>>
      BY <3>1
    <3>2. CASE /\ pc[p] \in LockSteps
               /\ \A o \in Outputs : o # target[p] => dir'[o] = dir[o] /\ kept'[o] = kept[o]
      <4>1. pc[q] \in SwapSteps \cup {"dropBackup"} => pc[q] \in LockSteps
        BY DEF LockSteps, HoldSteps
      <4>2. pc[q] \in SwapSteps \cup {"dropBackup"} => target[q] # target[p]
        BY <1>1, <3>2, <4>1, LockInv DEF LockInv, MutualExclusion, ParentOf
      <4> QED BY <3>2, <4>2, TypeOK DEF TypeOK
    <3> QED BY <3>1, <3>2
  <2>2. SwapOK(q)
    BY SwapInv DEF SwapInv
  <2> QED BY <1>1, <2>1, <2>2 DEF SwapOK, SwapSteps
<1> QED BY <1>1 DEF SwapInv

(* Every step keeps what is known of a swap under way: what the target,    *)
(* the stage and the backup hold between its calls.                        *)
LEMMA SwapStep ==
  ASSUME TypeOK, LockInv, SwapInv, HiddenInv, ~EditsDuringSwap, [Next]_vars
  PROVE  SwapInv'
<1>0. ASSUME NEW p \in Procs, SwapOK(p)', UNCHANGED <<target, dir, kept>>,
             \A q \in Procs : q # p => /\ pc'[q] = pc[q]
                                       /\ staging'[q] = staging[q]
                                       /\ backup'[q] = backup[q]
  PROVE SwapInv'
  BY <1>0, SwapLocal, TypeOK, LockInv, SwapInv
<1>s. \A p \in Procs : SwapOK(p)
  BY SwapInv DEF SwapInv
<1> USE TypeOK DEF At, Goto, Fail
<1>1. ASSUME NEW p \in Procs, Prepare(p) PROVE SwapInv'
  <2>1. SwapOK(p)'
    BY <1>1, <1>s DEF Prepare, SwapOK, TypeOK, files, history
  <2>2. UNCHANGED <<target, dir, kept>>
    BY <1>1 DEF Prepare, files, history
  <2>3. \A q \in Procs : q # p => /\ pc'[q] = pc[q]
                                 /\ staging'[q] = staging[q]
                                 /\ backup'[q] = backup[q]
    BY <1>1 DEF Prepare, TypeOK
  <2> QED BY <1>0, <2>1, <2>2, <2>3
<1>2. ASSUME NEW p \in Procs, Verify(p) PROVE SwapInv'
  <2>1. SwapOK(p)'
    BY <1>2, <1>s DEF Verify, SwapOK, TypeOK, files, history
  <2>2. UNCHANGED <<target, dir, kept>>
    BY <1>2 DEF Verify, files, history
  <2>3. \A q \in Procs : q # p => /\ pc'[q] = pc[q]
                                 /\ staging'[q] = staging[q]
                                 /\ backup'[q] = backup[q]
    BY <1>2 DEF Verify, TypeOK
  <2> QED BY <1>0, <2>1, <2>2, <2>3
<1>3. ASSUME NEW p \in Procs, TakeLock(p) PROVE SwapInv'
  <2>1. SwapOK(p)'
    BY <1>3, <1>s, ZenonT(60) DEF TakeLock, SwapOK, TypeOK, files, history
  <2>2. UNCHANGED <<target, dir, kept>>
    BY <1>3 DEF TakeLock, files, history
  <2>3. \A q \in Procs : q # p => /\ pc'[q] = pc[q]
                                 /\ staging'[q] = staging[q]
                                 /\ backup'[q] = backup[q]
    BY <1>3 DEF TakeLock, TypeOK
  <2> QED BY <1>0, <2>1, <2>2, <2>3
<1>4. ASSUME NEW p \in Procs, WriteOwner(p) PROVE SwapInv'
  <2>1. SwapOK(p)'
    BY <1>4, <1>s, ZenonT(60) DEF WriteOwner, SwapOK, TypeOK, files, history
  <2>2. UNCHANGED <<target, dir, kept>>
    BY <1>4 DEF WriteOwner, files, history
  <2>3. \A q \in Procs : q # p => /\ pc'[q] = pc[q]
                                 /\ staging'[q] = staging[q]
                                 /\ backup'[q] = backup[q]
    BY <1>4 DEF WriteOwner, TypeOK
  <2> QED BY <1>0, <2>1, <2>2, <2>3
<1>5. ASSUME NEW p \in Procs, DropOwner(p) PROVE SwapInv'
  <2>1. SwapOK(p)'
    BY <1>5, <1>s DEF DropOwner, SwapOK, TypeOK, files, history
  <2>2. UNCHANGED <<target, dir, kept>>
    BY <1>5 DEF DropOwner, files, history
  <2>3. \A q \in Procs : q # p => /\ pc'[q] = pc[q]
                                 /\ staging'[q] = staging[q]
                                 /\ backup'[q] = backup[q]
    BY <1>5 DEF DropOwner, TypeOK
  <2> QED BY <1>0, <2>1, <2>2, <2>3
<1>6. ASSUME NEW p \in Procs, DropLock(p) PROVE SwapInv'
  <2>1. SwapOK(p)'
    BY <1>6, <1>s DEF DropLock, SwapOK, TypeOK, files, history
  <2>2. UNCHANGED <<target, dir, kept>>
    BY <1>6 DEF DropLock, files, history
  <2>3. \A q \in Procs : q # p => /\ pc'[q] = pc[q]
                                 /\ staging'[q] = staging[q]
                                 /\ backup'[q] = backup[q]
    BY <1>6 DEF DropLock, TypeOK
  <2> QED BY <1>0, <2>1, <2>2, <2>3
<1>7. ASSUME NEW p \in Procs, Recheck(p) PROVE SwapInv'
  <2>1. SwapOK(p)'
    BY <1>7, <1>s DEF Recheck, SwapOK, TypeOK, files, history
  <2>2. UNCHANGED <<target, dir, kept>>
    BY <1>7 DEF Recheck, files, history
  <2>3. \A q \in Procs : q # p => /\ pc'[q] = pc[q]
                                 /\ staging'[q] = staging[q]
                                 /\ backup'[q] = backup[q]
    BY <1>7 DEF Recheck, TypeOK
  <2> QED BY <1>0, <2>1, <2>2, <2>3
<1>8. ASSUME NEW p \in Procs, Inspect(p) PROVE SwapInv'
  <2>1. SwapOK(p)'
    BY <1>8, <1>s DEF Inspect, SwapOK, TypeOK, files, history
  <2>2. UNCHANGED <<target, dir, kept>>
    BY <1>8 DEF Inspect, files, history
  <2>3. \A q \in Procs : q # p => /\ pc'[q] = pc[q]
                                 /\ staging'[q] = staging[q]
                                 /\ backup'[q] = backup[q]
    BY <1>8 DEF Inspect, TypeOK
  <2> QED BY <1>0, <2>1, <2>2, <2>3
<1>9. ASSUME NEW p \in Procs, Stage(p) PROVE SwapInv'
  <2>1. SwapOK(p)'
    BY <1>9, <1>s DEF Stage, SwapOK, TypeOK, files, history
  <2>2. UNCHANGED <<target, dir, kept>>
    BY <1>9 DEF Stage, files, history
  <2>3. \A q \in Procs : q # p => /\ pc'[q] = pc[q]
                                 /\ staging'[q] = staging[q]
                                 /\ backup'[q] = backup[q]
    BY <1>9 DEF Stage, TypeOK
  <2> QED BY <1>0, <2>1, <2>2, <2>3
<1>10. ASSUME NEW p \in Procs, Mark(p) PROVE SwapInv'
  <2>1. SwapOK(p)'
    BY <1>10, <1>s DEF Mark, SwapOK, TypeOK, files, history
  <2>2. UNCHANGED <<target, dir, kept>>
    BY <1>10 DEF Mark, files, history
  <2>3. \A q \in Procs : q # p => /\ pc'[q] = pc[q]
                                 /\ staging'[q] = staging[q]
                                 /\ backup'[q] = backup[q]
    BY <1>10 DEF Mark, TypeOK
  <2> QED BY <1>0, <2>1, <2>2, <2>3
<1>11. ASSUME NEW p \in Procs, Fill(p) PROVE SwapInv'
  <2>1. SwapOK(p)'
    BY <1>11, <1>s DEF Fill, SwapOK, TypeOK, files, history, Generation
  <2>2. UNCHANGED <<target, dir, kept>>
    BY <1>11 DEF Fill, files, history
  <2>3. \A q \in Procs : q # p => /\ pc'[q] = pc[q]
                                 /\ staging'[q] = staging[q]
                                 /\ backup'[q] = backup[q]
    BY <1>11 DEF Fill, TypeOK
  <2> QED BY <1>0, <2>1, <2>2, <2>3
<1>12. ASSUME NEW p \in Procs, SetMode(p) PROVE SwapInv'
  <2>1. SwapOK(p)'
    BY <1>12, <1>s DEF SetMode, SwapOK, TypeOK, files, history
  <2>2. UNCHANGED <<target, dir, kept>>
    BY <1>12 DEF SetMode, files, history
  <2>3. \A q \in Procs : q # p => /\ pc'[q] = pc[q]
                                 /\ staging'[q] = staging[q]
                                 /\ backup'[q] = backup[q]
    BY <1>12 DEF SetMode, TypeOK
  <2> QED BY <1>0, <2>1, <2>2, <2>3
<1>13. ASSUME NEW p \in Procs, BeginSwap(p) PROVE SwapInv'
  <2>1. SwapOK(p)'
    BY <1>13, <1>s DEF BeginSwap, SwapOK, TypeOK, files, history
  <2>2. UNCHANGED <<target, dir, kept>>
    BY <1>13 DEF BeginSwap, files, history
  <2>3. \A q \in Procs : q # p => /\ pc'[q] = pc[q]
                                 /\ staging'[q] = staging[q]
                                 /\ backup'[q] = backup[q]
    BY <1>13 DEF BeginSwap, TypeOK
  <2> QED BY <1>0, <2>1, <2>2, <2>3
<1>14. ASSUME NEW p \in Procs, Stat(p) PROVE SwapInv'
  <2>1. SwapOK(p)'
    BY <1>14, <1>s DEF Stat, SwapOK, TypeOK, files, history
  <2>2. UNCHANGED <<target, dir, kept>>
    BY <1>14 DEF Stat, files, history
  <2>3. \A q \in Procs : q # p => /\ pc'[q] = pc[q]
                                 /\ staging'[q] = staging[q]
                                 /\ backup'[q] = backup[q]
    BY <1>14 DEF Stat, TypeOK
  <2> QED BY <1>0, <2>1, <2>2, <2>3
<1>15. ASSUME NEW p \in Procs, Reserve(p) PROVE SwapInv'
  <2>1. SwapOK(p)'
    BY <1>15, <1>s DEF Reserve, SwapOK, TypeOK, files, history
  <2>2. UNCHANGED <<target, dir, kept>>
    BY <1>15 DEF Reserve, files, history
  <2>3. \A q \in Procs : q # p => /\ pc'[q] = pc[q]
                                 /\ staging'[q] = staging[q]
                                 /\ backup'[q] = backup[q]
    BY <1>15 DEF Reserve, TypeOK
  <2> QED BY <1>0, <2>1, <2>2, <2>3
<1>16. ASSUME NEW p \in Procs, DropBackup(p) PROVE SwapInv'
  <2>1. SwapOK(p)'
    BY <1>16, <1>s DEF DropBackup, SwapOK, TypeOK, files, history
  <2>2. UNCHANGED <<target, dir, kept>>
    BY <1>16 DEF DropBackup, files, history
  <2>3. \A q \in Procs : q # p => /\ pc'[q] = pc[q]
                                 /\ staging'[q] = staging[q]
                                 /\ backup'[q] = backup[q]
    BY <1>16 DEF DropBackup, TypeOK
  <2> QED BY <1>0, <2>1, <2>2, <2>3
<1>17. ASSUME NEW p \in Procs, CleanStaging(p) PROVE SwapInv'
  <2>1. SwapOK(p)'
    BY <1>17, <1>s DEF CleanStaging, SwapOK, TypeOK, files, history
  <2>2. UNCHANGED <<target, dir, kept>>
    BY <1>17 DEF CleanStaging, files, history
  <2>3. \A q \in Procs : q # p => /\ pc'[q] = pc[q]
                                 /\ staging'[q] = staging[q]
                                 /\ backup'[q] = backup[q]
    BY <1>17 DEF CleanStaging, TypeOK
  <2> QED BY <1>0, <2>1, <2>2, <2>3
<1>18. ASSUME NEW p \in Procs, ReadOwner(p) PROVE SwapInv'
  <2>1. SwapOK(p)'
    BY <1>18, <1>s DEF ReadOwner, SwapOK, TypeOK, files, history
  <2>2. UNCHANGED <<target, dir, kept>>
    BY <1>18 DEF ReadOwner, files, history
  <2>3. \A q \in Procs : q # p => /\ pc'[q] = pc[q]
                                 /\ staging'[q] = staging[q]
                                 /\ backup'[q] = backup[q]
    BY <1>18 DEF ReadOwner, TypeOK
  <2> QED BY <1>0, <2>1, <2>2, <2>3
<1>19. ASSUME NEW p \in Procs, RemoveOwner(p) PROVE SwapInv'
  <2>1. SwapOK(p)'
    BY <1>19, <1>s DEF RemoveOwner, SwapOK, TypeOK, files, history
  <2>2. UNCHANGED <<target, dir, kept>>
    BY <1>19 DEF RemoveOwner, files, history
  <2>3. \A q \in Procs : q # p => /\ pc'[q] = pc[q]
                                 /\ staging'[q] = staging[q]
                                 /\ backup'[q] = backup[q]
    BY <1>19 DEF RemoveOwner, TypeOK
  <2> QED BY <1>0, <2>1, <2>2, <2>3
<1>20. ASSUME NEW p \in Procs, RemoveLock(p) PROVE SwapInv'
  <2>1. SwapOK(p)'
    BY <1>20, <1>s DEF RemoveLock, SwapOK, TypeOK, files, history
  <2>2. UNCHANGED <<target, dir, kept>>
    BY <1>20 DEF RemoveLock, files, history
  <2>3. \A q \in Procs : q # p => /\ pc'[q] = pc[q]
                                 /\ staging'[q] = staging[q]
                                 /\ backup'[q] = backup[q]
    BY <1>20 DEF RemoveLock, TypeOK
  <2> QED BY <1>0, <2>1, <2>2, <2>3
<1>21. ASSUME NEW p \in Procs, MoveOut(p) PROVE SwapInv'
  <2>1. SwapOK(p)'
    BY <1>21, <1>s, HiddenInv DEF MoveOut, SwapOK, TypeOK, history, HiddenInv
  <2>2. \A q \in Procs : q # p => /\ pc'[q] = pc[q]
                                 /\ target'[q] = target[q]
                                 /\ staging'[q] = staging[q]
                                 /\ backup'[q] = backup[q]
    BY <1>21 DEF MoveOut, TypeOK
  <2>3. pc[p] \in LockSteps
    BY <1>21 DEF MoveOut, LockSteps, HoldSteps, SwapSteps
  <2>4. \A o \in Outputs : o # target[p] => dir'[o] = dir[o] /\ kept'[o] = kept[o]
    BY <1>21 DEF MoveOut, TypeOK, history
  <2> QED BY <2>1, <2>2, <2>3, <2>4, SwapLocal, LockInv, SwapInv
<1>22. ASSUME NEW p \in Procs, MoveIn(p) PROVE SwapInv'
  <2>1. SwapOK(p)'
    BY <1>22, <1>s DEF MoveIn, SwapOK, TypeOK, history
  <2>2. \A q \in Procs : q # p => /\ pc'[q] = pc[q]
                                 /\ target'[q] = target[q]
                                 /\ staging'[q] = staging[q]
                                 /\ backup'[q] = backup[q]
    BY <1>22 DEF MoveIn, TypeOK
  <2>3. pc[p] \in LockSteps
    BY <1>22 DEF MoveIn, LockSteps, HoldSteps, SwapSteps
  <2>4. \A o \in Outputs : o # target[p] => dir'[o] = dir[o] /\ kept'[o] = kept[o]
    BY <1>22 DEF MoveIn, TypeOK, history
  <2> QED BY <2>1, <2>2, <2>3, <2>4, SwapLocal, LockInv, SwapInv
<1>23. ASSUME NEW p \in Procs, Rollback(p) PROVE SwapInv'
  <2>1. SwapOK(p)'
    BY <1>23, <1>s DEF Rollback, SwapOK, TypeOK, history
  <2>2. \A q \in Procs : q # p => /\ pc'[q] = pc[q]
                                 /\ target'[q] = target[q]
                                 /\ staging'[q] = staging[q]
                                 /\ backup'[q] = backup[q]
    BY <1>23 DEF Rollback, TypeOK
  <2>3. pc[p] \in LockSteps
    BY <1>23 DEF Rollback, LockSteps, HoldSteps, SwapSteps
  <2>4. \A o \in Outputs : o # target[p] => dir'[o] = dir[o] /\ kept'[o] = kept[o]
    BY <1>23 DEF Rollback, TypeOK, history
  <2> QED BY <2>1, <2>2, <2>3, <2>4, SwapLocal, LockInv, SwapInv
<1>24. ASSUME NEW p \in Procs, NEW o \in Outputs, Start(p, o) PROVE SwapInv'
  <2>1. SwapOK(p)'
    BY <1>24, <1>s DEF Start, SwapOK, TypeOK
  <2>2. \A q \in Procs : q # p => /\ pc'[q] = pc[q]
                                 /\ target'[q] = target[q]
                                 /\ staging'[q] = staging[q]
                                 /\ backup'[q] = backup[q]
    BY <1>24 DEF Start, TypeOK
  <2>3. UNCHANGED <<dir, kept>>
    BY <1>24 DEF Start, files
  <2> QED BY <2>1, <2>2, <2>3, SwapLocal, LockInv, SwapInv
<1>25. ASSUME NEW p \in Procs, Cancel(p) PROVE SwapInv'
  BY <1>25, <1>s DEF Cancel, files, history, SwapInv, SwapOK
<1>26. ASSUME NEW p \in Procs, Crash(p) PROVE SwapInv'
  <2>1. SwapOK(p)'
    BY <1>26, <1>s DEF Crash, SwapOK, TypeOK
  <2>2. UNCHANGED <<target, dir, kept>>
    BY <1>26 DEF Crash, history
  <2>3. \A q \in Procs : q # p => /\ pc'[q] = pc[q]
                                 /\ staging'[q] = staging[q]
                                 /\ backup'[q] = backup[q]
    BY <1>26 DEF Crash, TypeOK
  <2> QED BY <1>0, <2>1, <2>2, <2>3
<1>27. ASSUME NEW o \in Outputs, MayEdit(o), UNCHANGED locals, dir'[o] = kept'[o],
              \A x \in Outputs : x # o => dir'[x] = dir[x] /\ kept'[x] = kept[x]
       PROVE SwapInv'
  <2>1. ASSUME NEW q \in Procs PROVE SwapOK(q)'
    <3>1. pc[q] \in SwapSteps => target[q] # o
      BY <1>27, ~EditsDuringSwap DEF MayEdit, Swapping
    <3>2. target[q] # o => dir'[target[q]] = dir[target[q]] /\ kept'[target[q]] = kept[target[q]]
      BY <1>27 DEF TypeOK
    <3> QED BY <1>27, <1>s, <3>1, <3>2 DEF SwapOK, SwapSteps, locals
  <2> QED BY <2>1 DEF SwapInv
<1>28. ASSUME NEW o \in Outputs, UserEdits(o) PROVE SwapInv'
  BY <1>27, <1>28 DEF UserEdits, TypeOK
<1>29. ASSUME NEW o \in Outputs, UserRestores(o) PROVE SwapInv'
  BY <1>27, <1>29 DEF UserRestores, TypeOK
<1>30. ASSUME NEW d \in Parents, MarkerAppears(d) PROVE SwapInv'
  BY <1>30, <1>s DEF MarkerAppears, locals, history, SwapInv, SwapOK
<1>31. ASSUME NEW d \in Parents, UserRemovesLock(d) PROVE SwapInv'
  BY <1>31, <1>s DEF UserRemovesLock, locals, history, SwapInv, SwapOK
<1>32. CASE UNCHANGED vars
  BY <1>32, <1>s DEF vars, files, locals, history, SwapInv, SwapOK
<1> QED
  BY [Next]_vars, <1>1, <1>2, <1>3, <1>4, <1>5, <1>6, <1>7, <1>8, <1>9, <1>10, <1>11, <1>12, <1>13, <1>14, <1>15, <1>16, <1>17, <1>18, <1>19, <1>20, <1>21, <1>22, <1>23, <1>24, <1>25, <1>26, <1>28, <1>29, <1>30, <1>31, <1>32
     DEF Next, ProcNext, UserNext, Step

-----------------------------------------------------------------------------
(* Hidden outputs. *)

(* An output that is hidden during a swap is one that may be replaced.     *)
LEMMA HiddenStep ==
  ASSUME TypeOK, SwapInv, HiddenInv, [Next]_vars
  PROVE  HiddenInv'
<1>s. \A p \in Procs : SwapOK(p)
  BY SwapInv DEF SwapInv
<1>0. ASSUME UNCHANGED <<dir, kept>> PROVE HiddenInv'
  BY <1>0, HiddenInv DEF HiddenInv, Replaceable
<1> USE TypeOK, HiddenInv DEF At
<1>1. ASSUME NEW p \in Procs, MoveOut(p) PROVE HiddenInv'
  BY <1>1, <1>s DEF MoveOut, history, HiddenInv, TypeOK, SwapOK
<1>2. ASSUME NEW p \in Procs, MoveIn(p) PROVE HiddenInv'
  BY <1>2 DEF MoveIn, history, HiddenInv, TypeOK
<1>3. ASSUME NEW p \in Procs, Rollback(p) PROVE HiddenInv'
  BY <1>3, <1>s DEF Rollback, history, HiddenInv, TypeOK, SwapOK
<1>4. ASSUME NEW o \in Outputs, UserEdits(o) PROVE HiddenInv'
  BY <1>4 DEF UserEdits, HiddenInv, TypeOK
<1>5. ASSUME NEW o \in Outputs, UserRestores(o) PROVE HiddenInv'
  BY <1>5 DEF UserRestores, HiddenInv, TypeOK
<1>6. ASSUME NEW p \in Procs, Step(p), ~MoveOut(p), ~MoveIn(p), ~Rollback(p) PROVE UNCHANGED <<dir, kept>>
  BY <1>6 DEF Step, Prepare, Verify, TakeLock, WriteOwner, DropOwner, DropLock, Recheck,
       Inspect, Stage, Mark, Fill, SetMode, BeginSwap, Stat, Reserve, DropBackup,
       CleanStaging, ReadOwner, RemoveOwner, RemoveLock, files, history
<1>7. ASSUME NEW p \in Procs, (Cancel(p) \/ Crash(p) \/ \E o \in Outputs : Start(p, o))
      PROVE  UNCHANGED <<dir, kept>>
  BY <1>7 DEF Cancel, Crash, Start, files, history
<1>8. ASSUME NEW d \in Parents, MarkerAppears(d) \/ UserRemovesLock(d) PROVE UNCHANGED <<dir, kept>>
  BY <1>8 DEF MarkerAppears, UserRemovesLock, files, history
<1>9. CASE UNCHANGED vars
  BY <1>9, <1>0 DEF vars, files, history
<1> QED
  BY [Next]_vars, <1>0, <1>1, <1>2, <1>3, <1>4, <1>5, <1>6, <1>7, <1>8, <1>9
     DEF Next, ProcNext, UserNext

(* Where the content of a hidden output waits. *)
Waits(o) ==
  \/ \E p \in Procs : target[p] = o /\ backup[p] = kept[o]
  \/ [kind |-> "backup", out |-> o, was |-> kept[o]] \in litter

(* Every step keeps the last complete output in its place or in a backup.  *)
LEMMA RecoverStep ==
  ASSUME TypeOK, LockInv, SwapInv, HiddenInv, Recoverable, [Next]_vars
  PROVE  Recoverable'
<1>s. \A p \in Procs : SwapOK(p)
  BY SwapInv DEF SwapInv
<1> USE TypeOK DEF At
(* A step that changes neither dir nor kept, and keeps what waits. *)
<1>0. ASSUME UNCHANGED <<dir, kept>>,
             \A p \in Procs : backup[p] # Absent =>
               \/ target'[p] = target[p] /\ backup'[p] = backup[p]
               \/ [kind |-> "backup", out |-> target[p], was |-> backup[p]] \in litter'
               \/ dir[target[p]] = kept[target[p]],
             litter \subseteq litter'
      PROVE Recoverable'
  BY <1>0, Recoverable DEF Recoverable
(* A step that puts one output in place and leaves what waits for the others. *)
<1>p. ASSUME NEW o \in Outputs, dir'[o] = kept'[o], UNCHANGED target,
             \A x \in Outputs : x # o => dir'[x] = dir[x] /\ kept'[x] = kept[x],
             \A p \in Procs : target[p] # o => backup'[p] = backup[p],
             \A l \in litter : l.out # o => l \in litter'
      PROVE Recoverable'
  <2>1. ASSUME NEW x \in Outputs, x # o, dir'[x] # kept'[x] PROVE dir'[x] = Absent /\ Waits(x)'
    <3>1. dir[x] = Absent /\ Waits(x)
      BY <1>p, <2>1, Recoverable DEF Recoverable, Waits
    <3>2. CASE [kind |-> "backup", out |-> x, was |-> kept[x]] \in litter
      BY <1>p, <2>1, <3>1, <3>2 DEF Waits
    <3>3. ASSUME NEW q \in Procs, target[q] = x, backup[q] = kept[x] PROVE Waits(x)'
      BY <1>p, <2>1, <3>3 DEF Waits
    <3> QED BY <1>p, <2>1, <3>1, <3>2, <3>3 DEF Waits
  <2> QED BY <1>p, <2>1 DEF Recoverable, Waits
<1>1. ASSUME NEW p \in Procs, Step(p), ~MoveOut(p), ~MoveIn(p), ~Rollback(p) PROVE Recoverable'
  <2>1. UNCHANGED <<dir, kept, target>>
    BY <1>1 DEF Step, Prepare, Verify, TakeLock, WriteOwner, DropOwner, DropLock, Recheck,
       Inspect, Stage, Mark, Fill, SetMode, BeginSwap, Stat, Reserve, DropBackup,
       CleanStaging, ReadOwner, RemoveOwner, RemoveLock, files, history
  <2>2. litter \subseteq litter'
    BY <1>1 DEF Step, Prepare, Verify, TakeLock, WriteOwner, DropOwner, DropLock, Recheck,
       Inspect, Stage, Mark, Fill, SetMode, BeginSwap, Stat, Reserve, DropBackup,
       CleanStaging, ReadOwner, RemoveOwner, RemoveLock, files
  <2>3. CASE DropBackup(p)
    <3>1. dir[target[p]] = kept[target[p]]
      BY <2>3, <1>s DEF DropBackup, SwapOK
    <3>2. \A q \in Procs : q # p => backup'[q] = backup[q]
      BY <2>3 DEF DropBackup, TypeOK
    <3> QED BY <1>0, <2>1, <2>2, <3>1, <3>2
  <2>4. CASE ~DropBackup(p)
    <3>1. UNCHANGED backup
      BY <1>1, <2>4 DEF Step, Prepare, Verify, TakeLock, WriteOwner, DropOwner, DropLock, Recheck,
       Inspect, Stage, Mark, Fill, SetMode, BeginSwap, Stat, Reserve,
       CleanStaging, ReadOwner, RemoveOwner, RemoveLock
    <3> QED BY <1>0, <2>1, <2>2, <3>1
  <2> QED BY <2>3, <2>4
<1>2. ASSUME NEW p \in Procs, MoveOut(p) PROVE Recoverable'
  <2>1. CASE UNCHANGED <<dir, backup>>
    BY <1>0, <1>2, <2>1 DEF MoveOut, history
  <2>2. CASE /\ dir[target[p]] # Absent
             /\ backup' = [backup EXCEPT ![p] = dir[target[p]]]
             /\ dir' = [dir EXCEPT ![target[p]] = Absent]
    <3>1. UNCHANGED <<target, litter, kept>>
      BY <1>2 DEF MoveOut, history
    <3>2. dir[target[p]] = kept[target[p]] /\ backup[p] = Absent
      BY <1>2, <2>2, <1>s, Recoverable DEF Recoverable, MoveOut, SwapOK, TypeOK
    <3>3. backup'[p] = kept'[target'[p]] /\ dir'[target[p]] = Absent
      BY <2>2, <3>1, <3>2 DEF TypeOK
    <3>4. ASSUME NEW o \in Outputs, o # target[p], dir'[o] # kept'[o]
          PROVE dir'[o] = Absent /\ Waits(o)'
      <4>1. dir'[o] = dir[o] /\ kept'[o] = kept[o]
        BY <2>2, <3>1, <3>4 DEF TypeOK
      <4>2. dir[o] = Absent /\ Waits(o)
        BY <4>1, <3>4, Recoverable DEF Recoverable, Waits
      <4>3. CASE [kind |-> "backup", out |-> o, was |-> kept[o]] \in litter
        BY <4>1, <4>2, <4>3, <3>1 DEF Waits
      <4>4. ASSUME NEW q \in Procs, target[q] = o, backup[q] = kept[o] PROVE Waits(o)'
        <5>1. backup'[q] = backup[q] /\ target'[q] = target[q]
          BY <2>2, <3>1, <3>4, <4>4 DEF TypeOK
        <5> QED BY <5>1, <4>1, <4>4 DEF Waits
      <4> QED BY <4>1, <4>2, <4>3, <4>4 DEF Waits
    <3> QED BY <3>1, <3>3, <3>4 DEF Recoverable, Waits
  <2> QED BY <1>2, <2>1, <2>2 DEF MoveOut
<1>3. ASSUME NEW p \in Procs, MoveIn(p) PROVE Recoverable'
  <2>1. UNCHANGED <<target, litter, backup>>
    BY <1>3 DEF MoveIn
  <2>2. CASE UNCHANGED <<dir, kept>>
    BY <1>0, <2>1, <2>2
  <2>3. CASE /\ dir' = [dir EXCEPT ![target[p]] = staging[p]]
             /\ kept' = [kept EXCEPT ![target[p]] = staging[p]]
    <3>1. target[p] \in Outputs /\ dir'[target[p]] = kept'[target[p]]
      BY <2>3 DEF TypeOK
    <3>2. \A x \in Outputs : x # target[p] => dir'[x] = dir[x] /\ kept'[x] = kept[x]
      BY <2>3 DEF TypeOK
    <3> QED BY <1>p, <2>1, <3>1, <3>2
  <2> QED BY <1>3, <2>2, <2>3 DEF MoveIn, history
<1>4. ASSUME NEW p \in Procs, Rollback(p) PROVE Recoverable'
  <2>1. UNCHANGED <<target, kept>>
    BY <1>4 DEF Rollback, history
  <2>2. backup[p] # Absent /\ backup[p] = kept[target[p]]
    BY <1>4, <1>s DEF Rollback, SwapOK
  <2>3. \A q \in Procs : q # p => backup'[q] = backup[q]
    BY <1>4 DEF Rollback, TypeOK
  <2>4. CASE dir' = [dir EXCEPT ![target[p]] = backup[p]] /\ UNCHANGED litter
    <3>1. target[p] \in Outputs /\ dir'[target[p]] = kept'[target[p]]
      BY <2>1, <2>2, <2>4 DEF TypeOK
    <3>2. \A x \in Outputs : x # target[p] => dir'[x] = dir[x] /\ kept'[x] = kept[x]
      BY <2>1, <2>4 DEF TypeOK
    <3> QED BY <1>p, <2>1, <2>3, <2>4, <3>1, <3>2
  <2>5. CASE litter' = litter \cup Leave("backup", p, backup[p]) /\ UNCHANGED dir
    BY <1>0, <2>1, <2>2, <2>3, <2>5 DEF Leave
  <2> QED BY <1>4, <2>4, <2>5 DEF Rollback
<1>5. ASSUME NEW p \in Procs, NEW o \in Outputs, Start(p, o) PROVE Recoverable'
  <2>1. backup[p] = Absent
    BY <1>5, <1>s DEF Start, SwapOK
  <2>2. \A q \in Procs : q # p => target'[q] = target[q] /\ backup'[q] = backup[q]
    BY <1>5 DEF Start, TypeOK
  <2>3. UNCHANGED <<dir, kept, litter>>
    BY <1>5 DEF Start, files
  <2> QED BY <1>0, <2>1, <2>2, <2>3
<1>6. ASSUME NEW p \in Procs, Cancel(p) PROVE Recoverable'
  BY <1>0, <1>6 DEF Cancel, files, history
<1>7. ASSUME NEW p \in Procs, Crash(p) PROVE Recoverable'
  <2>1. \A q \in Procs : q # p => backup'[q] = backup[q]
    BY <1>7 DEF Crash, TypeOK
  <2>2. UNCHANGED <<dir, kept, target>> /\ litter \subseteq litter'
    BY <1>7 DEF Crash, history
  <2>3. backup[p] # Absent =>
          [kind |-> "backup", out |-> target[p], was |-> backup[p]] \in litter'
    BY <1>7 DEF Crash, Leave
  <2> QED BY <1>0, <2>1, <2>2, <2>3
<1>8. ASSUME NEW o \in Outputs, UserEdits(o) PROVE Recoverable'
  <2>1. dir'[o] = kept'[o] /\ UNCHANGED <<target, backup, litter>>
    BY <1>8 DEF UserEdits, locals, TypeOK
  <2>2. \A x \in Outputs : x # o => dir'[x] = dir[x] /\ kept'[x] = kept[x]
    BY <1>8 DEF UserEdits, TypeOK
  <2> QED BY <1>p, <2>1, <2>2
<1>9. ASSUME NEW o \in Outputs, UserRestores(o) PROVE Recoverable'
  <2>1. dir'[o] = kept'[o] /\ UNCHANGED <<target, backup>>
    BY <1>9 DEF UserRestores, locals, TypeOK
  <2>2. \A x \in Outputs : x # o => dir'[x] = dir[x] /\ kept'[x] = kept[x]
    BY <1>9 DEF UserRestores, TypeOK
  <2>3. \A l \in litter : l.out # o => l \in litter'
    BY <1>9 DEF UserRestores
  <2> QED BY <1>p, <2>1, <2>2, <2>3
<1>10. ASSUME NEW d \in Parents, MarkerAppears(d) PROVE Recoverable'
  BY <1>0, <1>10 DEF MarkerAppears, locals, history
<1>11. ASSUME NEW d \in Parents, UserRemovesLock(d) PROVE Recoverable'
  BY <1>0, <1>11 DEF UserRemovesLock, locals, history
<1>12. CASE UNCHANGED vars
  BY <1>0, <1>12 DEF vars, files, locals, history
<1> QED
  BY [Next]_vars, <1>1, <1>2, <1>3, <1>4, <1>5, <1>6, <1>7, <1>8, <1>9, <1>10, <1>11, <1>12
     DEF Next, ProcNext, UserNext

-----------------------------------------------------------------------------
(* The theorems. *)

(* The initial states satisfy the inductive invariant.                     *)
LEMMA InitInvariant == Init => IInv
<1> SUFFICES ASSUME Init PROVE IInv
  OBVIOUS
<1>1. TypeOK
  BY ContentsType, BoundsAssumption DEF Init, TypeOK, Pcs, Results, Litter, LockType, Locks, Lock, Free
<1>2. LockInv
  BY DEF Init, LockInv, MutualExclusion, Steps, LockSteps, HoldSteps, SwapSteps
<1>3. SwapInv
  BY DEF Init, SwapInv, SwapOK
<1>4. HiddenInv /\ Recoverable
  BY DEF Init, HiddenInv, Recoverable
<1> QED BY <1>1, <1>2, <1>3, <1>4 DEF IInv

(* Every run of Build keeps its variables in their types, whatever the user does. *)
THEOREM TypeCorrect == Spec => []TypeOK
<1>1. Init => TypeOK
  BY InitInvariant DEF IInv
<1>2. TypeOK /\ [Next]_vars => TypeOK'
  BY TypeStep
<1> QED BY <1>1, <1>2, PTL DEF Spec

(* Build, acquireLock, releaseLock: while no user removes the lock of a running
   render, two renders never work in one parent at a time. *)
THEOREM LockExcludes == ASSUME ~CarelessUser PROVE Spec => []MutualExclusion
<1>1. Init => TypeOK /\ LockInv
  BY InitInvariant DEF IInv
<1>2. TypeOK /\ LockInv /\ [Next]_vars => (TypeOK /\ LockInv)'
  BY TypeStep, LockStep, ~CarelessUser
<1>3. TypeOK /\ LockInv => MutualExclusion
  BY DEF LockInv
<1> QED BY <1>1, <1>2, <1>3, PTL DEF Spec

(* The inductive invariant holds throughout every behaviour.               *)
LEMMA Invariance ==
  ASSUME ~CarelessUser, ~EditsDuringSwap
  PROVE  Spec => []IInv
<1>1. Init => IInv
  BY InitInvariant
<1>2. IInv /\ [Next]_vars => IInv'
  BY TypeStep, LockStep, SwapStep, HiddenStep, RecoverStep, ~CarelessUser, ~EditsDuringSwap
     DEF IInv
<1> QED BY <1>1, <1>2, PTL DEF Spec

(* replace and its rollback: for a careful user the content of every output is
   in place or waits, whole, in a backup, whatever call fails and whoever crashes. *)
THEOREM ContentSurvives ==
  ASSUME ~CarelessUser, ~EditsDuringSwap
  PROVE  Spec => []Recoverable
<1>1. IInv => Recoverable
  BY DEF IInv
<1> QED BY <1>1, Invariance, PTL

(* replaceableMode, called again by replace: only the user changes what a render
   may not replace. *)
THEOREM UnmanagedSurvives ==
  ASSUME ~CarelessUser, ~EditsDuringSwap
  PROVE  Spec => UnmanagedUntouched
<1> DEFINE Untouched == \A o \in Outputs :
       (~Replaceable(dir[o]) /\ dir'[o] # dir[o]) => edits' = edits + 1
<1>1. IInv /\ [Next]_vars => [Untouched]_vars
  <2> SUFFICES ASSUME IInv, [Next]_vars, NEW o \in Outputs, ~Replaceable(dir[o]), dir'[o] # dir[o]
               PROVE  edits' = edits + 1
    OBVIOUS
  <2>0. TypeOK /\ \A p \in Procs : SwapOK(p)
    BY DEF IInv, SwapInv
  <2>a. Replaceable(Absent)
    BY DEF Replaceable, ReplaceableKinds, Absent, Plain
  <2>1. ASSUME NEW p \in Procs, MoveOut(p) PROVE FALSE
    BY <2>0, <2>1 DEF MoveOut, At, SwapOK, TypeOK
  <2>2. ASSUME NEW p \in Procs, MoveIn(p) PROVE FALSE
    BY <2>0, <2>2, <2>a DEF MoveIn, TypeOK
  <2>3. ASSUME NEW p \in Procs, Rollback(p) PROVE FALSE
    BY <2>0, <2>3, <2>a DEF Rollback, TypeOK
  <2>4. ASSUME NEW x \in Outputs, UserEdits(x) PROVE edits' = edits + 1
    BY <2>4 DEF UserEdits
  <2>5. ASSUME NEW x \in Outputs, UserRestores(x) PROVE edits' = edits + 1
    BY <2>5 DEF UserRestores
  <2>6. ASSUME NEW p \in Procs, Step(p), ~MoveOut(p), ~MoveIn(p), ~Rollback(p) PROVE UNCHANGED dir
    BY <2>6 DEF Step, Prepare, Verify, TakeLock, WriteOwner, DropOwner, DropLock, Recheck,
         Inspect, Stage, Mark, Fill, SetMode, BeginSwap, Stat, Reserve, DropBackup,
         CleanStaging, ReadOwner, RemoveOwner, RemoveLock, files
  <2>7. ASSUME NEW p \in Procs, (Cancel(p) \/ Crash(p) \/ \E x \in Outputs : Start(p, x))
        PROVE  UNCHANGED dir
    BY <2>7 DEF Cancel, Crash, Start, files
  <2>8. ASSUME NEW d \in Parents, MarkerAppears(d) \/ UserRemovesLock(d) PROVE UNCHANGED dir
    BY <2>8 DEF MarkerAppears, UserRemovesLock
  <2>9. CASE UNCHANGED vars
    BY <2>9 DEF vars, files
  <2> QED BY <2>1, <2>2, <2>3, <2>4, <2>5, <2>6, <2>7, <2>8, <2>9
             DEF Next, ProcNext, UserNext
<1> QED BY <1>1, Invariance, PTL DEF Spec, UnmanagedUntouched

-----------------------------------------------------------------------------
(* The refinement. *)

(* What a step of OutputBuild that puts output o in place, or takes it away,
   does to the two variables of AtomicOutput. *)
LEMMA InPlaceUpdate ==
  ASSUME NEW o \in Outputs, NEW b \in BOOLEAN,
         \A x \in Outputs : x # o => dir'[x] = dir[x] /\ kept'[x] = kept[x],
         (dir'[o] = kept'[o]) <=> b
  PROVE  [x \in Outputs |-> dir'[x] = kept'[x]]
           = [[x \in Outputs |-> dir[x] = kept[x]] EXCEPT ![o] = b]
<1> DEFINE now == [x \in Outputs |-> dir[x] = kept[x]]
           next == [x \in Outputs |-> dir'[x] = kept'[x]]
<1>1. \A x \in Outputs : next[x] = [now EXCEPT ![o] = b][x]
  <2> TAKE x \in Outputs
  <2>1. CASE x = o
    <3>1. (dir'[o] = kept'[o]) = b
      OBVIOUS
    <3> QED BY <2>1, <3>1
  <2>2. CASE x # o
    <3>1. (dir'[x] = kept'[x]) = (dir[x] = kept[x])
      BY <2>2
    <3> QED BY <2>2, <3>1
  <2> QED BY <2>1, <2>2
<1> QED BY <1>1

(* Every step of the detailed system is a step of AtomicOutput or leaves   *)
(* its variables alone.                                                    *)
LEMMA AtomicStep ==
  ASSUME IInv, ~EditsDuringSwap, [Next]_vars
  PROVE  [Atomic!Next]_(Atomic!vars)
<1> DEFINE now == [o \in Outputs |-> dir[o] = kept[o]]
           next == [o \in Outputs |-> dir'[o] = kept'[o]]
<1>i. TypeOK /\ HiddenInv /\ TypeOK' /\ \A p \in Procs : SwapOK(p)
  BY TypeStep DEF IInv, SwapInv
<1>0. ASSUME UNCHANGED <<dir, kept, edits>> PROVE UNCHANGED Atomic!vars
  BY <1>0 DEF Atomic!vars
<1>1. ASSUME NEW p \in Procs, MoveOut(p) PROVE Atomic!Next \/ UNCHANGED <<dir, kept, edits>>
  <2>1. CASE UNCHANGED <<dir, backup>>
    BY <1>1, <2>1 DEF MoveOut, history
  <2> DEFINE o == target[p]
  <2>2. CASE dir[o] # Absent /\ dir' = [dir EXCEPT ![o] = Absent]
    <3>1. o \in Outputs /\ dir[o] = kept[o] /\ kept' = kept /\ Replaceable(kept[o])
      BY <1>1, <1>i, <2>2 DEF MoveOut, history, HiddenInv, TypeOK, SwapOK, At
    <3>2. \A x \in Outputs : x # o => dir'[x] = dir[x] /\ kept'[x] = kept[x]
      BY <2>2, <3>1, <1>i DEF TypeOK
    <3>3. dir'[o] # kept'[o]
      BY <2>2, <3>1, <1>i DEF TypeOK
    <3>4. next = [now EXCEPT ![o] = FALSE]
      BY <3>1, <3>2, <3>3, InPlaceUpdate
    <3>5. kept[o] \in {c \in Contents : Replaceable(c)}
      BY <3>1, <1>i DEF TypeOK
    <3>6. UNCHANGED edits
      BY <1>1 DEF MoveOut
    <3> QED BY <3>1, <3>4, <3>5, <3>6 DEF Atomic!Next, Atomic!SetAside
  <2> QED BY <1>1, <2>1, <2>2 DEF MoveOut
<1>2. ASSUME NEW p \in Procs, MoveIn(p) PROVE Atomic!Next \/ UNCHANGED <<dir, kept, edits>>
  <2> DEFINE o == target[p]
  <2>1. CASE UNCHANGED <<dir, kept>>
    BY <1>2, <2>1 DEF MoveIn
  <2>2. CASE /\ dir[o] = Absent
             /\ dir' = [dir EXCEPT ![o] = staging[p]]
             /\ kept' = [kept EXCEPT ![o] = staging[p]]
    <3>1. o \in Outputs /\ dir'[o] = kept'[o] /\ kept'[o] = staging[p]
      BY <2>2, <1>i DEF TypeOK
    <3>2. \A x \in Outputs : x # o => dir'[x] = dir[x] /\ kept'[x] = kept[x]
      BY <2>2, <1>i DEF TypeOK
    <3>3. next = [now EXCEPT ![o] = TRUE]
      BY <3>1, <3>2, InPlaceUpdate
    <3>4. kept[o] \in {c \in Contents : Replaceable(c)}
      BY <2>2, <3>1, <1>i DEF TypeOK, HiddenInv, Replaceable, ReplaceableKinds, Absent, Plain
    <3>5. staging[p] \in {c \in Contents : c.kind = "managed"}
      BY <1>2, <1>i DEF MoveIn, At, SwapOK, TypeOK
    <3>6. kept' = [kept EXCEPT ![o] = kept'[o]]
      BY <2>2, <3>1
    <3>7. UNCHANGED edits
      BY <1>2 DEF MoveIn
    <3> QED BY <3>1, <3>3, <3>4, <3>5, <3>6, <3>7 DEF Atomic!Next, Atomic!Commit
  <2> QED BY <1>2, <2>1, <2>2 DEF MoveIn, history
<1>3. ASSUME NEW p \in Procs, Rollback(p) PROVE Atomic!Next \/ UNCHANGED <<dir, kept, edits>>
  <2> DEFINE o == target[p]
  <2>1. CASE UNCHANGED dir
    BY <1>3, <2>1 DEF Rollback, history
  <2>2. CASE dir' = [dir EXCEPT ![o] = backup[p]]
    <3>1. /\ o \in Outputs /\ kept' = kept /\ dir[o] = Absent
          /\ backup[p] # Absent /\ backup[p] = kept[o]
      BY <1>3, <1>i DEF Rollback, history, TypeOK, SwapOK, At
    <3>2. \A x \in Outputs : x # o => dir'[x] = dir[x] /\ kept'[x] = kept[x]
      BY <2>2, <3>1, <1>i DEF TypeOK
    <3>3. dir'[o] = kept'[o] /\ dir[o] # kept[o]
      BY <2>2, <3>1, <1>i DEF TypeOK
    <3>4. next = [now EXCEPT ![o] = TRUE]
      BY <3>1, <3>2, <3>3, InPlaceUpdate
    <3>5. ~now[o]
      BY <3>1, <3>3
    <3>6. UNCHANGED edits
      BY <1>3 DEF Rollback
    <3> QED BY <3>1, <3>4, <3>5, <3>6 DEF Atomic!Next, Atomic!PutBack
  <2> QED BY <1>3, <2>1, <2>2 DEF Rollback
<1>4. ASSUME NEW o \in Outputs, UserEdits(o) \/ UserRestores(o) PROVE Atomic!Next
  <2>1. dir'[o] = kept'[o] /\ kept' = [kept EXCEPT ![o] = kept'[o]]
    BY <1>4, <1>i DEF UserEdits, UserRestores, TypeOK
  <2>2. \A x \in Outputs : x # o => dir'[x] = dir[x] /\ kept'[x] = kept[x]
    BY <1>4, <1>i DEF UserEdits, UserRestores, TypeOK
  <2>3. next = [now EXCEPT ![o] = TRUE]
    BY <2>1, <2>2, InPlaceUpdate
  <2>4. kept'[o] \in Contents
    BY <1>i DEF TypeOK
  <2>5. edits' = edits + 1
    BY <1>4 DEF UserEdits, UserRestores
  <2> QED BY <2>1, <2>3, <2>4, <2>5 DEF Atomic!Next, Atomic!Edit
<1>5. ASSUME NEW p \in Procs, Step(p), ~MoveOut(p), ~MoveIn(p), ~Rollback(p)
      PROVE  UNCHANGED <<dir, kept, edits>>
  BY <1>5 DEF Step, Prepare, Verify, TakeLock, WriteOwner, DropOwner, DropLock, Recheck,
       Inspect, Stage, Mark, Fill, SetMode, BeginSwap, Stat, Reserve, DropBackup,
       CleanStaging, ReadOwner, RemoveOwner, RemoveLock, files, history, counters
<1>6. ASSUME NEW p \in Procs, (Cancel(p) \/ Crash(p) \/ \E o \in Outputs : Start(p, o))
      PROVE  UNCHANGED <<dir, kept, edits>>
  BY <1>6 DEF Cancel, Crash, Start, files, history, counters
<1>7. ASSUME NEW d \in Parents, MarkerAppears(d) \/ UserRemovesLock(d)
      PROVE  UNCHANGED <<dir, kept, edits>>
  BY <1>7 DEF MarkerAppears, UserRemovesLock, files, history, counters
<1>8. CASE UNCHANGED vars
  BY <1>8, <1>0 DEF vars, files, history, counters
<1> QED
  BY [Next]_vars, <1>0, <1>1, <1>2, <1>3, <1>4, <1>5, <1>6, <1>7, <1>8
     DEF Next, ProcNext, UserNext

(* Build implements AtomicOutput: its twenty-three system calls, with their
   failures, cancellations and crashes, look like one replacement of a content. *)
THEOREM ImplementsAtomicOutput ==
  ASSUME ~CarelessUser, ~EditsDuringSwap
  PROVE  Spec => AtomicSpec
<1>1. Init => Atomic!Init
  <2> SUFFICES ASSUME Init PROVE Atomic!Init
    OBVIOUS
  <2>1. kept \in [Outputs -> Contents] /\ dir = kept /\ edits = 0
    BY InitInvariant DEF IInv, TypeOK, Init
  <2>2. [o \in Outputs |-> dir[o] = kept[o]] = [o \in Outputs |-> TRUE]
    BY <2>1
  <2> QED BY <2>1, <2>2 DEF Atomic!Init
<1>2. IInv /\ [Next]_vars => [Atomic!Next]_(Atomic!vars)
  BY AtomicStep, ~EditsDuringSwap
<1> QED BY <1>1, <1>2, Invariance, PTL DEF Spec, AtomicSpec, Atomic!Spec

-----------------------------------------------------------------------------
(* The result. *)

(* What result, outputCommitted and the history know of each other at each *)
(* step: before the rename nothing failed yet; the clean-ups of a Build    *)
(* that did not commit carry an error; after it every clean-up knows.      *)
TruthOK(p) ==
  /\ pc[p] \in {"prepare", "verify", "lock", "writeOwner", "recheck", "inspect", "stage",
                "mark", "fill", "chmod", "swap", "stat", "reserve", "moveOut", "moveIn"}
       => ~swapped[p] /\ ~committed[p] /\ result[p] = "nil"
  /\ pc[p] \in {"dropOwner", "dropLock", "rollback", "cleanStaging"}
       => ~swapped[p] /\ ~committed[p] /\ result[p] = "error"
  /\ pc[p] = "dropBackup" => swapped[p] /\ result[p] = "nil"
  /\ pc[p] \in {"readOwner", "removeOwner", "removeLock"}
       => (committed[p] <=> swapped[p]) /\ (swapped[p] <=> result[p] # "error")
  /\ pc[p] = "done" => (swapped[p] <=> result[p] # "error")

TruthInv == \A p \in Procs : TruthOK(p)

(* A step of p that leaves the other processes alone.                      *)
LEMMA TruthLocal ==
  ASSUME TruthInv, NEW p \in Procs, TruthOK(p)',
         \A q \in Procs : q # p => /\ pc'[q] = pc[q]
                                   /\ swapped'[q] = swapped[q]
                                   /\ committed'[q] = committed[q]
                                   /\ result'[q] = result[q]
  PROVE  TruthInv'
BY DEF TruthInv, TruthOK

(* Every step keeps the results truthful: a step of the proof for every    *)
(* action.                                                                 *)
LEMMA TruthStep ==
  ASSUME TypeOK, TruthInv, [Next]_vars
  PROVE  TruthInv'
<1> USE TypeOK DEF TypeOK, At, Goto, Fail, JoinError, files, history
<1>0. \A p \in Procs : TruthOK(p)
  BY TruthInv DEF TruthInv
<1>1. ASSUME NEW p \in Procs, Prepare(p) PROVE TruthInv'
  <2>1. TruthOK(p)'
    BY <1>0, <1>1 DEF Prepare, TruthOK
  <2>2. \A q \in Procs : q # p => /\ pc'[q] = pc[q]
                                  /\ swapped'[q] = swapped[q]
                                  /\ committed'[q] = committed[q]
                                  /\ result'[q] = result[q]
    BY <1>1 DEF Prepare
  <2> QED BY <2>1, <2>2, TruthLocal, TruthInv
<1>2. ASSUME NEW p \in Procs, Verify(p) PROVE TruthInv'
  <2>1. TruthOK(p)'
    BY <1>0, <1>2 DEF Verify, TruthOK
  <2>2. \A q \in Procs : q # p => /\ pc'[q] = pc[q]
                                  /\ swapped'[q] = swapped[q]
                                  /\ committed'[q] = committed[q]
                                  /\ result'[q] = result[q]
    BY <1>2 DEF Verify
  <2> QED BY <2>1, <2>2, TruthLocal, TruthInv
<1>3. ASSUME NEW p \in Procs, TakeLock(p) PROVE TruthInv'
  <2>1. TruthOK(p)'
    BY <1>0, <1>3 DEF TakeLock, TruthOK
  <2>2. \A q \in Procs : q # p => /\ pc'[q] = pc[q]
                                  /\ swapped'[q] = swapped[q]
                                  /\ committed'[q] = committed[q]
                                  /\ result'[q] = result[q]
    BY <1>3 DEF TakeLock
  <2> QED BY <2>1, <2>2, TruthLocal, TruthInv
<1>4. ASSUME NEW p \in Procs, WriteOwner(p) PROVE TruthInv'
  <2>1. TruthOK(p)'
    BY <1>0, <1>4 DEF WriteOwner, TruthOK
  <2>2. \A q \in Procs : q # p => /\ pc'[q] = pc[q]
                                  /\ swapped'[q] = swapped[q]
                                  /\ committed'[q] = committed[q]
                                  /\ result'[q] = result[q]
    BY <1>4 DEF WriteOwner
  <2> QED BY <2>1, <2>2, TruthLocal, TruthInv
<1>5. ASSUME NEW p \in Procs, DropOwner(p) PROVE TruthInv'
  <2>1. TruthOK(p)'
    BY <1>0, <1>5 DEF DropOwner, TruthOK
  <2>2. \A q \in Procs : q # p => /\ pc'[q] = pc[q]
                                  /\ swapped'[q] = swapped[q]
                                  /\ committed'[q] = committed[q]
                                  /\ result'[q] = result[q]
    BY <1>5 DEF DropOwner
  <2> QED BY <2>1, <2>2, TruthLocal, TruthInv
<1>6. ASSUME NEW p \in Procs, DropLock(p) PROVE TruthInv'
  <2>1. TruthOK(p)'
    BY <1>0, <1>6 DEF DropLock, TruthOK
  <2>2. \A q \in Procs : q # p => /\ pc'[q] = pc[q]
                                  /\ swapped'[q] = swapped[q]
                                  /\ committed'[q] = committed[q]
                                  /\ result'[q] = result[q]
    BY <1>6 DEF DropLock
  <2> QED BY <2>1, <2>2, TruthLocal, TruthInv
<1>7. ASSUME NEW p \in Procs, Recheck(p) PROVE TruthInv'
  <2>1. TruthOK(p)'
    BY <1>0, <1>7 DEF Recheck, TruthOK
  <2>2. \A q \in Procs : q # p => /\ pc'[q] = pc[q]
                                  /\ swapped'[q] = swapped[q]
                                  /\ committed'[q] = committed[q]
                                  /\ result'[q] = result[q]
    BY <1>7 DEF Recheck
  <2> QED BY <2>1, <2>2, TruthLocal, TruthInv
<1>8. ASSUME NEW p \in Procs, Inspect(p) PROVE TruthInv'
  <2>1. TruthOK(p)'
    BY <1>0, <1>8 DEF Inspect, TruthOK
  <2>2. \A q \in Procs : q # p => /\ pc'[q] = pc[q]
                                  /\ swapped'[q] = swapped[q]
                                  /\ committed'[q] = committed[q]
                                  /\ result'[q] = result[q]
    BY <1>8 DEF Inspect
  <2> QED BY <2>1, <2>2, TruthLocal, TruthInv
<1>9. ASSUME NEW p \in Procs, Stage(p) PROVE TruthInv'
  <2>1. TruthOK(p)'
    BY <1>0, <1>9 DEF Stage, TruthOK
  <2>2. \A q \in Procs : q # p => /\ pc'[q] = pc[q]
                                  /\ swapped'[q] = swapped[q]
                                  /\ committed'[q] = committed[q]
                                  /\ result'[q] = result[q]
    BY <1>9 DEF Stage
  <2> QED BY <2>1, <2>2, TruthLocal, TruthInv
<1>10. ASSUME NEW p \in Procs, Mark(p) PROVE TruthInv'
  <2>1. TruthOK(p)'
    BY <1>0, <1>10 DEF Mark, TruthOK
  <2>2. \A q \in Procs : q # p => /\ pc'[q] = pc[q]
                                  /\ swapped'[q] = swapped[q]
                                  /\ committed'[q] = committed[q]
                                  /\ result'[q] = result[q]
    BY <1>10 DEF Mark
  <2> QED BY <2>1, <2>2, TruthLocal, TruthInv
<1>11. ASSUME NEW p \in Procs, Fill(p) PROVE TruthInv'
  <2>1. TruthOK(p)'
    BY <1>0, <1>11 DEF Fill, TruthOK
  <2>2. \A q \in Procs : q # p => /\ pc'[q] = pc[q]
                                  /\ swapped'[q] = swapped[q]
                                  /\ committed'[q] = committed[q]
                                  /\ result'[q] = result[q]
    BY <1>11 DEF Fill
  <2> QED BY <2>1, <2>2, TruthLocal, TruthInv
<1>12. ASSUME NEW p \in Procs, SetMode(p) PROVE TruthInv'
  <2>1. TruthOK(p)'
    BY <1>0, <1>12 DEF SetMode, TruthOK
  <2>2. \A q \in Procs : q # p => /\ pc'[q] = pc[q]
                                  /\ swapped'[q] = swapped[q]
                                  /\ committed'[q] = committed[q]
                                  /\ result'[q] = result[q]
    BY <1>12 DEF SetMode
  <2> QED BY <2>1, <2>2, TruthLocal, TruthInv
<1>13. ASSUME NEW p \in Procs, BeginSwap(p) PROVE TruthInv'
  <2>1. TruthOK(p)'
    BY <1>0, <1>13 DEF BeginSwap, TruthOK
  <2>2. \A q \in Procs : q # p => /\ pc'[q] = pc[q]
                                  /\ swapped'[q] = swapped[q]
                                  /\ committed'[q] = committed[q]
                                  /\ result'[q] = result[q]
    BY <1>13 DEF BeginSwap
  <2> QED BY <2>1, <2>2, TruthLocal, TruthInv
<1>14. ASSUME NEW p \in Procs, Stat(p) PROVE TruthInv'
  <2>1. TruthOK(p)'
    BY <1>0, <1>14 DEF Stat, TruthOK
  <2>2. \A q \in Procs : q # p => /\ pc'[q] = pc[q]
                                  /\ swapped'[q] = swapped[q]
                                  /\ committed'[q] = committed[q]
                                  /\ result'[q] = result[q]
    BY <1>14 DEF Stat
  <2> QED BY <2>1, <2>2, TruthLocal, TruthInv
<1>15. ASSUME NEW p \in Procs, Reserve(p) PROVE TruthInv'
  <2>1. TruthOK(p)'
    BY <1>0, <1>15 DEF Reserve, TruthOK
  <2>2. \A q \in Procs : q # p => /\ pc'[q] = pc[q]
                                  /\ swapped'[q] = swapped[q]
                                  /\ committed'[q] = committed[q]
                                  /\ result'[q] = result[q]
    BY <1>15 DEF Reserve
  <2> QED BY <2>1, <2>2, TruthLocal, TruthInv
<1>16. ASSUME NEW p \in Procs, MoveOut(p) PROVE TruthInv'
  <2>1. TruthOK(p)'
    BY <1>0, <1>16 DEF MoveOut, TruthOK
  <2>2. \A q \in Procs : q # p => /\ pc'[q] = pc[q]
                                  /\ swapped'[q] = swapped[q]
                                  /\ committed'[q] = committed[q]
                                  /\ result'[q] = result[q]
    BY <1>16 DEF MoveOut
  <2> QED BY <2>1, <2>2, TruthLocal, TruthInv
<1>17. ASSUME NEW p \in Procs, MoveIn(p) PROVE TruthInv'
  <2>1. TruthOK(p)'
    BY <1>0, <1>17 DEF MoveIn, TruthOK
  <2>2. \A q \in Procs : q # p => /\ pc'[q] = pc[q]
                                  /\ swapped'[q] = swapped[q]
                                  /\ committed'[q] = committed[q]
                                  /\ result'[q] = result[q]
    BY <1>17 DEF MoveIn
  <2> QED BY <2>1, <2>2, TruthLocal, TruthInv
<1>18. ASSUME NEW p \in Procs, Rollback(p) PROVE TruthInv'
  <2>1. TruthOK(p)'
    BY <1>0, <1>18 DEF Rollback, TruthOK
  <2>2. \A q \in Procs : q # p => /\ pc'[q] = pc[q]
                                  /\ swapped'[q] = swapped[q]
                                  /\ committed'[q] = committed[q]
                                  /\ result'[q] = result[q]
    BY <1>18 DEF Rollback
  <2> QED BY <2>1, <2>2, TruthLocal, TruthInv
<1>19. ASSUME NEW p \in Procs, DropBackup(p) PROVE TruthInv'
  <2>1. TruthOK(p)'
    BY <1>0, <1>19 DEF DropBackup, TruthOK
  <2>2. \A q \in Procs : q # p => /\ pc'[q] = pc[q]
                                  /\ swapped'[q] = swapped[q]
                                  /\ committed'[q] = committed[q]
                                  /\ result'[q] = result[q]
    BY <1>19 DEF DropBackup
  <2> QED BY <2>1, <2>2, TruthLocal, TruthInv
<1>20. ASSUME NEW p \in Procs, CleanStaging(p) PROVE TruthInv'
  <2>1. TruthOK(p)'
    BY <1>0, <1>20 DEF CleanStaging, TruthOK
  <2>2. \A q \in Procs : q # p => /\ pc'[q] = pc[q]
                                  /\ swapped'[q] = swapped[q]
                                  /\ committed'[q] = committed[q]
                                  /\ result'[q] = result[q]
    BY <1>20 DEF CleanStaging
  <2> QED BY <2>1, <2>2, TruthLocal, TruthInv
<1>21. ASSUME NEW p \in Procs, ReadOwner(p) PROVE TruthInv'
  <2>1. TruthOK(p)'
    BY <1>0, <1>21 DEF ReadOwner, TruthOK
  <2>2. \A q \in Procs : q # p => /\ pc'[q] = pc[q]
                                  /\ swapped'[q] = swapped[q]
                                  /\ committed'[q] = committed[q]
                                  /\ result'[q] = result[q]
    BY <1>21 DEF ReadOwner
  <2> QED BY <2>1, <2>2, TruthLocal, TruthInv
<1>22. ASSUME NEW p \in Procs, RemoveOwner(p) PROVE TruthInv'
  <2>1. TruthOK(p)'
    BY <1>0, <1>22 DEF RemoveOwner, TruthOK
  <2>2. \A q \in Procs : q # p => /\ pc'[q] = pc[q]
                                  /\ swapped'[q] = swapped[q]
                                  /\ committed'[q] = committed[q]
                                  /\ result'[q] = result[q]
    BY <1>22 DEF RemoveOwner
  <2> QED BY <2>1, <2>2, TruthLocal, TruthInv
<1>23. ASSUME NEW p \in Procs, RemoveLock(p) PROVE TruthInv'
  <2>1. TruthOK(p)'
    BY <1>0, <1>23 DEF RemoveLock, TruthOK
  <2>2. \A q \in Procs : q # p => /\ pc'[q] = pc[q]
                                  /\ swapped'[q] = swapped[q]
                                  /\ committed'[q] = committed[q]
                                  /\ result'[q] = result[q]
    BY <1>23 DEF RemoveLock
  <2> QED BY <2>1, <2>2, TruthLocal, TruthInv
<1>24. ASSUME NEW p \in Procs, NEW o \in Outputs, Start(p, o) PROVE TruthInv'
  BY <1>0, <1>24 DEF Start, TruthInv, TruthOK
<1>25. ASSUME NEW p \in Procs, Cancel(p) PROVE TruthInv'
  BY <1>0, <1>25 DEF Cancel, TruthInv, TruthOK
<1>26. ASSUME NEW p \in Procs, Crash(p) PROVE TruthInv'
  BY <1>0, <1>26 DEF Crash, TruthInv, TruthOK
<1>27. ASSUME NEW o \in Outputs, UserEdits(o) PROVE TruthInv'
  BY <1>0, <1>27 DEF UserEdits, locals, TruthInv, TruthOK
<1>28. ASSUME NEW o \in Outputs, UserRestores(o) PROVE TruthInv'
  BY <1>0, <1>28 DEF UserRestores, locals, TruthInv, TruthOK
<1>29. ASSUME NEW d \in Parents, MarkerAppears(d) PROVE TruthInv'
  BY <1>0, <1>29 DEF MarkerAppears, locals, TruthInv, TruthOK
<1>30. ASSUME NEW d \in Parents, UserRemovesLock(d) PROVE TruthInv'
  BY <1>0, <1>30 DEF UserRemovesLock, locals, TruthInv, TruthOK
<1>31. CASE UNCHANGED vars
  BY <1>0, <1>31 DEF vars, locals, TruthInv, TruthOK
<1> QED
  BY [Next]_vars, <1>1, <1>2, <1>3, <1>4, <1>5, <1>6, <1>7, <1>8, <1>9, <1>10, <1>11, <1>12, <1>13, <1>14, <1>15, <1>16, <1>17, <1>18, <1>19, <1>20, <1>21, <1>22, <1>23, <1>24, <1>25, <1>26, <1>27, <1>28, <1>29, <1>30, <1>31
     DEF Next, ProcNext, UserNext, Step

(* THEOREM.  The error that Build returns says whether its tree was        *)
(* installed, whatever fails in the deferred clean-ups, whoever crashes    *)
(* and whatever the user does with locks and outputs (output.go, Build,    *)
(* replace, releaseLock).                                                  *)
THEOREM ResultIsTruthful == Spec => []TruthfulResult
<1>1. Init => TruthInv
  BY DEF Init, TruthInv, TruthOK
<1>2. TypeOK /\ TruthInv /\ [Next]_vars => TruthInv'
  BY TruthStep
<1>3. TruthInv => TruthfulResult
  BY DEF TruthInv, TruthOK, TruthfulResult
<1> QED BY <1>1, <1>2, <1>3, TypeCorrect, PTL DEF Spec


-----------------------------------------------------------------------------
(* Unfinished trees. *)

(* Where an unfinished tree may be: in a staging directory until the       *)
(* callback returns, and, as the rest of a backup that RemoveAll gave up   *)
(* on, next to the output; never in a backup that is renamed back.         *)
Finished(c) == c.kind # "partial"

WholeInv ==
  /\ NoPartialOutput
  /\ \A p \in Procs : Finished(backup[p])
  /\ \A p \in Procs : pc[p] \in {"chmod", "swap", "stat", "reserve", "moveOut", "moveIn"}
                        => Finished(staging[p])
  /\ \A l \in litter : l.kind = "backup" => l.was = Partial \/ Finished(l.was)

(* The contents that Build makes itself.                                   *)
LEMMA FinishedContents ==
  /\ Finished(Absent) /\ Finished(Empty)
  /\ \A n : Finished(Generation(n))
  /\ \A c \in UserContents : Finished(c)
BY DEF Finished, Absent, Empty, Generation, Plain, UserContents

(* What a step leaves behind is a record of the litter.                    *)
LEMMA LeaveShape ==
  ASSUME NEW kind, NEW p, NEW c, NEW l \in Leave(kind, p, c)
  PROVE  l.kind = kind /\ l.was = c
BY DEF Leave

(* Every step keeps unfinished trees where they may be.                    *)
LEMMA WholeStep ==
  ASSUME TypeOK, WholeInv, [Next]_vars
  PROVE  WholeInv'
<1> USE TypeOK, FinishedContents DEF TypeOK, At, Goto, Fail, files, history
<1>0. ASSUME NEW p \in Procs, UNCHANGED <<dir, litter, backup>>, NEW s, pc' = [pc EXCEPT ![p] = s],
             s \in {"chmod", "swap", "stat", "reserve", "moveOut", "moveIn"} =>
               \/ UNCHANGED staging /\ pc[p] \in {"chmod", "swap", "stat", "reserve", "moveOut", "moveIn"}
               \/ Finished(staging'[p]),
             \A q \in Procs : q # p => staging'[q] = staging[q]
      PROVE  WholeInv'
  BY <1>0 DEF WholeInv, NoPartialOutput
<1>1. ASSUME NEW p \in Procs, Prepare(p) PROVE WholeInv'
  BY <1>0, <1>1 DEF Prepare
<1>2. ASSUME NEW p \in Procs, Verify(p) PROVE WholeInv'
  BY <1>0, <1>2 DEF Verify
<1>3. ASSUME NEW p \in Procs, TakeLock(p) PROVE WholeInv'
  BY <1>0, <1>3 DEF TakeLock
<1>4. ASSUME NEW p \in Procs, WriteOwner(p) PROVE WholeInv'
  BY <1>0, <1>4 DEF WriteOwner
<1>5. ASSUME NEW p \in Procs, DropOwner(p) PROVE WholeInv'
  BY <1>0, <1>5 DEF DropOwner
<1>6. ASSUME NEW p \in Procs, DropLock(p) PROVE WholeInv'
  BY <1>0, <1>6 DEF DropLock
<1>7. ASSUME NEW p \in Procs, Recheck(p) PROVE WholeInv'
  BY <1>0, <1>7 DEF Recheck
<1>8. ASSUME NEW p \in Procs, Inspect(p) PROVE WholeInv'
  BY <1>0, <1>8 DEF Inspect
<1>9. ASSUME NEW p \in Procs, Stage(p) PROVE WholeInv'
  BY <1>0, <1>9 DEF Stage
<1>10. ASSUME NEW p \in Procs, Mark(p) PROVE WholeInv'
  BY <1>0, <1>10 DEF Mark
<1>11. ASSUME NEW p \in Procs, Fill(p) PROVE WholeInv'
  BY <1>0, <1>11 DEF Fill
<1>12. ASSUME NEW p \in Procs, SetMode(p) PROVE WholeInv'
  BY <1>0, <1>12 DEF SetMode
<1>13. ASSUME NEW p \in Procs, BeginSwap(p) PROVE WholeInv'
  BY <1>0, <1>13 DEF BeginSwap
<1>14. ASSUME NEW p \in Procs, Stat(p) PROVE WholeInv'
  BY <1>0, <1>14 DEF Stat
<1>15. ASSUME NEW p \in Procs, Reserve(p) PROVE WholeInv'
  <2>1. \A l \in litter' : l \in litter \/ l \in Leave("backup", p, Empty)
    BY <1>15 DEF Reserve
  <2>2. \A l \in litter' : l.kind = "backup" => l.was = Partial \/ Finished(l.was)
    BY <2>1, LeaveShape DEF WholeInv
  <2> QED BY <1>15, <2>2 DEF Reserve, WholeInv, NoPartialOutput
<1>16. ASSUME NEW p \in Procs, MoveOut(p) PROVE WholeInv'
  <2>1. Finished(dir[target[p]])
    BY DEF WholeInv, NoPartialOutput, Finished
  <2>2. NoPartialOutput'
    BY <1>16 DEF MoveOut, WholeInv, NoPartialOutput, Finished
  <2>3. \A q \in Procs : Finished(backup'[q])
    BY <1>16, <2>1 DEF MoveOut, WholeInv
  <2> QED BY <1>16, <2>2, <2>3 DEF MoveOut, WholeInv
<1>17. ASSUME NEW p \in Procs, MoveIn(p) PROVE WholeInv'
  <2>1. Finished(staging[p])
    BY <1>17 DEF MoveIn, WholeInv
  <2>2. NoPartialOutput'
    BY <1>17, <2>1 DEF MoveIn, WholeInv, NoPartialOutput, Finished
  <2> QED BY <1>17, <2>2 DEF MoveIn, WholeInv
<1>18. ASSUME NEW p \in Procs, Rollback(p) PROVE WholeInv'
  <2>1. Finished(backup[p])
    BY DEF WholeInv
  <2>2. NoPartialOutput'
    BY <1>18, <2>1 DEF Rollback, WholeInv, NoPartialOutput, Finished
  <2>3. \A l \in litter' : l \in litter \/ l \in Leave("backup", p, backup[p])
    BY <1>18 DEF Rollback
  <2>4. \A l \in litter' : l.kind = "backup" => l.was = Partial \/ Finished(l.was)
    BY <2>1, <2>3, LeaveShape DEF WholeInv
  <2> QED BY <1>18, <2>2, <2>4 DEF Rollback, WholeInv
<1>19. ASSUME NEW p \in Procs, DropBackup(p) PROVE WholeInv'
  <2>1. \A l \in litter' : \/ l \in litter
                           \/ l \in Leave("backup", p, backup[p])
                           \/ l \in Leave("backup", p, Partial)
    BY <1>19 DEF DropBackup
  <2>2. \A l \in litter' : l.kind = "backup" => l.was = Partial \/ Finished(l.was)
    BY <2>1, LeaveShape DEF WholeInv
  <2> QED BY <1>19, <2>2 DEF DropBackup, WholeInv, NoPartialOutput
<1>20. ASSUME NEW p \in Procs, CleanStaging(p) PROVE WholeInv'
  <2>1. \A l \in litter' : l \in litter \/ l \in Leave("staging", p, staging[p])
    BY <1>20 DEF CleanStaging
  <2>2. \A l \in litter' : l.kind = "backup" => l.was = Partial \/ Finished(l.was)
    BY <2>1, LeaveShape DEF WholeInv
  <2> QED BY <1>20, <2>2 DEF CleanStaging, WholeInv, NoPartialOutput
<1>21. ASSUME NEW p \in Procs, ReadOwner(p) PROVE WholeInv'
  BY <1>0, <1>21 DEF ReadOwner
<1>22. ASSUME NEW p \in Procs, RemoveOwner(p) PROVE WholeInv'
  BY <1>0, <1>22 DEF RemoveOwner
<1>23. ASSUME NEW p \in Procs, RemoveLock(p) PROVE WholeInv'
  BY <1>0, <1>23 DEF RemoveLock
<1>24. ASSUME NEW p \in Procs, NEW o \in Outputs, Start(p, o) PROVE WholeInv'
  BY <1>24 DEF Start, WholeInv, NoPartialOutput
<1>25. ASSUME NEW p \in Procs, Cancel(p) PROVE WholeInv'
  BY <1>25 DEF Cancel, WholeInv, NoPartialOutput
<1>26. ASSUME NEW p \in Procs, Crash(p) PROVE WholeInv'
  <2>1. \A l \in litter' : \/ l \in litter
                           \/ l \in Leave("staging", p, staging[p])
                           \/ l \in Leave("backup", p, backup[p])
    BY <1>26 DEF Crash
  <2>2. \A l \in litter' : l.kind = "backup" => l.was = Partial \/ Finished(l.was)
    BY <2>1, LeaveShape DEF WholeInv
  <2> QED BY <1>26, <2>2 DEF Crash, WholeInv, NoPartialOutput
<1>27. ASSUME NEW o \in Outputs, UserEdits(o) PROVE WholeInv'
  <2>1. NoPartialOutput'
    BY <1>27 DEF UserEdits, WholeInv, NoPartialOutput, Finished
  <2> QED BY <1>27, <2>1 DEF UserEdits, locals, WholeInv
<1>28. ASSUME NEW o \in Outputs, UserRestores(o) PROVE WholeInv'
  <2>1. PICK l \in litter : /\ l.kind = "backup" /\ l.was # Partial
                            /\ dir' = [dir EXCEPT ![o] = l.was]
                            /\ litter' = litter \ {l}
    BY <1>28 DEF UserRestores
  <2>2. Finished(l.was)
    BY <2>1 DEF WholeInv
  <2>3. NoPartialOutput'
    BY <2>1, <2>2 DEF WholeInv, NoPartialOutput, Finished
  <2> QED BY <1>28, <2>1, <2>3 DEF UserRestores, locals, WholeInv
<1>29. ASSUME NEW d \in Parents, MarkerAppears(d) PROVE WholeInv'
  BY <1>29 DEF MarkerAppears, locals, WholeInv, NoPartialOutput
<1>30. ASSUME NEW d \in Parents, UserRemovesLock(d) PROVE WholeInv'
  BY <1>30 DEF UserRemovesLock, locals, WholeInv, NoPartialOutput
<1>31. CASE UNCHANGED vars
  BY <1>31 DEF vars, locals, WholeInv, NoPartialOutput
<1> QED
  BY [Next]_vars, <1>1, <1>2, <1>3, <1>4, <1>5, <1>6, <1>7, <1>8, <1>9, <1>10, <1>11, <1>12, <1>13, <1>14, <1>15, <1>16, <1>17, <1>18, <1>19, <1>20, <1>21, <1>22, <1>23, <1>24, <1>25, <1>26, <1>27, <1>28, <1>29, <1>30, <1>31
     DEF Next, ProcNext, UserNext, Step

(* THEOREM.  A tree that a render did not finish never becomes visible at  *)
(* an output, not between the two renames of replace and not by a rollback *)
(* or by a backup that the user renames back (output.go, replace).         *)
THEOREM UnfinishedIsNeverVisible == Spec => []NoPartialOutput
<1>1. Init => WholeInv
  BY FinishedContents DEF Init, WholeInv, NoPartialOutput, Finished
<1>2. TypeOK /\ WholeInv /\ [Next]_vars => WholeInv'
  BY WholeStep
<1>3. WholeInv => NoPartialOutput
  BY DEF WholeInv
<1> QED BY <1>1, <1>2, <1>3, TypeCorrect, PTL DEF Spec


-----------------------------------------------------------------------------
(* Owners of locks. *)

(* What the owner file holds while its Build writes or removes it, and that *)
(* a lock that is not there has none.                                       *)
OwnerOK(p) ==
  /\ pc[p] \in {"writeOwner", "removeLock"} => lock[ParentOf(p)].owner = NoFile
  /\ pc[p] \in {"dropOwner", "dropLock"} => lock[ParentOf(p)].owner \in {NoFile, Garbled}

OwnerInv ==
  /\ \A p \in Procs : OwnerOK(p)
  /\ \A d \in Parents : ~lock[d].held => lock[d].owner = NoFile

(* A step of p disturbs the lock of its own parent only, and no other Build *)
(* is between its Mkdir and its release there.                              *)
LEMMA OwnerLocal ==
  ASSUME TypeOK, LockInv, OwnerInv, NEW p \in Procs, OwnerOK(p)',
         \A q \in Procs : q # p => pc'[q] = pc[q] /\ target'[q] = target[q],
         NEW l \in Locks, lock' \in {lock, [lock EXCEPT ![ParentOf(p)] = l]},
         lock' # lock => /\ pc[p] \in LockSteps \/ ~lock[ParentOf(p)].held
                         /\ ~l.held => l.owner = NoFile
  PROVE  OwnerInv'
<1>1. ASSUME NEW q \in Procs, q # p PROVE OwnerOK(q)'
  <2>1. pc'[q] = pc[q] /\ ParentOf(q)' = ParentOf(q)
    BY <1>1 DEF ParentOf
  <2>2. CASE pc[q] \notin LockSteps
    BY <2>1, <2>2 DEF OwnerOK, LockSteps
  <2>3. CASE lock' = lock
    BY <2>1, <2>3 DEF OwnerOK, OwnerInv
  <2>4. CASE pc[q] \in LockSteps /\ lock' # lock
    <3>1. ParentOf(q) # ParentOf(p)
      BY <1>1, <2>4 DEF LockInv, MutualExclusion
    <3>2. lock'[ParentOf(q)] = lock[ParentOf(q)]
      BY <2>4, <3>1, ParentType DEF TypeOK
    <3> QED BY <2>1, <3>2 DEF OwnerOK, OwnerInv
  <2> QED BY <2>2, <2>3, <2>4
<1>2. \A d \in Parents : ~lock'[d].held => lock'[d].owner = NoFile
  BY ParentType DEF OwnerInv, TypeOK
<1> QED BY <1>1, <1>2 DEF OwnerInv

(* Every step of a process keeps OwnerInv; the user removes the locks of    *)
(* processes that do not run.                                               *)
LEMMA OwnerStep ==
  ASSUME TypeOK, LockInv, OwnerInv, ~CarelessUser, [Next]_vars
  PROVE  OwnerInv'
<1> USE TypeOK DEF At, Goto, Fail
<1>s. \A p \in Procs : OwnerOK(p)
  BY OwnerInv DEF OwnerInv
<1>0. ASSUME NEW p \in Procs, UNCHANGED <<lock, target>>,
             NEW s \in Pcs, pc' = [pc EXCEPT ![p] = s],
             s \notin {"writeOwner", "removeLock", "dropOwner", "dropLock"}
      PROVE  OwnerInv'
  <2>1. OwnerOK(p)'
    BY <1>0 DEF OwnerOK, TypeOK
  <2>2. \A q \in Procs : q # p => pc'[q] = pc[q] /\ target'[q] = target[q]
    BY <1>0 DEF TypeOK
  <2> QED BY <1>0, <2>1, <2>2, OwnerLocal, OwnerInv, LockInv, LockType
<1>1. ASSUME NEW p \in Procs, Prepare(p) PROVE OwnerInv'
  BY <1>0, <1>1 DEF Prepare, files, Pcs, Steps, LockSteps, HoldSteps, SwapSteps
<1>2. ASSUME NEW p \in Procs, Verify(p) PROVE OwnerInv'
  BY <1>0, <1>2 DEF Verify, files, Pcs, Steps, LockSteps, HoldSteps, SwapSteps
<1>3. ASSUME NEW p \in Procs, TakeLock(p) PROVE OwnerInv'
  <2>1. \A q \in Procs : q # p => pc'[q] = pc[q] /\ target'[q] = target[q]
    BY <1>3 DEF TakeLock, TypeOK
  <2>2. OwnerOK(p)'
    BY <1>3, <1>s, ParentType, LockInv DEF TakeLock, OwnerOK, ParentOf, Lock, Free, TypeOK, LockInv, LockSteps
  <2>3. \E l \in Locks : /\ lock' \in {lock, [lock EXCEPT ![ParentOf(p)] = l]}
                         /\ ~l.held => l.owner = NoFile
    BY <1>3, LockType, ParentType DEF TakeLock, Lock, Free
  <2>4. lock' # lock => pc[p] \in LockSteps \/ ~lock[ParentOf(p)].held
    BY <1>3 DEF TakeLock, LockSteps, HoldSteps
  <2> QED BY <2>1, <2>2, <2>3, <2>4, OwnerLocal, OwnerInv, LockInv
<1>4. ASSUME NEW p \in Procs, WriteOwner(p) PROVE OwnerInv'
  <2>1. \A q \in Procs : q # p => pc'[q] = pc[q] /\ target'[q] = target[q]
    BY <1>4 DEF WriteOwner, TypeOK
  <2>2. OwnerOK(p)'
    BY <1>4, <1>s, ParentType, LockInv DEF WriteOwner, OwnerOK, ParentOf, Lock, Free, TypeOK, LockInv, LockSteps
  <2>3. \E l \in Locks : /\ lock' \in {lock, [lock EXCEPT ![ParentOf(p)] = l]}
                         /\ ~l.held => l.owner = NoFile
    BY <1>4, LockType, ParentType DEF WriteOwner, Lock, Free
  <2>4. lock' # lock => pc[p] \in LockSteps \/ ~lock[ParentOf(p)].held
    BY <1>4 DEF WriteOwner, LockSteps, HoldSteps
  <2> QED BY <2>1, <2>2, <2>3, <2>4, OwnerLocal, OwnerInv, LockInv
<1>5. ASSUME NEW p \in Procs, DropOwner(p) PROVE OwnerInv'
  <2>1. \A q \in Procs : q # p => pc'[q] = pc[q] /\ target'[q] = target[q]
    BY <1>5 DEF DropOwner, TypeOK
  <2>2. OwnerOK(p)'
    BY <1>5, <1>s, ParentType, LockInv DEF DropOwner, OwnerOK, ParentOf, Lock, Free, TypeOK, LockInv, LockSteps
  <2>3. \E l \in Locks : /\ lock' \in {lock, [lock EXCEPT ![ParentOf(p)] = l]}
                         /\ ~l.held => l.owner = NoFile
    BY <1>5, LockType, ParentType DEF DropOwner, Lock, Free
  <2>4. lock' # lock => pc[p] \in LockSteps \/ ~lock[ParentOf(p)].held
    BY <1>5 DEF DropOwner, LockSteps, HoldSteps
  <2> QED BY <2>1, <2>2, <2>3, <2>4, OwnerLocal, OwnerInv, LockInv
<1>6. ASSUME NEW p \in Procs, DropLock(p) PROVE OwnerInv'
  <2>1. \A q \in Procs : q # p => pc'[q] = pc[q] /\ target'[q] = target[q]
    BY <1>6 DEF DropLock, TypeOK
  <2>2. OwnerOK(p)'
    BY <1>6, <1>s, ParentType, LockInv DEF DropLock, OwnerOK, ParentOf, Lock, Free, TypeOK, LockInv, LockSteps
  <2>3. \E l \in Locks : /\ lock' \in {lock, [lock EXCEPT ![ParentOf(p)] = l]}
                         /\ ~l.held => l.owner = NoFile
    BY <1>6, LockType, ParentType DEF DropLock, Lock, Free
  <2>4. lock' # lock => pc[p] \in LockSteps \/ ~lock[ParentOf(p)].held
    BY <1>6 DEF DropLock, LockSteps, HoldSteps
  <2> QED BY <2>1, <2>2, <2>3, <2>4, OwnerLocal, OwnerInv, LockInv
<1>7. ASSUME NEW p \in Procs, Recheck(p) PROVE OwnerInv'
  BY <1>0, <1>7 DEF Recheck, files, Pcs, Steps, LockSteps, HoldSteps, SwapSteps
<1>8. ASSUME NEW p \in Procs, Inspect(p) PROVE OwnerInv'
  BY <1>0, <1>8 DEF Inspect, files, Pcs, Steps, LockSteps, HoldSteps, SwapSteps
<1>9. ASSUME NEW p \in Procs, Stage(p) PROVE OwnerInv'
  BY <1>0, <1>9 DEF Stage, files, Pcs, Steps, LockSteps, HoldSteps, SwapSteps
<1>10. ASSUME NEW p \in Procs, Mark(p) PROVE OwnerInv'
  BY <1>0, <1>10 DEF Mark, files, Pcs, Steps, LockSteps, HoldSteps, SwapSteps
<1>11. ASSUME NEW p \in Procs, Fill(p) PROVE OwnerInv'
  BY <1>0, <1>11 DEF Fill, files, Pcs, Steps, LockSteps, HoldSteps, SwapSteps
<1>12. ASSUME NEW p \in Procs, SetMode(p) PROVE OwnerInv'
  BY <1>0, <1>12 DEF SetMode, files, Pcs, Steps, LockSteps, HoldSteps, SwapSteps
<1>13. ASSUME NEW p \in Procs, BeginSwap(p) PROVE OwnerInv'
  BY <1>0, <1>13 DEF BeginSwap, files, Pcs, Steps, LockSteps, HoldSteps, SwapSteps
<1>14. ASSUME NEW p \in Procs, Stat(p) PROVE OwnerInv'
  BY <1>0, <1>14 DEF Stat, files, Pcs, Steps, LockSteps, HoldSteps, SwapSteps
<1>15. ASSUME NEW p \in Procs, Reserve(p) PROVE OwnerInv'
  BY <1>0, <1>15 DEF Reserve, files, Pcs, Steps, LockSteps, HoldSteps, SwapSteps
<1>16. ASSUME NEW p \in Procs, MoveOut(p) PROVE OwnerInv'
  BY <1>0, <1>16 DEF MoveOut, files, Pcs, Steps, LockSteps, HoldSteps, SwapSteps
<1>17. ASSUME NEW p \in Procs, MoveIn(p) PROVE OwnerInv'
  BY <1>0, <1>17 DEF MoveIn, files, Pcs, Steps, LockSteps, HoldSteps, SwapSteps
<1>18. ASSUME NEW p \in Procs, Rollback(p) PROVE OwnerInv'
  BY <1>0, <1>18 DEF Rollback, files, Pcs, Steps, LockSteps, HoldSteps, SwapSteps
<1>19. ASSUME NEW p \in Procs, DropBackup(p) PROVE OwnerInv'
  BY <1>0, <1>19 DEF DropBackup, files, Pcs, Steps, LockSteps, HoldSteps, SwapSteps
<1>20. ASSUME NEW p \in Procs, CleanStaging(p) PROVE OwnerInv'
  BY <1>0, <1>20 DEF CleanStaging, files, Pcs, Steps, LockSteps, HoldSteps, SwapSteps
<1>21. ASSUME NEW p \in Procs, ReadOwner(p) PROVE OwnerInv'
  BY <1>0, <1>21 DEF ReadOwner, files, Pcs, Steps, LockSteps, HoldSteps, SwapSteps
<1>22. ASSUME NEW p \in Procs, RemoveOwner(p) PROVE OwnerInv'
  <2>1. \A q \in Procs : q # p => pc'[q] = pc[q] /\ target'[q] = target[q]
    BY <1>22 DEF RemoveOwner, TypeOK
  <2>2. OwnerOK(p)'
    BY <1>22, <1>s, ParentType, LockInv DEF RemoveOwner, OwnerOK, ParentOf, Lock, Free, TypeOK, LockInv, LockSteps
  <2>3. \E l \in Locks : /\ lock' \in {lock, [lock EXCEPT ![ParentOf(p)] = l]}
                         /\ ~l.held => l.owner = NoFile
    BY <1>22, LockType, ParentType DEF RemoveOwner, Lock, Free
  <2>4. lock' # lock => pc[p] \in LockSteps \/ ~lock[ParentOf(p)].held
    BY <1>22 DEF RemoveOwner, LockSteps, HoldSteps
  <2> QED BY <2>1, <2>2, <2>3, <2>4, OwnerLocal, OwnerInv, LockInv
<1>23. ASSUME NEW p \in Procs, RemoveLock(p) PROVE OwnerInv'
  <2>1. \A q \in Procs : q # p => pc'[q] = pc[q] /\ target'[q] = target[q]
    BY <1>23 DEF RemoveLock, TypeOK
  <2>2. OwnerOK(p)'
    BY <1>23, <1>s, ParentType, LockInv DEF RemoveLock, OwnerOK, ParentOf, Lock, Free, TypeOK, LockInv, LockSteps
  <2>3. \E l \in Locks : /\ lock' \in {lock, [lock EXCEPT ![ParentOf(p)] = l]}
                         /\ ~l.held => l.owner = NoFile
    BY <1>23, LockType, ParentType DEF RemoveLock, Lock, Free
  <2>4. lock' # lock => pc[p] \in LockSteps \/ ~lock[ParentOf(p)].held
    BY <1>23 DEF RemoveLock, LockSteps, HoldSteps
  <2> QED BY <2>1, <2>2, <2>3, <2>4, OwnerLocal, OwnerInv, LockInv
<1>24. ASSUME NEW p \in Procs, NEW o \in Outputs, Start(p, o) PROVE OwnerInv'
  <2>1. \A q \in Procs : q # p => pc'[q] = pc[q] /\ target'[q] = target[q]
    BY <1>24 DEF Start, TypeOK
  <2>2. OwnerOK(p)' /\ lock' = lock
    BY <1>24 DEF Start, OwnerOK, files, TypeOK
  <2> QED BY <2>1, <2>2, OwnerLocal, OwnerInv, LockInv, LockType
<1>25. ASSUME NEW p \in Procs, Cancel(p) PROVE OwnerInv'
  BY <1>25 DEF Cancel, files, OwnerInv, OwnerOK, ParentOf
<1>26. ASSUME NEW p \in Procs, Crash(p) PROVE OwnerInv'
  BY <1>0, <1>26 DEF Crash, Pcs
<1>27. ASSUME NEW o \in Outputs, UserEdits(o) PROVE OwnerInv'
  BY <1>27, OwnerInv DEF UserEdits, locals, OwnerInv, OwnerOK, ParentOf
<1>28. ASSUME NEW o \in Outputs, UserRestores(o) PROVE OwnerInv'
  BY <1>28, OwnerInv DEF UserRestores, locals, OwnerInv, OwnerOK, ParentOf
<1>29. ASSUME NEW d \in Parents, MarkerAppears(d) PROVE OwnerInv'
  BY <1>29, OwnerInv DEF MarkerAppears, locals, OwnerInv, OwnerOK, ParentOf
<1>30. ASSUME NEW d \in Parents, UserRemovesLock(d) PROVE OwnerInv'
  <2>1. \A e \in Parents : lock'[e] = IF e = d THEN Free ELSE lock[e]
    BY <1>30 DEF UserRemovesLock, TypeOK
  <2>2. \A q \in Procs : OwnerOK(q)'
    BY <1>30, <1>s, <2>1, ParentType DEF UserRemovesLock, locals, OwnerOK, ParentOf, Free, Lock
  <2> QED BY <2>1, <2>2, OwnerInv DEF OwnerInv, Free, Lock
<1>31. CASE UNCHANGED vars
  BY <1>31, OwnerInv DEF vars, files, locals, OwnerInv, OwnerOK, ParentOf
<1> QED
  BY [Next]_vars, <1>1, <1>2, <1>3, <1>4, <1>5, <1>6, <1>7, <1>8, <1>9, <1>10, <1>11, <1>12, <1>13, <1>14, <1>15, <1>16, <1>17, <1>18, <1>19, <1>20, <1>21, <1>22, <1>23, <1>24, <1>25, <1>26, <1>27, <1>28, <1>29, <1>30, <1>31
     DEF Next, ProcNext, UserNext, Step

(* The invariants of this module and of OutputBuildProofs at the start.    *)
LEMMA InitOwner == Init => OwnerInv
BY DEF Init, OwnerInv, OwnerOK, Free, Lock

(* Both invariants of the locks hold in every state, for a careful user.   *)
LEMMA LockInvariance ==
  ASSUME ~CarelessUser
  PROVE  Spec => [](LockInv /\ OwnerInv)
<1>1. Init => LockInv /\ OwnerInv
  BY InitInvariant, InitOwner DEF IInv
<1>2. TypeOK /\ LockInv /\ OwnerInv /\ [Next]_vars => (LockInv /\ OwnerInv)'
  BY LockStep, OwnerStep
<1> QED BY <1>1, <1>2, TypeCorrect, PTL DEF Spec


(* The calls that change a lock (output.go, acquireLock, releaseLock).      *)
LEMMA LockWriters ==
  ASSUME [Next]_vars
  PROVE  \/ lock' = lock
         \/ \E p \in Procs : TakeLock(p) \/ WriteOwner(p) \/ DropOwner(p) \/ DropLock(p)
                             \/ RemoveOwner(p) \/ RemoveLock(p)
         \/ \E e \in Parents : UserRemovesLock(e)
BY DEF Next, ProcNext, UserNext, Step, vars, files, Prepare, Verify, Recheck, Inspect, Stage,
       Mark, Fill, SetMode, BeginSwap, Stat, Reserve, MoveOut, MoveIn, Rollback, DropBackup,
       CleanStaging, ReadOwner, Start, Cancel, Crash, UserEdits, UserRestores, MarkerAppears

(* A step in which the lock of a running Build loses its token.            *)
LEMMA TokenStep ==
  ASSUME TypeOK, LockInv, OwnerInv, ~CarelessUser, [Next]_vars,
         NEW q \in Procs, Running(q),
         lock[ParentOf(q)].owner = q, lock'[ParentOf(q)].owner # q
  PROVE  At(q, "removeOwner")
<1> DEFINE d == ParentOf(q)
<1>h. lock[d].held
  BY ParentType, ProcsAssumption DEF OwnerInv
<1>1. ASSUME NEW p \in Procs, lock' # lock, TakeLock(p) PROVE FALSE
  <2>1. ~lock[ParentOf(p)].held /\ lock' = [lock EXCEPT ![ParentOf(p)] = Lock(TRUE, NoFile)]
    BY <1>1 DEF TakeLock
  <2> QED BY <1>h, <2>1, ParentType DEF TypeOK
<1>2. ASSUME NEW p \in Procs, lock' # lock, NEW l \in Locks,
             lock' = [lock EXCEPT ![ParentOf(p)] = l],
             pc[p] \in {"writeOwner", "dropOwner", "dropLock", "removeLock"}
      PROVE  FALSE
  <2>1. lock[ParentOf(p)].owner \in {NoFile, Garbled}
    BY <1>2 DEF OwnerInv, OwnerOK
  <2>2. ParentOf(p) # d
    BY <2>1, ProcsAssumption
  <2> QED BY <1>2, <2>2, ParentType DEF TypeOK
<1>3. ASSUME NEW p \in Procs, RemoveOwner(p) PROVE At(q, "removeOwner")
  <2>1. pc[p] = "removeOwner"
    BY <1>3 DEF RemoveOwner, At
  <2>2. lock[ParentOf(p)].owner = p
    BY <2>1 DEF LockInv, HoldSteps
  <2>3. p # q => ParentOf(p) # d
    BY <2>2
  <2>4. p # q => lock'[d] = lock[d]
    BY <1>3, <2>3, ParentType DEF RemoveOwner, TypeOK
  <2> QED BY <2>1, <2>4 DEF At
<1>4. ASSUME NEW e \in Parents, UserRemovesLock(e) PROVE FALSE
  <2>1. e # d
    BY <1>4 DEF UserRemovesLock
  <2> QED BY <1>4, <2>1, ParentType DEF UserRemovesLock, TypeOK
<1>5. ASSUME NEW p \in Procs, WriteOwner(p) PROVE FALSE
  BY <1>2, <1>5, LockType DEF WriteOwner, At
<1>6. ASSUME NEW p \in Procs, DropOwner(p) PROVE FALSE
  BY <1>2, <1>6, LockType, ParentType DEF DropOwner, At
<1>7. ASSUME NEW p \in Procs, DropLock(p) PROVE FALSE
  BY <1>2, <1>7, LockType DEF DropLock, At
<1>8. ASSUME NEW p \in Procs, RemoveLock(p) PROVE FALSE
  BY <1>2, <1>8, LockType DEF RemoveLock, At
<1>9. lock' # lock
  OBVIOUS
<1> QED BY <1>1, <1>3, <1>4, <1>5, <1>6, <1>7, <1>8, <1>9, LockWriters

(* THEOREM.  The token of a running Build leaves its lock only when that   *)
(* Build removes it: neither the clean-up of a failed acquisition nor      *)
(* another release takes the lock of a render away (output.go,             *)
(* acquireLock, releaseLock), as long as the user does not.                *)
THEOREM LocksAreReleasedByTheirOwner ==
  ASSUME ~CarelessUser
  PROVE  Spec => ReleasesOwnLock
<1>1. TypeOK /\ LockInv /\ OwnerInv /\ [Next]_vars =>
        [\A q \in Procs : (Running(q) /\ lock[ParentOf(q)].owner = q /\ lock'[ParentOf(q)].owner # q)
                             => At(q, "removeOwner")]_vars
  BY TokenStep, ~CarelessUser
<1> QED BY <1>1, TypeCorrect, LockInvariance, ~CarelessUser, PTL DEF Spec, ReleasesOwnLock

(* A lock directory that is not there has no owner file, whoever removes it. *)
NoOwnerUnheld == \A d \in Parents : ~lock[d].held => lock[d].owner = NoFile

LEMMA UnheldStep ==
  ASSUME TypeOK, NoOwnerUnheld, [Next]_vars
  PROVE  NoOwnerUnheld'
<1>0. ASSUME NEW d \in Parents, NEW l \in Locks, ~l.held => l.owner = NoFile,
             lock' \in {lock, [lock EXCEPT ![d] = l]}
      PROVE  NoOwnerUnheld'
  BY <1>0 DEF NoOwnerUnheld, TypeOK
<1>1. ASSUME NEW p \in Procs, TakeLock(p) PROVE NoOwnerUnheld'
  BY <1>0, <1>1, LockType, ParentType DEF TakeLock, Lock
<1>2. ASSUME NEW p \in Procs, WriteOwner(p) PROVE NoOwnerUnheld'
  BY <1>0, <1>2, LockType, ParentType DEF WriteOwner, Lock
<1>3. ASSUME NEW p \in Procs, DropOwner(p) PROVE NoOwnerUnheld'
  BY <1>0, <1>3, LockType, ParentType DEF DropOwner, Lock
<1>4. ASSUME NEW p \in Procs, DropLock(p) PROVE NoOwnerUnheld'
  BY <1>0, <1>4, LockType, ParentType DEF DropLock, Free, Lock
<1>5. ASSUME NEW p \in Procs, RemoveOwner(p) PROVE NoOwnerUnheld'
  BY <1>0, <1>5, LockType, ParentType DEF RemoveOwner, Lock
<1>6. ASSUME NEW p \in Procs, RemoveLock(p) PROVE NoOwnerUnheld'
  BY <1>0, <1>6, LockType, ParentType DEF RemoveLock, Free, Lock
<1>7. ASSUME NEW e \in Parents, UserRemovesLock(e) PROVE NoOwnerUnheld'
  BY <1>0, <1>7, LockType DEF UserRemovesLock, Free, Lock
<1>8. lock' = lock => NoOwnerUnheld'
  BY DEF NoOwnerUnheld
<1> QED
  BY <1>1, <1>2, <1>3, <1>4, <1>5, <1>6, <1>7, <1>8, LockWriters

(* Only the comparison of the token (releaseLock) leads to the removal.     *)
LEMMA PcOfRelease ==
  ASSUME TypeOK, [Next]_vars, NEW p \in Procs, pc[p] # "removeOwner", pc'[p] = "removeOwner"
  PROVE  ReadOwner(p)
<1> USE TypeOK DEF At, Goto, Fail
<1>0. ASSUME NEW r \in Procs, NEW s, s # "removeOwner", pc' = [pc EXCEPT ![r] = s] PROVE FALSE
  BY <1>0 DEF TypeOK
<1>1. ASSUME NEW r \in Procs, Prepare(r) PROVE FALSE
  BY <1>0, <1>1 DEF Prepare
<1>2. ASSUME NEW r \in Procs, Verify(r) PROVE FALSE
  BY <1>0, <1>2 DEF Verify
<1>3. ASSUME NEW r \in Procs, TakeLock(r) PROVE FALSE
  BY <1>0, <1>3 DEF TakeLock
<1>4. ASSUME NEW r \in Procs, WriteOwner(r) PROVE FALSE
  BY <1>0, <1>4 DEF WriteOwner
<1>5. ASSUME NEW r \in Procs, DropOwner(r) PROVE FALSE
  BY <1>0, <1>5 DEF DropOwner
<1>6. ASSUME NEW r \in Procs, DropLock(r) PROVE FALSE
  BY <1>0, <1>6 DEF DropLock
<1>7. ASSUME NEW r \in Procs, Recheck(r) PROVE FALSE
  BY <1>0, <1>7 DEF Recheck
<1>8. ASSUME NEW r \in Procs, Inspect(r) PROVE FALSE
  BY <1>0, <1>8 DEF Inspect
<1>9. ASSUME NEW r \in Procs, Stage(r) PROVE FALSE
  BY <1>0, <1>9 DEF Stage
<1>10. ASSUME NEW r \in Procs, Mark(r) PROVE FALSE
  BY <1>0, <1>10 DEF Mark
<1>11. ASSUME NEW r \in Procs, Fill(r) PROVE FALSE
  BY <1>0, <1>11 DEF Fill
<1>12. ASSUME NEW r \in Procs, SetMode(r) PROVE FALSE
  BY <1>0, <1>12 DEF SetMode
<1>13. ASSUME NEW r \in Procs, BeginSwap(r) PROVE FALSE
  BY <1>0, <1>13 DEF BeginSwap
<1>14. ASSUME NEW r \in Procs, Stat(r) PROVE FALSE
  BY <1>0, <1>14 DEF Stat
<1>15. ASSUME NEW r \in Procs, Reserve(r) PROVE FALSE
  BY <1>0, <1>15 DEF Reserve
<1>16. ASSUME NEW r \in Procs, MoveOut(r) PROVE FALSE
  BY <1>0, <1>16 DEF MoveOut
<1>17. ASSUME NEW r \in Procs, MoveIn(r) PROVE FALSE
  BY <1>0, <1>17 DEF MoveIn
<1>18. ASSUME NEW r \in Procs, Rollback(r) PROVE FALSE
  BY <1>0, <1>18 DEF Rollback
<1>19. ASSUME NEW r \in Procs, DropBackup(r) PROVE FALSE
  BY <1>0, <1>19 DEF DropBackup
<1>20. ASSUME NEW r \in Procs, CleanStaging(r) PROVE FALSE
  BY <1>0, <1>20 DEF CleanStaging
<1>21. ASSUME NEW r \in Procs, RemoveOwner(r) PROVE FALSE
  BY <1>0, <1>21 DEF RemoveOwner
<1>22. ASSUME NEW r \in Procs, RemoveLock(r) PROVE FALSE
  BY <1>0, <1>22 DEF RemoveLock
<1>23. ASSUME NEW r \in Procs, NEW o \in Outputs, Start(r, o) PROVE FALSE
  BY <1>0, <1>23 DEF Start
<1>24. ASSUME NEW r \in Procs, Crash(r) PROVE FALSE
  BY <1>0, <1>24 DEF Crash
<1>25. ASSUME NEW r \in Procs, r # p, ReadOwner(r) PROVE FALSE
  BY <1>25 DEF ReadOwner, TypeOK
<1>26. pc' # pc
  OBVIOUS
<1>27. \/ \E r \in Procs : Step(r) \/ Crash(r) \/ \E o \in Outputs : Start(r, o)
      \/ pc' = pc
  BY DEF Next, ProcNext, UserNext, vars, locals, Cancel, UserEdits, UserRestores, MarkerAppears,
         UserRemovesLock
<1> QED
  BY <1>1, <1>2, <1>3, <1>4, <1>5, <1>6, <1>7, <1>8, <1>9, <1>10, <1>11, <1>12, <1>13, <1>14, <1>15, <1>16, <1>17, <1>18, <1>19, <1>20, <1>21, <1>22, <1>23, <1>24, <1>25, <1>26, <1>27 DEF Step

(* THEOREM.  Whatever locks are removed by hand, a release goes on to the   *)
(* removal only when it read its own token, and no other call than those of *)
(* an acquisition of its own or of such a release takes the token of        *)
(* another running Build away (output.go, acquireLock, releaseLock).        *)
THEOREM ReleasesFollowTheirToken == Spec => ReleasesOnlyFound
<1> DEFINE Allowed == \A p \in Procs :
       /\ (pc[p] # "removeOwner" /\ pc'[p] = "removeOwner") => lock[ParentOf(p)].owner = p
       /\ \A q \in Procs \ {p} :
            (/\ Running(q)
             /\ lock[ParentOf(q)].owner = q
             /\ lock'[ParentOf(q)].owner # q
             /\ pc'[p] # pc[p])
              => pc[p] \in {"writeOwner", "dropOwner", "removeOwner"}
<1>1. ASSUME TypeOK, NoOwnerUnheld, [Next]_vars PROVE Allowed
  <2>1. ASSUME NEW p \in Procs, pc[p] # "removeOwner", pc'[p] = "removeOwner"
        PROVE  lock[ParentOf(p)].owner = p
    <3>1. ReadOwner(p)
      BY <1>1, <2>1, PcOfRelease
    <3> QED BY <1>1, <2>1, <3>1 DEF ReadOwner, Goto, TypeOK
  <2>2. ASSUME NEW p \in Procs, NEW q \in Procs \ {p}, lock[ParentOf(q)].owner = q,
               lock'[ParentOf(q)].owner # q, pc'[p] # pc[p],
               pc[p] \notin {"writeOwner", "dropOwner", "removeOwner"}
        PROVE  FALSE
    <3> DEFINE d == ParentOf(q)
    <3>1. lock[d].held /\ q # NoFile
      BY <1>1, <2>2, ParentType, ProcsAssumption DEF NoOwnerUnheld
    <3>2. ASSUME NEW r \in Procs, TakeLock(r) PROVE FALSE
      <4>1. lock' = [lock EXCEPT ![ParentOf(r)] = Lock(TRUE, NoFile)] /\ ~lock[ParentOf(r)].held
        BY <2>2, <3>2 DEF TakeLock
      <4> QED BY <1>1, <2>2, <3>1, <4>1, ParentType DEF TypeOK
    <3>3. ASSUME NEW r \in Procs, DropLock(r) \/ RemoveLock(r) PROVE FALSE
      <4>1. lock' = [lock EXCEPT ![ParentOf(r)] = Free] /\ lock[ParentOf(r)].owner = NoFile
        BY <2>2, <3>3 DEF DropLock, RemoveLock
      <4> QED BY <1>1, <2>2, <3>1, <4>1, ParentType DEF TypeOK
    <3>4. ASSUME NEW r \in Procs, WriteOwner(r) \/ DropOwner(r) \/ RemoveOwner(r) PROVE FALSE
      <4>1. r # p
        BY <2>2, <3>4 DEF WriteOwner, DropOwner, RemoveOwner, At
      <4>2. pc'[p] = pc[p]
        BY <1>1, <3>4, <4>1 DEF WriteOwner, DropOwner, RemoveOwner, Goto, Fail, TypeOK
      <4> QED BY <2>2, <4>2
    <3>5. ASSUME NEW e \in Parents, UserRemovesLock(e) PROVE FALSE
      BY <2>2, <3>5 DEF UserRemovesLock, locals
    <3>6. lock' # lock
      BY <2>2
    <3> QED BY <1>1, <3>2, <3>3, <3>4, <3>5, <3>6, LockWriters
  <2> QED BY <2>1, <2>2
<1>2. Init => NoOwnerUnheld
  BY DEF Init, NoOwnerUnheld, Free, Lock
<1>3. TypeOK /\ NoOwnerUnheld /\ [Next]_vars => NoOwnerUnheld'
  BY UnheldStep
<1>4. TypeOK /\ NoOwnerUnheld /\ [Next]_vars => [Allowed]_vars
  BY <1>1
<1> QED BY <1>2, <1>3, <1>4, TypeCorrect, PTL DEF Spec, ReleasesOnlyFound

-----------------------------------------------------------------------------
(* Writes. *)

(* A Build has a staging directory only from its MkdirTemp to its removal   *)
(* or its rename, and a backup only from one rename of replace to the next. *)
StagingSteps == {"mark", "fill", "chmod", "swap", "stat", "reserve", "moveOut", "moveIn",
                 "rollback", "cleanStaging"}
BackupSteps == {"moveIn", "rollback", "dropBackup"}

PlacedOK(p) ==
  /\ pc[p] \notin StagingSteps => staging[p] = Absent
  /\ pc[p] \notin BackupSteps => backup[p] = Absent
PlacedInv == \A p \in Procs : PlacedOK(p)

(* A step of one process, which leaves the trees of the others alone.       *)
LEMMA PlacedLocal ==
  ASSUME TypeOK, PlacedInv, NEW p \in Procs, PlacedOK(p)',
         \A q \in Procs : q # p => /\ pc'[q] = pc[q]
                                   /\ staging'[q] = staging[q]
                                   /\ backup'[q] = backup[q]
  PROVE  PlacedInv'
BY DEF PlacedInv, PlacedOK

(* Every step keeps PlacedInv, whatever the user does.                      *)
LEMMA PlacedStep ==
  ASSUME TypeOK, PlacedInv, [Next]_vars
  PROVE  PlacedInv'
<1> USE TypeOK DEF At, Goto, Fail, StagingSteps, BackupSteps
<1>s. \A p \in Procs : PlacedOK(p)
  BY DEF PlacedInv
<1>1. ASSUME NEW p \in Procs, Prepare(p) PROVE PlacedInv'
  <2>1. PlacedOK(p)'
    BY <1>1, <1>s DEF Prepare, PlacedOK, TypeOK
  <2>2. \A q \in Procs : q # p => /\ pc'[q] = pc[q]
                                  /\ staging'[q] = staging[q]
                                  /\ backup'[q] = backup[q]
    BY <1>1 DEF Prepare, TypeOK
  <2> QED BY <2>1, <2>2, PlacedLocal
<1>2. ASSUME NEW p \in Procs, Verify(p) PROVE PlacedInv'
  <2>1. PlacedOK(p)'
    BY <1>2, <1>s DEF Verify, PlacedOK, TypeOK
  <2>2. \A q \in Procs : q # p => /\ pc'[q] = pc[q]
                                  /\ staging'[q] = staging[q]
                                  /\ backup'[q] = backup[q]
    BY <1>2 DEF Verify, TypeOK
  <2> QED BY <2>1, <2>2, PlacedLocal
<1>3. ASSUME NEW p \in Procs, TakeLock(p) PROVE PlacedInv'
  <2>1. PlacedOK(p)'
    BY <1>3, <1>s DEF TakeLock, PlacedOK, TypeOK
  <2>2. \A q \in Procs : q # p => /\ pc'[q] = pc[q]
                                  /\ staging'[q] = staging[q]
                                  /\ backup'[q] = backup[q]
    BY <1>3 DEF TakeLock, TypeOK
  <2> QED BY <2>1, <2>2, PlacedLocal
<1>4. ASSUME NEW p \in Procs, WriteOwner(p) PROVE PlacedInv'
  <2>1. PlacedOK(p)'
    BY <1>4, <1>s DEF WriteOwner, PlacedOK, TypeOK
  <2>2. \A q \in Procs : q # p => /\ pc'[q] = pc[q]
                                  /\ staging'[q] = staging[q]
                                  /\ backup'[q] = backup[q]
    BY <1>4 DEF WriteOwner, TypeOK
  <2> QED BY <2>1, <2>2, PlacedLocal
<1>5. ASSUME NEW p \in Procs, DropOwner(p) PROVE PlacedInv'
  <2>1. PlacedOK(p)'
    BY <1>5, <1>s DEF DropOwner, PlacedOK, TypeOK
  <2>2. \A q \in Procs : q # p => /\ pc'[q] = pc[q]
                                  /\ staging'[q] = staging[q]
                                  /\ backup'[q] = backup[q]
    BY <1>5 DEF DropOwner, TypeOK
  <2> QED BY <2>1, <2>2, PlacedLocal
<1>6. ASSUME NEW p \in Procs, DropLock(p) PROVE PlacedInv'
  <2>1. PlacedOK(p)'
    BY <1>6, <1>s DEF DropLock, PlacedOK, TypeOK
  <2>2. \A q \in Procs : q # p => /\ pc'[q] = pc[q]
                                  /\ staging'[q] = staging[q]
                                  /\ backup'[q] = backup[q]
    BY <1>6 DEF DropLock, TypeOK
  <2> QED BY <2>1, <2>2, PlacedLocal
<1>7. ASSUME NEW p \in Procs, Recheck(p) PROVE PlacedInv'
  <2>1. PlacedOK(p)'
    BY <1>7, <1>s DEF Recheck, PlacedOK, TypeOK
  <2>2. \A q \in Procs : q # p => /\ pc'[q] = pc[q]
                                  /\ staging'[q] = staging[q]
                                  /\ backup'[q] = backup[q]
    BY <1>7 DEF Recheck, TypeOK
  <2> QED BY <2>1, <2>2, PlacedLocal
<1>8. ASSUME NEW p \in Procs, Inspect(p) PROVE PlacedInv'
  <2>1. PlacedOK(p)'
    BY <1>8, <1>s DEF Inspect, PlacedOK, TypeOK
  <2>2. \A q \in Procs : q # p => /\ pc'[q] = pc[q]
                                  /\ staging'[q] = staging[q]
                                  /\ backup'[q] = backup[q]
    BY <1>8 DEF Inspect, TypeOK
  <2> QED BY <2>1, <2>2, PlacedLocal
<1>9. ASSUME NEW p \in Procs, Stage(p) PROVE PlacedInv'
  <2>1. PlacedOK(p)'
    BY <1>9, <1>s DEF Stage, PlacedOK, TypeOK
  <2>2. \A q \in Procs : q # p => /\ pc'[q] = pc[q]
                                  /\ staging'[q] = staging[q]
                                  /\ backup'[q] = backup[q]
    BY <1>9 DEF Stage, TypeOK
  <2> QED BY <2>1, <2>2, PlacedLocal
<1>10. ASSUME NEW p \in Procs, Mark(p) PROVE PlacedInv'
  <2>1. PlacedOK(p)'
    BY <1>10, <1>s DEF Mark, PlacedOK, TypeOK
  <2>2. \A q \in Procs : q # p => /\ pc'[q] = pc[q]
                                  /\ staging'[q] = staging[q]
                                  /\ backup'[q] = backup[q]
    BY <1>10 DEF Mark, TypeOK
  <2> QED BY <2>1, <2>2, PlacedLocal
<1>11. ASSUME NEW p \in Procs, Fill(p) PROVE PlacedInv'
  <2>1. PlacedOK(p)'
    BY <1>11, <1>s DEF Fill, PlacedOK, TypeOK
  <2>2. \A q \in Procs : q # p => /\ pc'[q] = pc[q]
                                  /\ staging'[q] = staging[q]
                                  /\ backup'[q] = backup[q]
    BY <1>11 DEF Fill, TypeOK
  <2> QED BY <2>1, <2>2, PlacedLocal
<1>12. ASSUME NEW p \in Procs, SetMode(p) PROVE PlacedInv'
  <2>1. PlacedOK(p)'
    BY <1>12, <1>s DEF SetMode, PlacedOK, TypeOK
  <2>2. \A q \in Procs : q # p => /\ pc'[q] = pc[q]
                                  /\ staging'[q] = staging[q]
                                  /\ backup'[q] = backup[q]
    BY <1>12 DEF SetMode, TypeOK
  <2> QED BY <2>1, <2>2, PlacedLocal
<1>13. ASSUME NEW p \in Procs, BeginSwap(p) PROVE PlacedInv'
  <2>1. PlacedOK(p)'
    BY <1>13, <1>s DEF BeginSwap, PlacedOK, TypeOK
  <2>2. \A q \in Procs : q # p => /\ pc'[q] = pc[q]
                                  /\ staging'[q] = staging[q]
                                  /\ backup'[q] = backup[q]
    BY <1>13 DEF BeginSwap, TypeOK
  <2> QED BY <2>1, <2>2, PlacedLocal
<1>14. ASSUME NEW p \in Procs, Stat(p) PROVE PlacedInv'
  <2>1. PlacedOK(p)'
    BY <1>14, <1>s DEF Stat, PlacedOK, TypeOK
  <2>2. \A q \in Procs : q # p => /\ pc'[q] = pc[q]
                                  /\ staging'[q] = staging[q]
                                  /\ backup'[q] = backup[q]
    BY <1>14 DEF Stat, TypeOK
  <2> QED BY <2>1, <2>2, PlacedLocal
<1>15. ASSUME NEW p \in Procs, Reserve(p) PROVE PlacedInv'
  <2>1. PlacedOK(p)'
    BY <1>15, <1>s DEF Reserve, PlacedOK, TypeOK
  <2>2. \A q \in Procs : q # p => /\ pc'[q] = pc[q]
                                  /\ staging'[q] = staging[q]
                                  /\ backup'[q] = backup[q]
    BY <1>15 DEF Reserve, TypeOK
  <2> QED BY <2>1, <2>2, PlacedLocal
<1>16. ASSUME NEW p \in Procs, MoveOut(p) PROVE PlacedInv'
  <2>1. PlacedOK(p)'
    BY <1>16, <1>s DEF MoveOut, PlacedOK, TypeOK
  <2>2. \A q \in Procs : q # p => /\ pc'[q] = pc[q]
                                  /\ staging'[q] = staging[q]
                                  /\ backup'[q] = backup[q]
    BY <1>16 DEF MoveOut, TypeOK
  <2> QED BY <2>1, <2>2, PlacedLocal
<1>17. ASSUME NEW p \in Procs, MoveIn(p) PROVE PlacedInv'
  <2>1. PlacedOK(p)'
    BY <1>17, <1>s DEF MoveIn, PlacedOK, TypeOK
  <2>2. \A q \in Procs : q # p => /\ pc'[q] = pc[q]
                                  /\ staging'[q] = staging[q]
                                  /\ backup'[q] = backup[q]
    BY <1>17 DEF MoveIn, TypeOK
  <2> QED BY <2>1, <2>2, PlacedLocal
<1>18. ASSUME NEW p \in Procs, Rollback(p) PROVE PlacedInv'
  <2>1. PlacedOK(p)'
    BY <1>18, <1>s DEF Rollback, PlacedOK, TypeOK
  <2>2. \A q \in Procs : q # p => /\ pc'[q] = pc[q]
                                  /\ staging'[q] = staging[q]
                                  /\ backup'[q] = backup[q]
    BY <1>18 DEF Rollback, TypeOK
  <2> QED BY <2>1, <2>2, PlacedLocal
<1>19. ASSUME NEW p \in Procs, DropBackup(p) PROVE PlacedInv'
  <2>1. PlacedOK(p)'
    BY <1>19, <1>s DEF DropBackup, PlacedOK, TypeOK
  <2>2. \A q \in Procs : q # p => /\ pc'[q] = pc[q]
                                  /\ staging'[q] = staging[q]
                                  /\ backup'[q] = backup[q]
    BY <1>19 DEF DropBackup, TypeOK
  <2> QED BY <2>1, <2>2, PlacedLocal
<1>20. ASSUME NEW p \in Procs, CleanStaging(p) PROVE PlacedInv'
  <2>1. PlacedOK(p)'
    BY <1>20, <1>s DEF CleanStaging, PlacedOK, TypeOK
  <2>2. \A q \in Procs : q # p => /\ pc'[q] = pc[q]
                                  /\ staging'[q] = staging[q]
                                  /\ backup'[q] = backup[q]
    BY <1>20 DEF CleanStaging, TypeOK
  <2> QED BY <2>1, <2>2, PlacedLocal
<1>21. ASSUME NEW p \in Procs, ReadOwner(p) PROVE PlacedInv'
  <2>1. PlacedOK(p)'
    BY <1>21, <1>s DEF ReadOwner, PlacedOK, TypeOK
  <2>2. \A q \in Procs : q # p => /\ pc'[q] = pc[q]
                                  /\ staging'[q] = staging[q]
                                  /\ backup'[q] = backup[q]
    BY <1>21 DEF ReadOwner, TypeOK
  <2> QED BY <2>1, <2>2, PlacedLocal
<1>22. ASSUME NEW p \in Procs, RemoveOwner(p) PROVE PlacedInv'
  <2>1. PlacedOK(p)'
    BY <1>22, <1>s DEF RemoveOwner, PlacedOK, TypeOK
  <2>2. \A q \in Procs : q # p => /\ pc'[q] = pc[q]
                                  /\ staging'[q] = staging[q]
                                  /\ backup'[q] = backup[q]
    BY <1>22 DEF RemoveOwner, TypeOK
  <2> QED BY <2>1, <2>2, PlacedLocal
<1>23. ASSUME NEW p \in Procs, RemoveLock(p) PROVE PlacedInv'
  <2>1. PlacedOK(p)'
    BY <1>23, <1>s DEF RemoveLock, PlacedOK, TypeOK
  <2>2. \A q \in Procs : q # p => /\ pc'[q] = pc[q]
                                  /\ staging'[q] = staging[q]
                                  /\ backup'[q] = backup[q]
    BY <1>23 DEF RemoveLock, TypeOK
  <2> QED BY <2>1, <2>2, PlacedLocal
<1>24. ASSUME NEW p \in Procs, Crash(p) PROVE PlacedInv'
  <2>1. PlacedOK(p)'
    BY <1>24, <1>s DEF Crash, PlacedOK, TypeOK
  <2>2. \A q \in Procs : q # p => /\ pc'[q] = pc[q]
                                  /\ staging'[q] = staging[q]
                                  /\ backup'[q] = backup[q]
    BY <1>24 DEF Crash, TypeOK
  <2> QED BY <2>1, <2>2, PlacedLocal
<1>25. ASSUME NEW p \in Procs, NEW o \in Outputs, Start(p, o) PROVE PlacedInv'
  <2>1. PlacedOK(p)'
    BY <1>25 DEF Start, PlacedOK, TypeOK
  <2>2. \A q \in Procs : q # p => /\ pc'[q] = pc[q]
                                  /\ staging'[q] = staging[q]
                                  /\ backup'[q] = backup[q]
    BY <1>25 DEF Start, TypeOK
  <2> QED BY <2>1, <2>2, PlacedLocal
<1>26. CASE UNCHANGED <<pc, staging, backup>>
  BY <1>26, <1>s DEF PlacedInv, PlacedOK
<1>27. \/ \E p \in Procs : Step(p) \/ Crash(p) \/ \E o \in Outputs : Start(p, o)
      \/ UNCHANGED <<pc, staging, backup>>
  BY DEF Next, ProcNext, UserNext, vars, locals, Cancel, UserEdits, UserRestores, MarkerAppears,
         UserRemovesLock
<1> QED
  BY <1>1, <1>2, <1>3, <1>4, <1>5, <1>6, <1>7, <1>8, <1>9, <1>10, <1>11, <1>12, <1>13, <1>14, <1>15, <1>16, <1>17, <1>18, <1>19, <1>20, <1>21, <1>22, <1>23, <1>24, <1>25, <1>26, <1>27 DEF Step

(* A Build that moves its own trees changes nothing next to another output. *)
LEMMA BesideOthers ==
  ASSUME NEW p \in Procs, NEW o \in Outputs, o # target[p], UNCHANGED target,
         \A q \in Procs : q # p => staging'[q] = staging[q] /\ backup'[q] = backup[q],
         \A l : l.out = o => (l \in litter' <=> l \in litter)
  PROVE  Beside(o)' = Beside(o)
<1>1. \A q \in Procs : target[q] = o => staging'[q] = staging[q] /\ backup'[q] = backup[q]
  OBVIOUS
<1>2. {l \in litter : l.out = o}' = {l \in litter : l.out = o}
  OBVIOUS
<1>3. \A l : l \in UNION {Leave("staging", q, staging[q]) \cup Leave("backup", q, backup[q]) :
                          q \in {r \in Procs : target[r] = o}}
        <=> l \in UNION {Leave("staging", q, staging[q]) \cup Leave("backup", q, backup[q]) :
                          q \in {r \in Procs : target[r] = o}}'
  BY <1>1 DEF Leave
<1> QED BY <1>2, <1>3 DEF Beside

(* The steps of a Build that change an output, its staging directory or its *)
(* backup: each is made under the lock and leaves the other outputs alone.  *)
Moves(p) ==
  \/ Stage(p) \/ Mark(p) \/ Fill(p) \/ Reserve(p) \/ MoveOut(p) \/ MoveIn(p) \/ Rollback(p)
  \/ DropBackup(p) \/ CleanStaging(p)

LEMMA MovesAreLocal ==
  ASSUME TypeOK, LockInv, NEW p \in Procs, Moves(p)
  PROVE  /\ lock[ParentOf(p)].owner = p
         /\ pc'[p] # pc[p]
         /\ \A o \in Outputs : o # target[p] => dir'[o] = dir[o] /\ Beside(o)' = Beside(o)
<1> USE TypeOK DEF At, Goto, Fail
<1>1. pc[p] \in HoldSteps
  BY DEF Moves, Stage, Mark, Fill, Reserve, MoveOut, MoveIn, Rollback, DropBackup, CleanStaging,
         HoldSteps, SwapSteps
<1>2. pc'[p] # pc[p]
  BY DEF Moves, Stage, Mark, Fill, Reserve, MoveOut, MoveIn, Rollback, DropBackup, CleanStaging,
         TypeOK
<1>3. \A o \in Outputs : o # target[p] => dir'[o] = dir[o]
  BY DEF Moves, Stage, Mark, Fill, Reserve, MoveOut, MoveIn, Rollback, DropBackup, CleanStaging,
         files, TypeOK
<1>4. target' = target
  BY DEF Moves, Stage, Mark, Fill, Reserve, MoveOut, MoveIn, Rollback, DropBackup, CleanStaging
<1>5. \A q \in Procs : q # p => staging'[q] = staging[q] /\ backup'[q] = backup[q]
  BY DEF Moves, Stage, Mark, Fill, Reserve, MoveOut, MoveIn, Rollback, DropBackup, CleanStaging,
         TypeOK
<1>6. \/ litter' = litter
      \/ \E kind \in {"staging", "backup"}, c \in Contents \cup {backup[p], staging[p]} :
           litter' = litter \cup Leave(kind, p, c)
  <2>1. Empty \in Contents /\ Partial \in Contents
    BY ContentsType
  <2> QED
    BY <2>1 DEF Moves, Stage, Mark, Fill, Reserve, MoveOut, MoveIn, Rollback, DropBackup,
                CleanStaging, files
<1>7. \A kind, c : \A l \in Leave(kind, p, c) : l.out = target[p]
  BY DEF Leave
<1>8. ASSUME NEW o \in Outputs, o # target[p] PROVE Beside(o)' = Beside(o)
  <2>1. \A l : l.out = o => (l \in litter' <=> l \in litter)
    BY <1>6, <1>7, <1>8
  <2> QED BY <1>4, <1>5, <1>8, <2>1, BesideOthers
<1> QED BY <1>1, <1>2, <1>3, <1>8 DEF LockInv

(* A killed process leaves its trees where they are.                        *)
LEMMA BesideCrash ==
  ASSUME TypeOK, NEW p \in Procs, Crash(p), NEW o \in Outputs
  PROVE  Beside(o)' = Beside(o)
<1>1. /\ litter' = litter \cup Leave("staging", p, staging[p]) \cup Leave("backup", p, backup[p])
      /\ target' = target
      /\ \A q \in Procs : q # p => staging'[q] = staging[q] /\ backup'[q] = backup[q]
      /\ staging'[p] = Absent /\ backup'[p] = Absent
  BY DEF Crash, TypeOK
<1>2. CASE o # target[p]
  <2>1. \A l : l.out = o => (l \in litter' <=> l \in litter)
    BY <1>1, <1>2 DEF Leave
  <2> QED BY <1>1, <1>2, <2>1, BesideOthers
<1>3. CASE o = target[p]
  <2> DEFINE Own(q) == Leave("staging", q, staging[q]) \cup Leave("backup", q, backup[q])
             Here == {q \in Procs : target[q] = o}
  <2>1. \A q \in Procs : q # p => Own(q)' = Own(q)
    BY <1>1 DEF Leave
  <2>2. Own(p)' = {}
    BY <1>1 DEF Leave
  <2>3. Here' = Here /\ p \in Here
    BY <1>1, <1>3
  <2>4. \A l \in Own(p) : l.out = o
    BY <1>3 DEF Leave
  <2>5. litter' = litter \cup Own(p)
    BY <1>1
  <2>6. Beside(o) = {l \in litter : l.out = o} \cup UNION {Own(q) : q \in Here}
    BY DEF Beside
  <2>7. Beside(o)' = {l \in litter' : l.out = o} \cup UNION {Own(q)' : q \in Here'}
    BY DEF Beside
  <2> HIDE DEF Own, Here
  <2>8. Here \subseteq Procs
    BY DEF Here
  <2>9. \A l : l \in UNION {Own(q) : q \in Here}
            <=> l \in Own(p) \/ l \in UNION {Own(q)' : q \in Here'}
    BY <2>1, <2>2, <2>3, <2>8
  <2> QED BY <2>4, <2>5, <2>6, <2>7, <2>9
<1> QED BY <1>2, <1>3

(* A Build that begins has no trees, whatever its process rendered before.  *)
LEMMA BesideStart ==
  ASSUME TypeOK, PlacedInv, NEW p \in Procs, NEW r \in Outputs, Start(p, r), NEW o \in Outputs
  PROVE  Beside(o)' = Beside(o)
<1> DEFINE Own(q) == Leave("staging", q, staging[q]) \cup Leave("backup", q, backup[q])
<1>1. staging[p] = Absent /\ backup[p] = Absent /\ litter' = litter
  BY DEF Start, PlacedInv, PlacedOK, StagingSteps, BackupSteps, files
<1>2. staging'[p] = Absent /\ backup'[p] = Absent
  BY DEF Start, TypeOK
<1>3. \A q \in Procs : q # p => /\ target'[q] = target[q]
                                /\ staging'[q] = staging[q]
                                /\ backup'[q] = backup[q]
  BY DEF Start, TypeOK
<1>4. Own(p) = {} /\ Own(p)' = {}
  BY <1>1, <1>2 DEF Leave
<1>5. \A q \in Procs : q # p => Own(q)' = Own(q)
  BY <1>3 DEF Leave
<1>6. Beside(o) = {l \in litter : l.out = o} \cup UNION {Own(q) : q \in {z \in Procs : target[z] = o}}
  BY DEF Beside
<1>7. Beside(o)' = {l \in litter' : l.out = o}
                     \cup UNION {Own(q)' : q \in {z \in Procs : target'[z] = o}}
  BY DEF Beside
<1> HIDE DEF Own
<1>8. \A l : l \in UNION {Own(q) : q \in {z \in Procs : target[z] = o}}
        <=> l \in UNION {Own(q)' : q \in {z \in Procs : target'[z] = o}}
  BY <1>3, <1>4, <1>5
<1> QED BY <1>1, <1>6, <1>7, <1>8

(* THEOREM.  What is at an output's path, and the staging and backup        *)
(* directories next to it, are changed by the Build that holds the parent's *)
(* lock, or by the user: not by a Build that was refused, not by a crash,   *)
(* not by a Build of another output (output.go, Build, replace).            *)
THEOREM WritesAreTheHolders ==
  ASSUME ~CarelessUser
  PROVE  Spec => OnlyHolderWrites
<1> DEFINE Allowed == \A o \in Outputs : (dir'[o] # dir[o] \/ Beside(o)' # Beside(o)) =>
             \/ \E p \in Procs : target[p] = o /\ lock[Parent[o]].owner = p /\ pc'[p] # pc[p]
             \/ edits' = edits + 1
<1>1. ASSUME TypeOK, LockInv, PlacedInv, [Next]_vars PROVE Allowed
  <2>1. ASSUME NEW p \in Procs, Moves(p) PROVE Allowed
    BY <1>1, <2>1, MovesAreLocal DEF ParentOf
  <2>2. ASSUME NEW p \in Procs, Crash(p) PROVE Allowed
    <3>1. dir' = dir
      BY <2>2 DEF Crash
    <3> QED BY <1>1, <2>2, <3>1, BesideCrash
  <2>3. ASSUME NEW p \in Procs, NEW r \in Outputs, Start(p, r) PROVE Allowed
    <3>1. dir' = dir
      BY <2>3 DEF Start, files
    <3> QED BY <1>1, <2>3, <3>1, BesideStart
  <2>4. CASE UNCHANGED <<dir, litter, target, staging, backup>>
    BY <2>4 DEF Beside, Leave
  <2>5. ASSUME NEW o \in Outputs, UserEdits(o) \/ UserRestores(o) PROVE Allowed
    BY <2>5 DEF UserEdits, UserRestores
  <2>6. ASSUME NEW p \in Procs, Step(p), ~Moves(p)
        PROVE  UNCHANGED <<dir, litter, target, staging, backup>>
    BY <2>6, ZenonT(60)
       DEF Step, Moves, files, Prepare, Verify, TakeLock, WriteOwner, DropOwner, DropLock,
           Recheck, Inspect, SetMode, BeginSwap, Stat, ReadOwner, RemoveOwner, RemoveLock
  <2>7. ASSUME NEW p \in Procs, Cancel(p) PROVE UNCHANGED <<dir, litter, target, staging, backup>>
    BY <2>7 DEF Cancel, files
  <2>8. ASSUME NEW d \in Parents, MarkerAppears(d) \/ UserRemovesLock(d)
        PROVE  UNCHANGED <<dir, litter, target, staging, backup>>
    BY <2>8 DEF MarkerAppears, UserRemovesLock, locals
  <2>9. UNCHANGED vars => UNCHANGED <<dir, litter, target, staging, backup>>
    BY DEF vars, files, locals
  <2> HIDE DEF Allowed
  <2> QED BY <1>1, <2>1, <2>2, <2>3, <2>4, <2>5, <2>6, <2>7, <2>8, <2>9 DEF Next, ProcNext, UserNext
<1>2. Init => PlacedInv
  BY DEF Init, PlacedInv, PlacedOK
<1>3. TypeOK /\ PlacedInv /\ [Next]_vars => PlacedInv'
  BY PlacedStep
<1>4. TypeOK /\ LockInv /\ PlacedInv /\ [Next]_vars => [Allowed]_vars
  BY <1>1
<1> QED
  BY <1>2, <1>3, <1>4, TypeCorrect, LockInvariance, ~CarelessUser, PTL DEF Spec, OnlyHolderWrites


-----------------------------------------------------------------------------
(* What is left behind. *)

(* While nothing failed and nobody crashed, everything that lies about      *)
(* belongs to a Build that is still to remove it.                           *)
HiddenBySwap == \A o \in Outputs : dir[o] # kept[o] =>
                  \E p \in Procs : target[p] = o /\ pc[p] \in {"moveIn", "rollback"}
LocksInUse == \A d \in Parents : lock[d].held =>
                \E p \in Procs : pc[p] \in LockSteps /\ ParentOf(p) = d
StagingInUse == \A p \in Procs : pc[p] \notin StagingSteps => staging[p] = Absent
NoFailedLock == \A p \in Procs : pc[p] \notin {"dropOwner", "dropLock"}

Clean == litter = {} /\ HiddenBySwap /\ LocksInUse /\ StagingInUse /\ NoFailedLock
CleanInv == faults = 0 => Clean

(* A step of a Build before it has anything, or between its calls, that     *)
(* touches neither an output nor a lock.                                    *)
LEMMA CleanGoto ==
  ASSUME TypeOK, Clean, NEW p \in Procs, NEW s \in Pcs, pc' = [pc EXCEPT ![p] = s],
         UNCHANGED <<dir, kept, lock, litter, target>>,
         pc[p] \notin {"moveIn", "rollback"},
         pc[p] \in LockSteps => s \in LockSteps,
         s \notin {"dropOwner", "dropLock"},
         \A q \in Procs : q # p => staging'[q] = staging[q],
         s \notin StagingSteps => staging'[p] = Absent
  PROVE  Clean'
<1>1. HiddenBySwap'
  BY DEF Clean, HiddenBySwap, TypeOK
<1>2. LocksInUse'
  BY DEF Clean, LocksInUse, TypeOK, ParentOf
<1>3. StagingInUse' /\ NoFailedLock'
  BY DEF Clean, StagingInUse, NoFailedLock, TypeOK
<1> QED BY <1>1, <1>2, <1>3 DEF Clean

(* A step of the Build that holds the lock, which changes its own output.   *)
LEMMA CleanSwap ==
  ASSUME TypeOK, LockInv, Clean, NEW p \in Procs, NEW s \in LockSteps, pc' = [pc EXCEPT ![p] = s],
         UNCHANGED <<lock, litter, target>>, pc[p] \in LockSteps,
         \A o \in Outputs : o # target[p] => dir'[o] = dir[o] /\ kept'[o] = kept[o],
         s \in {"moveIn", "rollback"} \/ dir'[target[p]] = kept'[target[p]],
         s \notin {"dropOwner", "dropLock"},
         \A q \in Procs : q # p => staging'[q] = staging[q],
         s \notin StagingSteps => staging'[p] = Absent
  PROVE  Clean'
<1>1. HiddenBySwap'
  BY DEF Clean, HiddenBySwap, TypeOK
<1>2. LocksInUse'
  BY DEF Clean, LocksInUse, TypeOK, ParentOf
<1>3. StagingInUse' /\ NoFailedLock'
  BY DEF Clean, StagingInUse, NoFailedLock, TypeOK
<1> QED BY <1>1, <1>2, <1>3 DEF Clean

(* A step that takes the lock of p's parent, hands it on to the next call   *)
(* of p, or frees it at the end.                                            *)
LEMMA CleanLock ==
  ASSUME TypeOK, Clean, NEW p \in Procs, NEW s \in Pcs, pc' = [pc EXCEPT ![p] = s],
         NEW l \in Locks, lock' = [lock EXCEPT ![ParentOf(p)] = l],
         l.held => s \in LockSteps,
         UNCHANGED <<dir, kept, litter, target, staging>>,
         pc[p] \notin StagingSteps, s \notin StagingSteps, s \notin {"dropOwner", "dropLock"}
  PROVE  Clean'
<1>1. HiddenBySwap'
  BY DEF Clean, HiddenBySwap, TypeOK, StagingSteps
<1>2. LocksInUse'
  <2> SUFFICES ASSUME NEW d \in Parents, lock'[d].held
               PROVE  \E q \in Procs : pc'[q] \in LockSteps /\ ParentOf(q)' = d
    BY DEF LocksInUse
  <2>1. CASE d = ParentOf(p)
    BY <2>1, ParentType DEF TypeOK, ParentOf
  <2>2. CASE d # ParentOf(p)
    <3>1. lock[d].held
      BY <2>2 DEF TypeOK
    <3>2. PICK q \in Procs : pc[q] \in LockSteps /\ ParentOf(q) = d
      BY <3>1 DEF Clean, LocksInUse
    <3>3. q # p
      BY <2>2, <3>2
    <3> QED BY <3>2, <3>3 DEF TypeOK, ParentOf
  <2> QED BY <2>1, <2>2
<1>3. StagingInUse' /\ NoFailedLock'
  BY DEF Clean, StagingInUse, NoFailedLock, TypeOK
<1> QED BY <1>1, <1>2, <1>3 DEF Clean

(* A step that no process takes, and that leaves every changed output as   *)
(* the user wants it.                                                      *)
LEMMA CleanUser ==
  ASSUME TypeOK, Clean, UNCHANGED <<pc, target, staging>>, litter' \subseteq litter,
         \A o \in Outputs : \/ dir'[o] = kept'[o]
                            \/ dir'[o] = dir[o] /\ kept'[o] = kept[o],
         \A d \in Parents : lock'[d].held => lock[d].held
  PROVE  Clean'
BY DEF Clean, HiddenBySwap, LocksInUse, StagingInUse, NoFailedLock, ParentOf

(* The Build that is about to set its output aside finds the kept content: *)
(* no other Build hides it.                                                *)
LEMMA NotHidden ==
  ASSUME TypeOK, LockInv, Clean, NEW p \in Procs, pc[p] \in LockSteps,
         pc[p] \notin {"moveIn", "rollback"}
  PROVE  dir[target[p]] = kept[target[p]]
<1> SUFFICES ASSUME dir[target[p]] # kept[target[p]] PROVE FALSE
  OBVIOUS
<1>1. PICK q \in Procs : target[q] = target[p] /\ pc[q] \in {"moveIn", "rollback"}
  BY DEF Clean, HiddenBySwap, TypeOK
<1>2. q # p /\ pc[q] \in LockSteps /\ ParentOf(q) = ParentOf(p)
  BY <1>1 DEF LockSteps, HoldSteps, SwapSteps, ParentOf
<1> QED BY <1>2 DEF LockInv, MutualExclusion


(* A step without a fault keeps everything accounted for.                  *)
LEMMA CleanStep ==
  ASSUME TypeOK, LockInv, OwnerInv, SwapInv, CleanInv,
         ~CarelessUser, ~EditsDuringSwap, [Next]_vars
  PROVE  CleanInv'
<1> SUFFICES ASSUME faults' = 0 PROVE Clean'
  BY DEF CleanInv
<1> USE DEF At, Goto
<1>f. \A p \in Procs : ~Fault(p)
  BY DEF Fault, TypeOK
<1>z. faults = 0
  <2>1. ASSUME NEW p \in Procs, Step(p) PROVE faults' = faults
    BY <2>1, <1>f
       DEF Step, NoFault, Prepare, Verify, TakeLock, WriteOwner, DropOwner, DropLock, Recheck,
           Inspect, Stage, Mark, Fill, SetMode, BeginSwap, Stat, Reserve, MoveOut, MoveIn,
           Rollback, DropBackup, CleanStaging, ReadOwner, RemoveOwner, RemoveLock
  <2>2. ASSUME NEW p \in Procs, Crash(p) PROVE FALSE
    BY <2>2 DEF Crash, TypeOK
  <2>3. ASSUME NEW p \in Procs, Cancel(p) \/ \E o \in Outputs : Start(p, o) PROVE faults' = faults
    BY <2>3 DEF Cancel, Start, counters
  <2>4. ASSUME UserNext PROVE faults' = faults
    BY <2>4 DEF UserNext, UserEdits, UserRestores, MarkerAppears, UserRemovesLock, counters
  <2>5. ASSUME UNCHANGED vars PROVE faults' = faults
    BY <2>5 DEF vars, counters
  <2> QED BY <2>1, <2>2, <2>3, <2>4, <2>5 DEF Next, ProcNext
<1>c. Clean
  BY <1>z DEF CleanInv
<1>s. \A p \in Procs : pc[p] \notin StagingSteps => staging[p] = Absent
  BY <1>c DEF Clean, StagingInUse
<1>o. \A p \in Procs : pc[p] \in HoldSteps => lock[ParentOf(p)].held /\ lock[ParentOf(p)].owner = p
  BY DEF LockInv, LockSteps
<1> DEFINE NoStep == {"dropOwner", "dropLock"}
<1>1. ASSUME NEW p \in Procs, Prepare(p) PROVE Clean'
  <2>1. PICK s \in {"verify", "done"} : pc' = [pc EXCEPT ![p] = s]
    BY <1>1, <1>f DEF Prepare, Fail
  <2>2. UNCHANGED <<dir, kept, lock, litter, target>>
    BY <1>1, <1>f DEF Prepare, files, history
  <2>3. \A q \in Procs : q # p => staging'[q] = staging[q]
    BY <1>1 DEF Prepare, TypeOK
  <2>4. s \notin StagingSteps => staging'[p] = Absent
    BY <1>1, <1>s, <2>1 DEF Prepare, StagingSteps, TypeOK, Fail
  <2>5. s \in Pcs /\ (pc[p] \in LockSteps => s \in LockSteps)
    BY <1>1, <2>1 DEF Prepare, Pcs, Steps, LockSteps, HoldSteps, SwapSteps
  <2>6. pc[p] \notin {"moveIn", "rollback"} /\ s \notin NoStep
    BY <1>1, <2>1 DEF Prepare
  <2> QED BY <1>c, <2>1, <2>2, <2>3, <2>4, <2>5, <2>6, CleanGoto
<1>2. ASSUME NEW p \in Procs, Verify(p) PROVE Clean'
  <2>1. PICK s \in {"lock", "done"} : pc' = [pc EXCEPT ![p] = s]
    BY <1>2, <1>f DEF Verify, Fail
  <2>2. UNCHANGED <<dir, kept, lock, litter, target>>
    BY <1>2, <1>f DEF Verify, files, history
  <2>3. \A q \in Procs : q # p => staging'[q] = staging[q]
    BY <1>2 DEF Verify, TypeOK
  <2>4. s \notin StagingSteps => staging'[p] = Absent
    BY <1>2, <1>s, <2>1 DEF Verify, StagingSteps, TypeOK, Fail
  <2>5. s \in Pcs /\ (pc[p] \in LockSteps => s \in LockSteps)
    BY <1>2, <2>1 DEF Verify, Pcs, Steps, LockSteps, HoldSteps, SwapSteps
  <2>6. pc[p] \notin {"moveIn", "rollback"} /\ s \notin NoStep
    BY <1>2, <2>1 DEF Verify
  <2> QED BY <1>c, <2>1, <2>2, <2>3, <2>4, <2>5, <2>6, CleanGoto
<1>3. ASSUME NEW p \in Procs, TakeLock(p) PROVE Clean'
  <2>1. pc[p] = "lock" /\ UNCHANGED <<dir, kept, litter, target, staging>>
    BY <1>3 DEF TakeLock, history
  <2>2. CASE Goto(p, "done") /\ UNCHANGED lock
    <3>1. pc[p] \notin LockSteps /\ staging'[p] = Absent
      BY <1>s, <2>1 DEF LockSteps, HoldSteps, SwapSteps, StagingSteps
    <3> QED BY <1>c, <2>1, <2>2, <3>1, CleanGoto DEF Pcs
  <2>3. CASE Goto(p, "writeOwner") /\ lock' = [lock EXCEPT ![ParentOf(p)] = Lock(TRUE, NoFile)]
    <3>1. /\ "writeOwner" \in Pcs \cap LockSteps
          /\ pc[p] \notin StagingSteps /\ "writeOwner" \notin StagingSteps
      BY <2>1 DEF Pcs, Steps, LockSteps, HoldSteps, SwapSteps, StagingSteps
    <3> QED BY <1>c, <2>1, <2>3, <3>1, CleanLock, LockType
  <2> QED BY <1>3, <1>f, <2>2, <2>3 DEF TakeLock, Fail
<1>4. ASSUME NEW p \in Procs, WriteOwner(p) PROVE Clean'
  <2>1. pc[p] = "writeOwner" /\ UNCHANGED <<dir, kept, litter, target, staging>>
    BY <1>4 DEF WriteOwner, history
  <2>2. lock[ParentOf(p)].held
    BY <2>1 DEF LockInv, LockSteps
  <2>3. Goto(p, "recheck") /\ lock' = [lock EXCEPT ![ParentOf(p)] = Lock(TRUE, p)]
    BY <1>4, <1>f, <2>2 DEF WriteOwner
  <2>4. /\ "recheck" \in Pcs \cap LockSteps
        /\ pc[p] \notin StagingSteps /\ "recheck" \notin StagingSteps
    BY <2>1 DEF Pcs, Steps, LockSteps, HoldSteps, SwapSteps, StagingSteps
  <2> QED BY <1>c, <2>1, <2>3, <2>4, CleanLock, LockType
<1>5. ASSUME NEW p \in Procs, DropOwner(p) PROVE Clean'
  BY <1>5, <1>c DEF DropOwner, Clean, NoFailedLock
<1>6. ASSUME NEW p \in Procs, DropLock(p) PROVE Clean'
  BY <1>6, <1>c DEF DropLock, Clean, NoFailedLock
<1>7. ASSUME NEW p \in Procs, Recheck(p) PROVE Clean'
  <2>1. PICK s \in {"inspect", "readOwner"} : pc' = [pc EXCEPT ![p] = s]
    BY <1>7, <1>f DEF Recheck, Fail
  <2>2. UNCHANGED <<dir, kept, lock, litter, target>>
    BY <1>7, <1>f DEF Recheck, files, history
  <2>3. \A q \in Procs : q # p => staging'[q] = staging[q]
    BY <1>7 DEF Recheck, TypeOK
  <2>4. s \notin StagingSteps => staging'[p] = Absent
    BY <1>7, <1>s, <2>1 DEF Recheck, StagingSteps, TypeOK, Fail
  <2>5. s \in Pcs /\ (pc[p] \in LockSteps => s \in LockSteps)
    BY <1>7, <2>1 DEF Recheck, Pcs, Steps, LockSteps, HoldSteps, SwapSteps
  <2>6. pc[p] \notin {"moveIn", "rollback"} /\ s \notin NoStep
    BY <1>7, <2>1 DEF Recheck
  <2> QED BY <1>c, <2>1, <2>2, <2>3, <2>4, <2>5, <2>6, CleanGoto
<1>8. ASSUME NEW p \in Procs, Inspect(p) PROVE Clean'
  <2>1. PICK s \in {"stage", "readOwner"} : pc' = [pc EXCEPT ![p] = s]
    BY <1>8, <1>f DEF Inspect, Fail
  <2>2. UNCHANGED <<dir, kept, lock, litter, target>>
    BY <1>8, <1>f DEF Inspect, files, history
  <2>3. \A q \in Procs : q # p => staging'[q] = staging[q]
    BY <1>8 DEF Inspect, TypeOK
  <2>4. s \notin StagingSteps => staging'[p] = Absent
    BY <1>8, <1>s, <2>1 DEF Inspect, StagingSteps, TypeOK, Fail
  <2>5. s \in Pcs /\ (pc[p] \in LockSteps => s \in LockSteps)
    BY <1>8, <2>1 DEF Inspect, Pcs, Steps, LockSteps, HoldSteps, SwapSteps
  <2>6. pc[p] \notin {"moveIn", "rollback"} /\ s \notin NoStep
    BY <1>8, <2>1 DEF Inspect
  <2> QED BY <1>c, <2>1, <2>2, <2>3, <2>4, <2>5, <2>6, CleanGoto
<1>9. ASSUME NEW p \in Procs, Stage(p) PROVE Clean'
  <2>1. PICK s \in {"mark"} : pc' = [pc EXCEPT ![p] = s]
    BY <1>9, <1>f DEF Stage, Fail
  <2>2. UNCHANGED <<dir, kept, lock, litter, target>>
    BY <1>9, <1>f DEF Stage, files, history
  <2>3. \A q \in Procs : q # p => staging'[q] = staging[q]
    BY <1>9 DEF Stage, TypeOK
  <2>4. s \notin StagingSteps => staging'[p] = Absent
    BY <1>9, <1>s, <2>1 DEF Stage, StagingSteps, TypeOK, Fail
  <2>5. s \in Pcs /\ (pc[p] \in LockSteps => s \in LockSteps)
    BY <1>9, <2>1 DEF Stage, Pcs, Steps, LockSteps, HoldSteps, SwapSteps
  <2>6. pc[p] \notin {"moveIn", "rollback"} /\ s \notin NoStep
    BY <1>9, <2>1 DEF Stage
  <2> QED BY <1>c, <2>1, <2>2, <2>3, <2>4, <2>5, <2>6, CleanGoto
<1>10. ASSUME NEW p \in Procs, Mark(p) PROVE Clean'
  <2>1. PICK s \in {"fill"} : pc' = [pc EXCEPT ![p] = s]
    BY <1>10, <1>f DEF Mark, Fail
  <2>2. UNCHANGED <<dir, kept, lock, litter, target>>
    BY <1>10, <1>f DEF Mark, files, history
  <2>3. \A q \in Procs : q # p => staging'[q] = staging[q]
    BY <1>10 DEF Mark, TypeOK
  <2>4. s \notin StagingSteps => staging'[p] = Absent
    BY <1>10, <1>s, <2>1 DEF Mark, StagingSteps, TypeOK, Fail
  <2>5. s \in Pcs /\ (pc[p] \in LockSteps => s \in LockSteps)
    BY <1>10, <2>1 DEF Mark, Pcs, Steps, LockSteps, HoldSteps, SwapSteps
  <2>6. pc[p] \notin {"moveIn", "rollback"} /\ s \notin NoStep
    BY <1>10, <2>1 DEF Mark
  <2> QED BY <1>c, <2>1, <2>2, <2>3, <2>4, <2>5, <2>6, CleanGoto
<1>11. ASSUME NEW p \in Procs, Fill(p) PROVE Clean'
  <2>1. PICK s \in {"chmod", "cleanStaging"} : pc' = [pc EXCEPT ![p] = s]
    BY <1>11, <1>f DEF Fill, Fail
  <2>2. UNCHANGED <<dir, kept, lock, litter, target>>
    BY <1>11, <1>f DEF Fill, files, history
  <2>3. \A q \in Procs : q # p => staging'[q] = staging[q]
    BY <1>11 DEF Fill, TypeOK
  <2>4. s \notin StagingSteps => staging'[p] = Absent
    BY <1>11, <1>s, <2>1 DEF Fill, StagingSteps, TypeOK, Fail
  <2>5. s \in Pcs /\ (pc[p] \in LockSteps => s \in LockSteps)
    BY <1>11, <2>1 DEF Fill, Pcs, Steps, LockSteps, HoldSteps, SwapSteps
  <2>6. pc[p] \notin {"moveIn", "rollback"} /\ s \notin NoStep
    BY <1>11, <2>1 DEF Fill
  <2> QED BY <1>c, <2>1, <2>2, <2>3, <2>4, <2>5, <2>6, CleanGoto
<1>12. ASSUME NEW p \in Procs, SetMode(p) PROVE Clean'
  <2>1. PICK s \in {"swap", "cleanStaging"} : pc' = [pc EXCEPT ![p] = s]
    BY <1>12, <1>f DEF SetMode, Fail
  <2>2. UNCHANGED <<dir, kept, lock, litter, target>>
    BY <1>12, <1>f DEF SetMode, files, history
  <2>3. \A q \in Procs : q # p => staging'[q] = staging[q]
    BY <1>12 DEF SetMode, TypeOK
  <2>4. s \notin StagingSteps => staging'[p] = Absent
    BY <1>12, <1>s, <2>1 DEF SetMode, StagingSteps, TypeOK, Fail
  <2>5. s \in Pcs /\ (pc[p] \in LockSteps => s \in LockSteps)
    BY <1>12, <2>1 DEF SetMode, Pcs, Steps, LockSteps, HoldSteps, SwapSteps
  <2>6. pc[p] \notin {"moveIn", "rollback"} /\ s \notin NoStep
    BY <1>12, <2>1 DEF SetMode
  <2> QED BY <1>c, <2>1, <2>2, <2>3, <2>4, <2>5, <2>6, CleanGoto
<1>13. ASSUME NEW p \in Procs, BeginSwap(p) PROVE Clean'
  <2>1. PICK s \in {"stat", "cleanStaging"} : pc' = [pc EXCEPT ![p] = s]
    BY <1>13, <1>f DEF BeginSwap, Fail
  <2>2. UNCHANGED <<dir, kept, lock, litter, target>>
    BY <1>13, <1>f DEF BeginSwap, files, history
  <2>3. \A q \in Procs : q # p => staging'[q] = staging[q]
    BY <1>13 DEF BeginSwap, TypeOK
  <2>4. s \notin StagingSteps => staging'[p] = Absent
    BY <1>13, <1>s, <2>1 DEF BeginSwap, StagingSteps, TypeOK, Fail
  <2>5. s \in Pcs /\ (pc[p] \in LockSteps => s \in LockSteps)
    BY <1>13, <2>1 DEF BeginSwap, Pcs, Steps, LockSteps, HoldSteps, SwapSteps
  <2>6. pc[p] \notin {"moveIn", "rollback"} /\ s \notin NoStep
    BY <1>13, <2>1 DEF BeginSwap
  <2> QED BY <1>c, <2>1, <2>2, <2>3, <2>4, <2>5, <2>6, CleanGoto
<1>14. ASSUME NEW p \in Procs, Stat(p) PROVE Clean'
  <2>1. PICK s \in {"reserve", "moveIn"} : pc' = [pc EXCEPT ![p] = s]
    BY <1>14, <1>f DEF Stat, Fail
  <2>2. UNCHANGED <<dir, kept, lock, litter, target>>
    BY <1>14, <1>f DEF Stat, files, history
  <2>3. \A q \in Procs : q # p => staging'[q] = staging[q]
    BY <1>14 DEF Stat, TypeOK
  <2>4. s \notin StagingSteps => staging'[p] = Absent
    BY <1>14, <1>s, <2>1 DEF Stat, StagingSteps, TypeOK, Fail
  <2>5. s \in Pcs /\ (pc[p] \in LockSteps => s \in LockSteps)
    BY <1>14, <2>1 DEF Stat, Pcs, Steps, LockSteps, HoldSteps, SwapSteps
  <2>6. pc[p] \notin {"moveIn", "rollback"} /\ s \notin NoStep
    BY <1>14, <2>1 DEF Stat
  <2> QED BY <1>c, <2>1, <2>2, <2>3, <2>4, <2>5, <2>6, CleanGoto
<1>15. ASSUME NEW p \in Procs, Reserve(p) PROVE Clean'
  <2>1. PICK s \in {"moveOut"} : pc' = [pc EXCEPT ![p] = s]
    BY <1>15, <1>f DEF Reserve, Fail
  <2>2. UNCHANGED <<dir, kept, lock, litter, target>>
    BY <1>15, <1>f DEF Reserve, files, history
  <2>3. \A q \in Procs : q # p => staging'[q] = staging[q]
    BY <1>15 DEF Reserve, TypeOK
  <2>4. s \notin StagingSteps => staging'[p] = Absent
    BY <1>15, <1>s, <2>1 DEF Reserve, StagingSteps, TypeOK, Fail
  <2>5. s \in Pcs /\ (pc[p] \in LockSteps => s \in LockSteps)
    BY <1>15, <2>1 DEF Reserve, Pcs, Steps, LockSteps, HoldSteps, SwapSteps
  <2>6. pc[p] \notin {"moveIn", "rollback"} /\ s \notin NoStep
    BY <1>15, <2>1 DEF Reserve
  <2> QED BY <1>c, <2>1, <2>2, <2>3, <2>4, <2>5, <2>6, CleanGoto
<1>16. ASSUME NEW p \in Procs, MoveOut(p) PROVE Clean'
  <2>1. pc[p] = "moveOut" /\ UNCHANGED <<lock, litter, target, staging, kept>>
    BY <1>16 DEF MoveOut, history
  <2>2. pc[p] \in LockSteps /\ "moveIn" \in LockSteps /\ "cleanStaging" \in LockSteps
    BY <2>1 DEF LockSteps, HoldSteps, SwapSteps
  <2>3. dir[target[p]] = kept[target[p]]
    BY <1>c, <2>1, <2>2, NotHidden
  <2>4. \A x \in Outputs : x # target[p] => dir'[x] = dir[x] /\ kept'[x] = kept[x]
    BY <1>16, <2>1 DEF MoveOut, TypeOK
  <2>5. CASE Goto(p, "moveIn")
    BY <1>c, <2>1, <2>2, <2>4, <2>5, CleanSwap DEF StagingSteps
  <2>6. CASE Goto(p, "cleanStaging") /\ UNCHANGED dir
    BY <1>c, <2>1, <2>2, <2>3, <2>4, <2>6, CleanSwap DEF StagingSteps
  <2> QED BY <1>16, <1>f, <2>5, <2>6 DEF MoveOut, Fail
<1>17. ASSUME NEW p \in Procs, MoveIn(p) PROVE Clean'
  <2>1. pc[p] = "moveIn" /\ UNCHANGED <<lock, litter, target>>
    BY <1>17 DEF MoveIn
  <2>2. dir[target[p]] = Absent
    BY <2>1 DEF SwapInv, SwapOK
  <2>3. /\ dir' = [dir EXCEPT ![target[p]] = staging[p]]
        /\ kept' = [kept EXCEPT ![target[p]] = staging[p]]
        /\ staging' = [staging EXCEPT ![p] = Absent]
        /\ Goto(p, "readOwner") \/ Goto(p, "dropBackup")
    BY <1>17, <1>f, <2>2 DEF MoveIn
  <2>4. \A x \in Outputs : x # target[p] => dir'[x] = dir[x] /\ kept'[x] = kept[x]
    BY <2>3 DEF TypeOK
  <2>5. dir'[target[p]] = kept'[target[p]]
    BY <2>3 DEF TypeOK
  <2>6. staging'[p] = Absent /\ \A q \in Procs : q # p => staging'[q] = staging[q]
    BY <2>3 DEF TypeOK
  <2>7. pc[p] \in LockSteps /\ "readOwner" \in LockSteps /\ "dropBackup" \in LockSteps
    BY <2>1 DEF LockSteps, HoldSteps, SwapSteps
  <2> QED BY <1>c, <2>1, <2>3, <2>4, <2>5, <2>6, <2>7, CleanSwap
<1>18. ASSUME NEW p \in Procs, Rollback(p) PROVE Clean'
  <2>1. pc[p] = "rollback" /\ UNCHANGED <<lock, target, staging, kept>>
    BY <1>18 DEF Rollback, history
  <2>2. dir[target[p]] = Absent /\ backup[p] = kept[target[p]]
    BY <2>1 DEF SwapInv, SwapOK
  <2>3. /\ dir' = [dir EXCEPT ![target[p]] = backup[p]]
        /\ UNCHANGED litter
        /\ Goto(p, "cleanStaging")
    BY <1>18, <1>f, <2>2 DEF Rollback
  <2>4. \A x \in Outputs : x # target[p] => dir'[x] = dir[x] /\ kept'[x] = kept[x]
    BY <2>1, <2>3 DEF TypeOK
  <2>5. dir'[target[p]] = kept'[target[p]]
    BY <2>1, <2>2, <2>3 DEF TypeOK
  <2>6. pc[p] \in LockSteps /\ "cleanStaging" \in LockSteps
    BY <2>1 DEF LockSteps, HoldSteps, SwapSteps
  <2> QED BY <1>c, <2>1, <2>3, <2>4, <2>5, <2>6, CleanSwap DEF StagingSteps
<1>19. ASSUME NEW p \in Procs, DropBackup(p) PROVE Clean'
  <2>1. PICK s \in {"readOwner"} : pc' = [pc EXCEPT ![p] = s]
    BY <1>19, <1>f DEF DropBackup, Fail
  <2>2. UNCHANGED <<dir, kept, lock, litter, target>>
    BY <1>19, <1>f DEF DropBackup, files, history
  <2>3. \A q \in Procs : q # p => staging'[q] = staging[q]
    BY <1>19 DEF DropBackup, TypeOK
  <2>4. s \notin StagingSteps => staging'[p] = Absent
    BY <1>19, <1>s, <2>1 DEF DropBackup, StagingSteps, TypeOK, Fail
  <2>5. s \in Pcs /\ (pc[p] \in LockSteps => s \in LockSteps)
    BY <1>19, <2>1 DEF DropBackup, Pcs, Steps, LockSteps, HoldSteps, SwapSteps
  <2>6. pc[p] \notin {"moveIn", "rollback"} /\ s \notin NoStep
    BY <1>19, <2>1 DEF DropBackup
  <2> QED BY <1>c, <2>1, <2>2, <2>3, <2>4, <2>5, <2>6, CleanGoto
<1>20. ASSUME NEW p \in Procs, CleanStaging(p) PROVE Clean'
  <2>1. PICK s \in {"readOwner"} : pc' = [pc EXCEPT ![p] = s]
    BY <1>20, <1>f DEF CleanStaging, Fail
  <2>2. UNCHANGED <<dir, kept, lock, litter, target>>
    BY <1>20, <1>f DEF CleanStaging, files, history
  <2>3. \A q \in Procs : q # p => staging'[q] = staging[q]
    BY <1>20 DEF CleanStaging, TypeOK
  <2>4. s \notin StagingSteps => staging'[p] = Absent
    BY <1>20, <1>s, <2>1 DEF CleanStaging, StagingSteps, TypeOK, Fail
  <2>5. s \in Pcs /\ (pc[p] \in LockSteps => s \in LockSteps)
    BY <1>20, <2>1 DEF CleanStaging, Pcs, Steps, LockSteps, HoldSteps, SwapSteps
  <2>6. pc[p] \notin {"moveIn", "rollback"} /\ s \notin NoStep
    BY <1>20, <2>1 DEF CleanStaging
  <2> QED BY <1>c, <2>1, <2>2, <2>3, <2>4, <2>5, <2>6, CleanGoto
<1>21. ASSUME NEW p \in Procs, ReadOwner(p) PROVE Clean'
  <2>1. PICK s \in {"removeOwner"} : pc' = [pc EXCEPT ![p] = s]
    BY <1>21, <1>f, <1>o DEF ReadOwner, Fail, HoldSteps
  <2>2. UNCHANGED <<dir, kept, lock, litter, target>>
    BY <1>21, <1>f DEF ReadOwner, files, history
  <2>3. \A q \in Procs : q # p => staging'[q] = staging[q]
    BY <1>21 DEF ReadOwner, TypeOK
  <2>4. s \notin StagingSteps => staging'[p] = Absent
    BY <1>21, <1>s, <2>1 DEF ReadOwner, StagingSteps, TypeOK, Fail
  <2>5. s \in Pcs /\ (pc[p] \in LockSteps => s \in LockSteps)
    BY <1>21, <2>1 DEF ReadOwner, Pcs, Steps, LockSteps, HoldSteps, SwapSteps
  <2>6. pc[p] \notin {"moveIn", "rollback"} /\ s \notin NoStep
    BY <1>21, <2>1 DEF ReadOwner
  <2> QED BY <1>c, <2>1, <2>2, <2>3, <2>4, <2>5, <2>6, CleanGoto
<1>22. ASSUME NEW p \in Procs, RemoveOwner(p) PROVE Clean'
  <2>1. pc[p] = "removeOwner" /\ UNCHANGED <<dir, kept, litter, target, staging>>
    BY <1>22 DEF RemoveOwner, history
  <2>2. lock[ParentOf(p)].owner # NoFile
    BY <1>o, <2>1, ProcsAssumption DEF HoldSteps
  <2>3. /\ Goto(p, "removeLock")
        /\ lock' = [lock EXCEPT ![ParentOf(p)] = Lock(lock[ParentOf(p)].held, NoFile)]
    BY <1>22, <1>f, <2>2 DEF RemoveOwner
  <2>4. /\ "removeLock" \in Pcs \cap LockSteps
        /\ pc[p] \notin StagingSteps /\ "removeLock" \notin StagingSteps
    BY <2>1 DEF Pcs, Steps, LockSteps, HoldSteps, SwapSteps, StagingSteps
  <2> QED BY <1>c, <2>1, <2>3, <2>4, CleanLock, LockType, ParentType
<1>23. ASSUME NEW p \in Procs, RemoveLock(p) PROVE Clean'
  <2>1. pc[p] = "removeLock" /\ UNCHANGED <<dir, kept, litter, target, staging>>
    BY <1>23 DEF RemoveLock, history
  <2>2. lock[ParentOf(p)].held /\ lock[ParentOf(p)].owner = NoFile
    BY <2>1 DEF LockInv, LockSteps, OwnerInv, OwnerOK
  <2>3. Goto(p, "done") /\ lock' = [lock EXCEPT ![ParentOf(p)] = Free]
    BY <1>23, <1>f, <2>2 DEF RemoveLock
  <2>4. ~Free.held /\ "done" \in Pcs
    BY DEF Free, Lock, Pcs
  <2> QED BY <1>c, <2>1, <2>3, <2>4, CleanLock, LockType DEF StagingSteps
<1>24. ASSUME NEW p \in Procs, NEW o \in Outputs, Start(p, o) PROVE Clean'
  <2>1. /\ pc[p] \in {"idle", "done"} /\ pc' = [pc EXCEPT ![p] = "prepare"]
        /\ target' = [target EXCEPT ![p] = o] /\ staging' = [staging EXCEPT ![p] = Absent]
        /\ UNCHANGED <<dir, kept, lock, litter>>
    BY <1>24 DEF Start, files
  <2>2. \A q \in Procs : pc[q] \in LockSteps => q # p
    BY <2>1 DEF LockSteps, HoldSteps, SwapSteps
  <2>3. HiddenBySwap'
    BY <1>c, <2>1 DEF Clean, HiddenBySwap, TypeOK
  <2>4. LocksInUse'
    BY <1>c, <2>1, <2>2 DEF Clean, LocksInUse, TypeOK, ParentOf
  <2>5. StagingInUse' /\ NoFailedLock'
    BY <1>c, <2>1 DEF Clean, StagingInUse, NoFailedLock, TypeOK
  <2> QED BY <1>c, <2>1, <2>3, <2>4, <2>5 DEF Clean
<1>25. ASSUME NEW p \in Procs, Cancel(p) PROVE Clean'
  BY <1>c, <1>25, CleanUser DEF Cancel, files, history
<1>26. ASSUME NEW p \in Procs, Crash(p) PROVE Clean'
  BY <1>26, <1>z DEF Crash
<1>27. ASSUME NEW o \in Outputs, UserEdits(o) PROVE Clean'
  <2>1. \A x \in Outputs : dir'[x] = kept'[x] \/ (dir'[x] = dir[x] /\ kept'[x] = kept[x])
    BY <1>27 DEF UserEdits, TypeOK
  <2> QED BY <1>c, <1>27, <2>1, CleanUser DEF UserEdits, locals
<1>28. ASSUME NEW o \in Outputs, UserRestores(o) PROVE Clean'
  <2>1. \A x \in Outputs : dir'[x] = kept'[x] \/ (dir'[x] = dir[x] /\ kept'[x] = kept[x])
    BY <1>28 DEF UserRestores, TypeOK
  <2> QED BY <1>c, <1>28, <2>1, CleanUser DEF UserRestores, locals
<1>29. ASSUME NEW d \in Parents, MarkerAppears(d) PROVE Clean'
  BY <1>c, <1>29, CleanUser DEF MarkerAppears, locals, history
<1>30. ASSUME NEW d \in Parents, UserRemovesLock(d) PROVE Clean'
  <2>1. \A e \in Parents : lock'[e].held => lock[e].held
    BY <1>30 DEF UserRemovesLock, Free, Lock, TypeOK
  <2> QED BY <1>c, <1>30, <2>1, CleanUser DEF UserRemovesLock, locals, history
<1>31. CASE UNCHANGED vars
  BY <1>c, <1>31, CleanUser DEF vars, files, locals, history
<1> QED
  BY [Next]_vars, <1>1, <1>2, <1>3, <1>4, <1>5, <1>6, <1>7, <1>8, <1>9, <1>10, <1>11, <1>12, <1>13, <1>14, <1>15, <1>16, <1>17, <1>18, <1>19, <1>20, <1>21, <1>22, <1>23, <1>24, <1>25, <1>26, <1>27, <1>28, <1>29, <1>30, <1>31
     DEF Next, ProcNext, UserNext, Step

(* THEOREM.  As long as no call failed and nobody crashed, every return    *)
(* path of Build has removed its staging directory, its backup and its     *)
(* lock, and no output is hidden but by a Build that is about to fill its  *)
(* place (output.go, Build and its deferred calls, replace).               *)
THEOREM NothingIsLeftBehind ==
  ASSUME ~CarelessUser, ~EditsDuringSwap
  PROVE  Spec => []CleanUnlessFaulted
<1>1. Init => CleanInv
  BY DEF Init, CleanInv, Clean, HiddenBySwap, LocksInUse, StagingInUse, NoFailedLock, Free, Lock
<1>2. TypeOK /\ LockInv /\ OwnerInv /\ SwapInv /\ CleanInv /\ [Next]_vars => CleanInv'
  BY CleanStep, ~CarelessUser, ~EditsDuringSwap
<1>3. ASSUME TypeOK, SwapInv, CleanInv PROVE CleanUnlessFaulted
  <2> SUFFICES ASSUME faults = 0, Clean PROVE CleanUnlessFaulted
    BY <1>3 DEF CleanInv, CleanUnlessFaulted
  <2>1. \A o \in Outputs : dir[o] # kept[o] => \E p \in Procs : Swapping(p, o)
    BY DEF Clean, HiddenBySwap, Swapping, SwapSteps
  <2>2. \A p \in Procs : ~Running(p) => staging[p] = Absent /\ backup[p] = Absent
    BY <1>3 DEF Clean, StagingInUse, StagingSteps, SwapInv, SwapOK, Running, Steps, LockSteps,
                HoldSteps, SwapSteps
  <2> QED BY <2>1, <2>2 DEF CleanUnlessFaulted, Clean, LocksInUse
<1>4. Spec => []IInv
  BY Invariance, ~CarelessUser, ~EditsDuringSwap
<1>5. IInv => TypeOK /\ LockInv /\ SwapInv
  BY DEF IInv
<1> QED BY <1>1, <1>2, <1>3, <1>4, <1>5, LockInvariance, ~CarelessUser, PTL DEF Spec


=============================================================================
