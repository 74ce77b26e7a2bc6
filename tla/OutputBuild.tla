---------------------------- MODULE OutputBuild -----------------------------
(***************************************************************************)
(* output.Build (src/internal/output/output.go): how `sqltom render` and   *)
(* `sqltom generate` install a generated directory tree over an earlier    *)
(* one.  Several sqltom processes run Build at once; the module has one    *)
(* action per system call (or per run of read-only checks) of Build,       *)
(* acquireLock, replace and of the two deferred clean-ups, in the order    *)
(* the code makes them.  Any call may fail, a process may be cancelled or  *)
(* may crash at any step, and a user edits the outputs.                    *)
(*                                                                         *)
(* A directory is abstracted to what the code tells apart when it looks at *)
(* it (replaceableMode): absent, empty, a symlink, another file, non-empty *)
(* without the exact ownership marker, or non-empty with it.  The last one *)
(* is a complete generation or the remains of one.  Every generation has a *)
(* number of its own, so that an older tree is not taken for a newer one.  *)
(***************************************************************************)
EXTENDS Integers, FiniteSets

CONSTANTS
  Procs,            \* sqltom processes, each in at most one Build at a time
  Outputs,          \* resolved output paths
  Parent,           \* the directory that holds each output, and its lock
  Forbidden,        \* outputs that are the root, the working directory or above it
  NoFile,           \* the lock directory has no owner file
  Garbled,          \* the owner file was not written completely
  Failing,          \* the steps whose system call may fail
  CanCrash,         \* processes may be killed
  MaxGens,          \* bound: no Build starts once this many trees were generated
  MaxFaults,        \* bound: failed system calls and crashes
  MaxEdits,         \* bound: edits the user makes
  CarelessUser,     \* the user removes a lock although a render is running
  EditsDuringSwap   \* the user edits an output while a render is swapping it

ASSUME ProcsAssumption ==
  /\ NoFile \notin Procs
  /\ Garbled \notin Procs
  /\ NoFile # Garbled

ASSUME OutputsAssumption == Forbidden \subseteq Outputs

ASSUME BoundsAssumption ==
  /\ MaxGens \in Nat
  /\ MaxFaults \in Nat
  /\ MaxEdits \in Nat
  /\ CanCrash \in BOOLEAN
  /\ CarelessUser \in BOOLEAN
  /\ EditsDuringSwap \in BOOLEAN

Parents == {Parent[o] : o \in Outputs}

-----------------------------------------------------------------------------
(* Contents of a path. *)

Kinds == {"absent", "empty", "symlink", "file", "foreign", "partial", "managed"}
Contents == [kind : Kinds, gen : Nat]

Plain(kind) == [kind |-> kind, gen |-> 0]
Absent  == Plain("absent")
Empty   == Plain("empty")
Partial == Plain("partial")      \* has the marker, but not the whole tree
GenerationOfV2(n) == [kind |-> "marked v2", gen |-> n]      \* mutant: another marker
Generation(n) == [kind |-> "managed", gen |-> n]

UserContents == {Plain(k) : k \in {"absent", "empty", "symlink", "file", "foreign"}}

(* replaceableMode: absent, an empty directory, or the exact marker. *)
ReplaceableKinds == {"absent", "empty", "partial", "managed"}
Replaceable(c) == c.kind \in ReplaceableKinds

-----------------------------------------------------------------------------
VARIABLES
  (* the file system *)
  dir,        \* what is at each output's path
  lock,       \* the lock directory .sqltom-render.lock of each parent
  litter,     \* staging and backup directories no process looks after any more
  marked,     \* parents that are, or lie in, a directory with the marker
  (* the local variables of each process *)
  pc,         \* the call of Build it makes next
  target,     \* outputPath
  staging,    \* what its staging directory holds; Absent when it has none
  backup,     \* what its backup holds; Absent when it has none
  committed,  \* outputCommitted
  result,     \* buildErr: nil, an error, or a committedError
  cancelled,  \* ctx was cancelled
  (* history: what the properties compare the code with *)
  swapped,    \* the running or last Build of the process installed its tree
  kept,       \* the content the user is entitled to find for each output
  (* the bounds' counters *)
  gens, faults, edits

files    == <<dir, lock, litter, marked>>
locals   == <<pc, target, staging, backup, committed, result, cancelled>>
history  == <<swapped, kept>>
counters == <<gens, faults, edits>>
vars == <<files, locals, history, counters>>

Locks == [held : BOOLEAN, owner : Procs \cup {NoFile, Garbled}]
Lock(held, owner) == [held |-> held, owner |-> owner]
Free == Lock(FALSE, NoFile)

Results == {"nil", "error", "committed"}
Litter == [kind : {"staging", "backup"}, out : Outputs, was : Contents]

(* Steps between the Mkdir of the lock and the end of releaseLock. *)
SwapSteps == {"stat", "reserve", "moveOut", "moveIn", "rollback"}
HoldSteps == {"recheck", "inspect", "stage", "mark", "fill", "chmod", "swap",
              "dropBackup", "cleanStaging", "readOwner", "removeOwner"} \cup SwapSteps
LockSteps == {"writeOwner", "dropOwner", "dropLock", "removeLock"} \cup HoldSteps
Steps == {"prepare", "verify", "lock"} \cup LockSteps
Pcs == {"idle", "done"} \cup Steps

Running(p) == pc[p] \in Steps
Swapping(p, o) == target[p] = o /\ pc[p] \in SwapSteps
ParentOf(p) == Parent[target[p]]

TypeOK ==
  /\ dir \in [Outputs -> Contents]
  /\ lock \in [Parents -> Locks]
  /\ litter \subseteq Litter
  /\ marked \in [Parents -> BOOLEAN]
  /\ pc \in [Procs -> Pcs]
  /\ target \in [Procs -> Outputs]
  /\ staging \in [Procs -> Contents]
  /\ backup \in [Procs -> Contents]
  /\ committed \in [Procs -> BOOLEAN]
  /\ result \in [Procs -> Results]
  /\ cancelled \in [Procs -> BOOLEAN]
  /\ swapped \in [Procs -> BOOLEAN]
  /\ kept \in [Outputs -> Contents]
  /\ gens \in Nat
  /\ faults \in Nat
  /\ edits \in Nat

Init ==
  /\ dir \in [Outputs -> UserContents]
  /\ lock = [d \in Parents |-> Free]
  /\ litter = {}
  /\ marked = [d \in Parents |-> FALSE]
  /\ pc = [p \in Procs |-> "idle"]
  /\ target \in {[p \in Procs |-> o] : o \in Outputs}
  /\ staging = [p \in Procs |-> Absent]
  /\ backup = [p \in Procs |-> Absent]
  /\ committed = [p \in Procs |-> FALSE]
  /\ result = [p \in Procs |-> "nil"]
  /\ cancelled = [p \in Procs |-> FALSE]
  /\ swapped = [p \in Procs |-> FALSE]
  /\ kept = dir
  /\ gens = 0
  /\ faults = 0
  /\ edits = 0

-----------------------------------------------------------------------------
(* Steps of a process. *)

At(p, step) == pc[p] = step
Goto(p, step) == pc' = [pc EXCEPT ![p] = step]

(* A system call of this step fails, or none does. *)
Fault(p) == /\ pc[p] \in Failing
            /\ faults < MaxFaults
            /\ faults' = faults + 1
NoFault == UNCHANGED faults

(* `return err`: the error becomes buildErr and the deferred clean-ups from
   `step` on run; "done" when none is deferred yet. *)
Fail(p, step) ==
  /\ Goto(p, step)
  /\ result' = [result EXCEPT ![p] = "error"]

(* errors.Join(buildErr, err), err made a committedError once the output is. *)
JoinError(p) ==
  result' = [result EXCEPT ![p] = IF committed[p] THEN "committed" ELSE "error"]

(* A directory that a failed RemoveAll or a crash leaves behind. *)
Leave(kind, p, c) ==
  IF c = Absent THEN {} ELSE {[kind |-> kind, out |-> target[p], was |-> c]}

(* The command calls Build for an output. *)
Start(p, o) ==
  /\ pc[p] \in {"idle", "done"}
  /\ gens < MaxGens
  /\ Goto(p, "prepare")
  /\ target' = [target EXCEPT ![p] = o]
  /\ staging' = [staging EXCEPT ![p] = Absent]
  /\ backup' = [backup EXCEPT ![p] = Absent]
  /\ committed' = [committed EXCEPT ![p] = FALSE]
  /\ result' = [result EXCEPT ![p] = "nil"]
  /\ cancelled' = [cancelled EXCEPT ![p] = FALSE]
  /\ swapped' = [swapped EXCEPT ![p] = FALSE]
  /\ UNCHANGED <<files, kept, counters>>

(* SIGINT or SIGTERM cancels ctx; Build notices where it looks at ctx.Err. *)
Cancel(p) ==
  /\ Running(p)
  /\ ~cancelled[p]
  /\ cancelled' = [cancelled EXCEPT ![p] = TRUE]
  /\ UNCHANGED <<files, pc, target, staging, backup, committed, result,
                 history, counters>>

(* ctx.Err, safePath, rejectManagedAncestor and MkdirAll(parent); a failure of
   any of them returns before the lock is looked at. *)
PathRefused(p) ==
  \/ dir[target[p]].kind = "symlink"
  \/ target[p] \in Forbidden
  \/ marked[ParentOf(p)]

Prepare(p) ==
  /\ At(p, "prepare")
  /\ \/ cancelled[p] /\ NoFault /\ Fail(p, "done")
     \/ PathRefused(p) /\ NoFault /\ Fail(p, "done")
     \/ Fault(p) /\ Fail(p, "done")
     \/ ~cancelled[p] /\ ~PathRefused(p) /\ NoFault /\ Goto(p, "verify") /\ UNCHANGED result
  /\ UNCHANGED <<files, target, staging, backup, committed, cancelled,
                 history, gens, edits>>

(* The same checks on the parent that now exists, then ctx.Err.  A path that
   resolves differently from the first time is one of the failures. *)
Verify(p) ==
  /\ At(p, "verify")
  /\ \/ cancelled[p] /\ NoFault /\ Fail(p, "done")
     \/ PathRefused(p) /\ NoFault /\ Fail(p, "done")
     \/ Fault(p) /\ Fail(p, "done")
     \/ ~cancelled[p] /\ ~PathRefused(p) /\ NoFault /\ Goto(p, "lock") /\ UNCHANGED result
  /\ UNCHANGED <<files, target, staging, backup, committed, cancelled,
                 history, gens, edits>>

(* Mutant of TakeLock: MkdirAll, which does not mind that the lock exists. *)
TakeLockMkdirAll(p) ==
  /\ At(p, "lock")
  /\ lock' = [lock EXCEPT ![ParentOf(p)] = Lock(TRUE, @.owner)]
  /\ NoFault
  /\ Goto(p, "writeOwner")
  /\ UNCHANGED <<dir, litter, marked, target, staging, backup, committed, result,
                 cancelled, history, gens, edits>>

(* Mutant of TakeLock: the clean-up of a failed acquisition runs after EEXIST too. *)
TakeLockCleansUp(p) ==
  LET d == ParentOf(p) IN
  /\ At(p, "lock")
  /\ \/ /\ ~lock[d].held
        /\ lock' = [lock EXCEPT ![d] = Lock(TRUE, NoFile)]
        /\ Goto(p, "writeOwner")
        /\ UNCHANGED result
     \/ lock[d].held /\ Fail(p, "dropOwner") /\ UNCHANGED lock
  /\ UNCHANGED <<dir, litter, marked, target, staging, backup, committed, cancelled,
                 history, counters>>

(* acquireLock: Mkdir of the lock directory, which EEXIST makes exclusive. *)
TakeLock(p) ==
  LET d == ParentOf(p) IN
  /\ At(p, "lock")
  /\ \/ /\ ~lock[d].held
        /\ lock' = [lock EXCEPT ![d] = Lock(TRUE, NoFile)]
        /\ NoFault
        /\ Goto(p, "writeOwner")
        /\ UNCHANGED result
     \/ lock[d].held /\ NoFault /\ Fail(p, "done") /\ UNCHANGED lock
     \/ Fault(p) /\ Fail(p, "done") /\ UNCHANGED lock
  /\ UNCHANGED <<dir, litter, marked, target, staging, backup, committed, cancelled,
                 history, gens, edits>>

(* acquireLock: the random token in the owner file.  A token is new for each
   acquisition; the process stands for it, since a process runs one Build at a
   time and cannot lock a parent that an earlier Build of its own left locked. *)
WriteOwner(p) ==
  LET d == ParentOf(p) IN
  /\ At(p, "writeOwner")
  /\ \/ /\ lock[d].held
        /\ lock' = [lock EXCEPT ![d] = Lock(TRUE, p)]
        /\ NoFault
        /\ Goto(p, "recheck")
        /\ UNCHANGED result
     \/ ~lock[d].held /\ NoFault /\ Fail(p, "dropOwner") /\ UNCHANGED lock
     \/ /\ lock[d].held
        /\ Fault(p)
        /\ Fail(p, "dropOwner")
        /\ \/ UNCHANGED lock
           \/ lock' = [lock EXCEPT ![d] = Lock(TRUE, Garbled)]
  /\ UNCHANGED <<dir, litter, marked, target, staging, backup, committed, cancelled,
                 history, gens, edits>>

(* acquireLock after a failed WriteFile: Remove(ownerPath), then Remove(lockPath),
   which fails on a directory that is not empty. *)
DropOwner(p) ==
  LET d == ParentOf(p) IN
  /\ At(p, "dropOwner")
  /\ Goto(p, "dropLock")
  /\ \/ NoFault /\ lock' = [lock EXCEPT ![d] = Lock(@.held, NoFile)]
     \/ Fault(p) /\ UNCHANGED lock
  /\ UNCHANGED <<dir, litter, marked, target, staging, backup, committed, result,
                 cancelled, history, gens, edits>>

DropLock(p) ==
  LET d == ParentOf(p) IN
  /\ At(p, "dropLock")
  /\ Fail(p, "done")
  /\ \/ lock[d].owner = NoFile /\ NoFault /\ lock' = [lock EXCEPT ![d] = Free]
     \/ lock[d].owner # NoFile /\ NoFault /\ UNCHANGED lock
     \/ Fault(p) /\ UNCHANGED lock
  /\ UNCHANGED <<dir, litter, marked, target, staging, backup, committed, cancelled,
                 history, gens, edits>>

(* Mutant of Recheck: the refusal returns before releaseLock is deferred. *)
RecheckKeepsLock(p) ==
  /\ At(p, "recheck")
  /\ \/ marked[ParentOf(p)] /\ Fail(p, "done")
     \/ ~marked[ParentOf(p)] /\ Goto(p, "inspect") /\ UNCHANGED result
  /\ UNCHANGED <<files, target, staging, backup, committed, cancelled, history, counters>>

(* "An ancestor render may have committed between path preparation and lock
   acquisition": rejectManagedAncestor once more, under the lock. *)
Recheck(p) ==
  /\ At(p, "recheck")
  /\ \/ marked[ParentOf(p)] /\ NoFault /\ Fail(p, "readOwner")
     \/ Fault(p) /\ Fail(p, "readOwner")
     \/ ~marked[ParentOf(p)] /\ NoFault /\ Goto(p, "inspect") /\ UNCHANGED result
  /\ UNCHANGED <<files, target, staging, backup, committed, cancelled,
                 history, gens, edits>>

(* replaceableMode, whose permission bits are left out. *)
Inspect(p) ==
  LET ok == Replaceable(dir[target[p]]) IN
  /\ At(p, "inspect")
  /\ \/ ~ok /\ NoFault /\ Fail(p, "readOwner")
     \/ Fault(p) /\ Fail(p, "readOwner")
     \/ ok /\ NoFault /\ Goto(p, "stage") /\ UNCHANGED result
  /\ UNCHANGED <<files, target, staging, backup, committed, cancelled,
                 history, gens, edits>>

(* MkdirTemp of the staging directory, from here on removed by a deferred call. *)
Stage(p) ==
  /\ At(p, "stage")
  /\ \/ /\ NoFault
        /\ staging' = [staging EXCEPT ![p] = Empty]
        /\ Goto(p, "mark")
        /\ UNCHANGED result
     \/ Fault(p) /\ Fail(p, "readOwner") /\ UNCHANGED staging
  /\ UNCHANGED <<files, target, backup, committed, cancelled, history, gens, edits>>

(* The ownership marker goes into the staging directory first. *)
Mark(p) ==
  /\ At(p, "mark")
  /\ \/ /\ NoFault
        /\ staging' = [staging EXCEPT ![p] = Partial]
        /\ Goto(p, "fill")
        /\ UNCHANGED result
     \/ Fault(p) /\ Fail(p, "cleanStaging") /\ UNCHANGED staging
  /\ UNCHANGED <<files, target, backup, committed, cancelled, history, gens, edits>>

(* Mutant of Fill: the callback's error is dropped. *)
FillUnchecked(p) ==
  /\ At(p, "fill")
  /\ gens' = gens + 1
  /\ staging' \in {[staging EXCEPT ![p] = c] : c \in {Generation(gens'), Partial}}
  /\ Goto(p, "chmod")
  /\ UNCHANGED <<files, target, backup, committed, result, cancelled, history, faults, edits>>

(* The callback renders the tree.  It may fail half-way (a template, a table,
   the disk) and it looks at ctx itself. *)
Fill(p) ==
  /\ At(p, "fill")
  /\ \/ /\ NoFault
        /\ gens' = gens + 1
        /\ staging' = [staging EXCEPT ![p] = Generation(gens')]
        /\ Goto(p, "chmod")
        /\ UNCHANGED result
     \/ cancelled[p] /\ NoFault /\ Fail(p, "cleanStaging") /\ UNCHANGED <<staging, gens>>
     \/ Fault(p) /\ Fail(p, "cleanStaging") /\ UNCHANGED <<staging, gens>>
  /\ UNCHANGED <<files, target, backup, committed, cancelled, history, edits>>

(* Mutant of SetMode: cancellation returns past the deferred RemoveAll(staging). *)
SetModeLeavesStaging(p) ==
  /\ At(p, "chmod")
  /\ \/ cancelled[p] /\ Fail(p, "readOwner")
     \/ ~cancelled[p] /\ Goto(p, "swap") /\ UNCHANGED result
  /\ UNCHANGED <<files, target, staging, backup, committed, cancelled, history, counters>>

(* ctx.Err, then Chmod. *)
SetMode(p) ==
  /\ At(p, "chmod")
  /\ \/ cancelled[p] /\ NoFault /\ Fail(p, "cleanStaging")
     \/ ~cancelled[p] /\ Fault(p) /\ Fail(p, "cleanStaging")
     \/ ~cancelled[p] /\ NoFault /\ Goto(p, "swap") /\ UNCHANGED result
  /\ UNCHANGED <<files, target, staging, backup, committed, cancelled,
                 history, gens, edits>>

(* Mutant of BeginSwap: replace relies on the replaceableMode of before the callback. *)
BeginSwapUnchecked(p) ==
  /\ At(p, "swap")
  /\ ~cancelled[p]
  /\ Goto(p, "stat")
  /\ UNCHANGED <<files, target, staging, backup, committed, result, cancelled,
                 history, counters>>

(* The last ctx.Err, then replace: replaceableMode again, now that the
   callback has taken its time. *)
BeginSwap(p) ==
  LET ok == ~cancelled[p] /\ Replaceable(dir[target[p]]) IN
  /\ At(p, "swap")
  /\ \/ ~ok /\ NoFault /\ Fail(p, "cleanStaging")
     \/ Fault(p) /\ Fail(p, "cleanStaging")
     \/ ok /\ NoFault /\ Goto(p, "stat") /\ UNCHANGED result
  /\ UNCHANGED <<files, target, staging, backup, committed, cancelled,
                 history, gens, edits>>

(* replace: Lstat decides whether there is something to set aside. *)
Stat(p) ==
  /\ At(p, "stat")
  /\ \/ dir[target[p]] = Absent /\ NoFault /\ Goto(p, "moveIn") /\ UNCHANGED result
     \/ dir[target[p]] # Absent /\ NoFault /\ Goto(p, "reserve") /\ UNCHANGED result
     \/ Fault(p) /\ Fail(p, "cleanStaging")
  /\ UNCHANGED <<files, target, staging, backup, committed, cancelled,
                 history, gens, edits>>

(* replace: MkdirTemp and Remove find a free name for the backup; when the
   Remove fails the empty directory stays. *)
Reserve(p) ==
  /\ At(p, "reserve")
  /\ \/ NoFault /\ Goto(p, "moveOut") /\ UNCHANGED <<litter, result>>
     \/ /\ Fault(p)
        /\ Fail(p, "cleanStaging")
        /\ litter' \in {litter, litter \cup Leave("backup", p, Empty)}
  /\ UNCHANGED <<dir, lock, marked, target, staging, backup, committed, cancelled,
                 history, gens, edits>>

(* replace: Rename(output, backup). *)
MoveOut(p) ==
  LET o == target[p] IN
  /\ At(p, "moveOut")
  /\ \/ /\ dir[o] # Absent
        /\ NoFault
        /\ backup' = [backup EXCEPT ![p] = dir[o]]
        /\ dir' = [dir EXCEPT ![o] = Absent]
        /\ Goto(p, "moveIn")
        /\ UNCHANGED result
     \/ dir[o] = Absent /\ NoFault /\ Fail(p, "cleanStaging") /\ UNCHANGED <<dir, backup>>
     \/ Fault(p) /\ Fail(p, "cleanStaging") /\ UNCHANGED <<dir, backup>>
  /\ UNCHANGED <<lock, litter, marked, target, staging, committed, cancelled,
                 history, gens, edits>>

(* replace: Rename(staging, output).  Rename of a directory fails when there is
   anything at the new name; with a backup the failure leads to the rollback. *)
MoveIn(p) ==
  LET o == target[p]
      next == IF backup[p] = Absent THEN "cleanStaging" ELSE "rollback" IN
  /\ At(p, "moveIn")
  /\ \/ /\ dir[o] = Absent
        /\ NoFault
        /\ dir' = [dir EXCEPT ![o] = staging[p]]
        /\ kept' = [kept EXCEPT ![o] = staging[p]]
        /\ staging' = [staging EXCEPT ![p] = Absent]
        /\ swapped' = [swapped EXCEPT ![p] = TRUE]
        /\ UNCHANGED result
        /\ \/ /\ backup[p] = Absent
              /\ committed' = [committed EXCEPT ![p] = TRUE]
              /\ Goto(p, "readOwner")
           \/ backup[p] # Absent /\ Goto(p, "dropBackup") /\ UNCHANGED committed
     \/ /\ dir[o] # Absent
        /\ NoFault
        /\ Fail(p, next)
        /\ UNCHANGED <<dir, staging, committed, history>>
     \/ /\ Fault(p)
        /\ Fail(p, next)
        /\ UNCHANGED <<dir, staging, committed, history>>
  /\ UNCHANGED <<lock, litter, marked, target, backup, cancelled, gens, edits>>

(* Mutant of Rollback: the backup is removed, not renamed back. *)
RollbackRemoves(p) ==
  /\ At(p, "rollback")
  /\ Goto(p, "cleanStaging")
  /\ backup' = [backup EXCEPT ![p] = Absent]
  /\ UNCHANGED <<files, target, staging, committed, result, cancelled, history, counters>>

(* replace: Rename(backup, output) puts the previous tree back, or leaves it
   under the backup's name, which the error names. *)
Rollback(p) ==
  LET o == target[p] IN
  /\ At(p, "rollback")
  /\ Goto(p, "cleanStaging")
  /\ backup' = [backup EXCEPT ![p] = Absent]
  /\ \/ /\ dir[o] = Absent
        /\ NoFault
        /\ dir' = [dir EXCEPT ![o] = backup[p]]
        /\ UNCHANGED litter
     \/ /\ dir[o] # Absent
        /\ NoFault
        /\ litter' = litter \cup Leave("backup", p, backup[p])
        /\ UNCHANGED dir
     \/ /\ Fault(p)
        /\ litter' = litter \cup Leave("backup", p, backup[p])
        /\ UNCHANGED dir
  /\ UNCHANGED <<lock, marked, target, staging, committed, result, cancelled,
                 history, gens, edits>>

(* Mutant of DropBackup: replace returns committed = false with the error. *)
DropBackupUncommitted(p) ==
  /\ At(p, "dropBackup")
  /\ Goto(p, "readOwner")
  /\ backup' = [backup EXCEPT ![p] = Absent]
  /\ \/ /\ NoFault
        /\ committed' = [committed EXCEPT ![p] = TRUE]
        /\ UNCHANGED <<litter, result>>
     \/ /\ Fault(p)
        /\ litter' = litter \cup Leave("backup", p, backup[p])
        /\ result' = [result EXCEPT ![p] = "error"]
        /\ UNCHANGED committed
  /\ UNCHANGED <<dir, lock, marked, target, staging, cancelled, history, gens, edits>>

(* replace: RemoveAll(backup) after the new tree is in place; what a failed
   RemoveAll leaves is all of it or a part.  replace returns committed = true. *)
DropBackup(p) ==
  /\ At(p, "dropBackup")
  /\ Goto(p, "readOwner")
  /\ backup' = [backup EXCEPT ![p] = Absent]
  /\ committed' = [committed EXCEPT ![p] = TRUE]
  /\ \/ NoFault /\ UNCHANGED <<litter, result>>
     \/ /\ Fault(p)
        /\ \E left \in {backup[p], Partial} : litter' = litter \cup Leave("backup", p, left)
        /\ result' = [result EXCEPT ![p] = "committed"]
  /\ UNCHANGED <<dir, lock, marked, target, staging, cancelled, history, gens, edits>>

(* The deferred RemoveAll(staging) of a Build that did not commit. *)
CleanStaging(p) ==
  /\ At(p, "cleanStaging")
  /\ Goto(p, "readOwner")
  /\ staging' = [staging EXCEPT ![p] = Absent]
  /\ \/ NoFault /\ UNCHANGED <<litter, result>>
     \/ Fault(p) /\ litter' = litter \cup Leave("staging", p, staging[p]) /\ JoinError(p)
  /\ UNCHANGED <<dir, lock, marked, target, backup, committed, cancelled,
                 history, gens, edits>>

(* Mutant of ReadOwner: an owner file that can be read is enough. *)
ReadOwnerUnchecked(p) ==
  LET present == lock[ParentOf(p)].owner # NoFile IN
  /\ At(p, "readOwner")
  /\ \/ present /\ Goto(p, "removeOwner") /\ UNCHANGED result
     \/ ~present /\ Goto(p, "done") /\ JoinError(p)
  /\ UNCHANGED <<files, target, staging, backup, committed, cancelled, history, counters>>

(* The deferred releaseLock: the owner file must hold this Build's token. *)
ReadOwner(p) ==
  LET mine == lock[ParentOf(p)].owner = p IN
  /\ At(p, "readOwner")
  /\ \/ mine /\ NoFault /\ Goto(p, "removeOwner") /\ UNCHANGED result
     \/ ~mine /\ NoFault /\ Goto(p, "done") /\ JoinError(p)
     \/ Fault(p) /\ Goto(p, "done") /\ JoinError(p)
  /\ UNCHANGED <<files, target, staging, backup, committed, cancelled,
                 history, gens, edits>>

RemoveOwner(p) ==
  LET d == ParentOf(p) IN
  /\ At(p, "removeOwner")
  /\ \/ /\ lock[d].owner # NoFile
        /\ NoFault
        /\ lock' = [lock EXCEPT ![d] = Lock(@.held, NoFile)]
        /\ Goto(p, "removeLock")
        /\ UNCHANGED result
     \/ lock[d].owner = NoFile /\ NoFault /\ Goto(p, "done") /\ JoinError(p) /\ UNCHANGED lock
     \/ Fault(p) /\ Goto(p, "done") /\ JoinError(p) /\ UNCHANGED lock
  /\ UNCHANGED <<dir, litter, marked, target, staging, backup, committed, cancelled,
                 history, gens, edits>>

RemoveLock(p) ==
  LET d == ParentOf(p)
      ok == lock[d].held /\ lock[d].owner = NoFile IN
  /\ At(p, "removeLock")
  /\ Goto(p, "done")
  /\ \/ ok /\ NoFault /\ lock' = [lock EXCEPT ![d] = Free] /\ UNCHANGED result
     \/ ~ok /\ NoFault /\ JoinError(p) /\ UNCHANGED lock
     \/ Fault(p) /\ JoinError(p) /\ UNCHANGED lock
  /\ UNCHANGED <<dir, litter, marked, target, staging, backup, committed, cancelled,
                 history, gens, edits>>

(* One call of a running Build. *)
Step(p) ==
  \/ Prepare(p) \/ Verify(p) \/ TakeLock(p) \/ WriteOwner(p) \/ DropOwner(p) \/ DropLock(p)
  \/ Recheck(p) \/ Inspect(p) \/ Stage(p) \/ Mark(p) \/ Fill(p) \/ SetMode(p)
  \/ BeginSwap(p) \/ Stat(p) \/ Reserve(p) \/ MoveOut(p) \/ MoveIn(p) \/ Rollback(p)
  \/ DropBackup(p) \/ CleanStaging(p) \/ ReadOwner(p) \/ RemoveOwner(p) \/ RemoveLock(p)

(* The process is killed: its lock, staging directory and backup stay. *)
Crash(p) ==
  /\ CanCrash
  /\ Running(p)
  /\ faults < MaxFaults
  /\ faults' = faults + 1
  /\ Goto(p, "idle")
  /\ litter' = litter \cup Leave("staging", p, staging[p]) \cup Leave("backup", p, backup[p])
  /\ staging' = [staging EXCEPT ![p] = Absent]
  /\ backup' = [backup EXCEPT ![p] = Absent]
  /\ UNCHANGED <<dir, lock, marked, target, committed, result, cancelled,
                 history, gens, edits>>

-----------------------------------------------------------------------------
(* The user. *)

MayEdit(o) == EditsDuringSwap \/ \A p \in Procs : ~Swapping(p, o)

UserEdits(o) ==
  /\ edits < MaxEdits
  /\ edits' = edits + 1
  /\ MayEdit(o)
  /\ \E c \in UserContents \ {dir[o]} :
       /\ dir' = [dir EXCEPT ![o] = c]
       /\ kept' = [kept EXCEPT ![o] = c]
  /\ UNCHANGED <<lock, litter, marked, locals, swapped, gens, faults>>

(* A backup that a failed rollback or a crash left is renamed back by hand. *)
UserRestores(o) ==
  /\ edits < MaxEdits
  /\ edits' = edits + 1
  /\ dir[o] = Absent
  /\ MayEdit(o)
  /\ \E l \in litter :
       /\ l.out = o
       /\ l.kind = "backup"
       /\ l.was # Partial
       /\ dir' = [dir EXCEPT ![o] = l.was]
       /\ kept' = [kept EXCEPT ![o] = l.was]
       /\ litter' = litter \ {l}
  /\ UNCHANGED <<lock, marked, locals, swapped, gens, faults>>

(* The parent comes to lie in a managed output (ancestor renders are the
   subject of module NestedOutput; here the marker just appears). *)
MarkerAppears(d) ==
  /\ ~marked[d]
  /\ marked' = [marked EXCEPT ![d] = TRUE]
  /\ UNCHANGED <<dir, lock, litter, locals, history, counters>>

(* "if no render is running, remove stale lock" *)
UserRemovesLock(d) ==
  /\ lock[d].held
  /\ CarelessUser \/ \A p \in Procs : Running(p) => ParentOf(p) # d
  /\ lock' = [lock EXCEPT ![d] = Free]
  /\ UNCHANGED <<dir, litter, marked, locals, history, counters>>

-----------------------------------------------------------------------------
ProcNext(p) == Step(p) \/ Cancel(p) \/ Crash(p) \/ \E o \in Outputs : Start(p, o)
UserNext ==
  \/ \E o \in Outputs : UserEdits(o) \/ UserRestores(o)
  \/ \E d \in Parents : MarkerAppears(d) \/ UserRemovesLock(d)

Next == (\E p \in Procs : ProcNext(p)) \/ UserNext

Spec == Init /\ [][Next]_vars

(* A process that is running goes on: every call of Build returns, and the
   callback renders finitely many tables.  Nobody has to start a Build, cancel
   one, crash or edit anything. *)
Fairness == \A p \in Procs : WF_vars(Step(p))
FairSpec == Spec /\ Fairness

-----------------------------------------------------------------------------
(* Properties.  The careful user is ~CarelessUser /\ ~EditsDuringSwap. *)

(* Two renders never work in one parent at a time: from the Mkdir of the lock
   to the last step of releaseLock a Build excludes every other one there. *)
MutualExclusion ==
  \A p, q \in Procs :
    (p # q /\ pc[p] \in LockSteps /\ pc[q] \in LockSteps) => ParentOf(p) # ParentOf(q)

(* A Build takes a lock away only from itself: the owner file with another
   running Build's token goes only when that Build removes it. *)
ReleasesOwnLock ==
  [][\A q \in Procs :
       (Running(q) /\ lock[ParentOf(q)].owner = q /\ lock'[ParentOf(q)].owner # q)
         => At(q, "removeOwner")]_vars

(* Whatever fails, and whoever crashes where, the content the user last had at
   an output (put there by a commit or by himself) is at the output's path, or
   the path is absent and the whole content is in a backup next to it. *)
Recoverable ==
  \A o \in Outputs :
    \/ dir[o] = kept[o]
    \/ /\ dir[o] = Absent
       /\ \/ \E p \in Procs : target[p] = o /\ backup[p] = kept[o]
          \/ [kind |-> "backup", out |-> o, was |-> kept[o]] \in litter

(* "A non-empty directory is replaced only if it contains the exact marker":
   only the user changes a symlink, a file or an unmarked directory, although
   the check is made before the callback runs and the swap comes after it. *)
UnmanagedUntouched ==
  [][\A o \in Outputs :
       (~Replaceable(dir[o]) /\ dir'[o] # dir[o]) => edits' = edits + 1]_vars

(* A tree that a render failed to finish is never visible at an output, not
   even for the moment between the two renames. *)
NoPartialOutput == \A o \in Outputs : dir[o].kind # "partial"

(* The error Build returns says whether the new tree is active: nil and a
   committedError when this Build's rename of it took place, a plain error
   when it did not, whatever the deferred clean-ups ran into. *)
TruthfulResult ==
  \A p \in Procs : pc[p] = "done" => (swapped[p] <=> result[p] # "error")

(* Without a failed call or a crash nothing is left behind on any return path:
   no staging or backup directory, no hidden output, no lock that no running
   Build accounts for. *)
CleanUnlessFaulted ==
  faults = 0 =>
    /\ litter = {}
    /\ \A o \in Outputs : dir[o] # kept[o] => \E p \in Procs : Swapping(p, o)
    /\ \A d \in Parents : lock[d].held =>
         \E p \in Procs : pc[p] \in LockSteps /\ ParentOf(p) = d
    /\ \A p \in Procs : ~Running(p) => staging[p] = Absent /\ backup[p] = Absent

(* The staging and backup directories that lie next to an output, whether a
   Build looks after them or not: a crash changes nothing of them. *)
Beside(o) ==
  {l \in litter : l.out = o} \cup
  UNION {Leave("staging", p, staging[p]) \cup Leave("backup", p, backup[p]) :
           p \in {q \in Procs : target[q] = o}}

(* Only the Build that holds the parent's lock, or the user, changes what is
   at an output's path or in the staging and backup directories next to it. *)
OnlyHolderWrites ==
  [][\A o \in Outputs : (dir'[o] # dir[o] \/ Beside(o)' # Beside(o)) =>
       \/ \E p \in Procs : target[p] = o /\ lock[Parent[o]].owner = p /\ pc'[p] # pc[p]
       \/ edits' = edits + 1]_vars

(* Even when locks are removed by hand under running Builds, no Build takes a
   lock with another running Build's token away, except where the code has two
   calls that the removal can come between: its own acquisition, and a release
   that read its own token.  A release that reads another token stops there. *)
ReleasesOnlyFound ==
  [][\A p \in Procs :
       /\ (pc[p] # "removeOwner" /\ pc'[p] = "removeOwner") => lock[ParentOf(p)].owner = p
       /\ \A q \in Procs \ {p} :
            (/\ Running(q)
             /\ lock[ParentOf(q)].owner = q
             /\ lock'[ParentOf(q)].owner # q
             /\ pc'[p] # pc[p])
              => pc[p] \in {"writeOwner", "dropOwner", "removeOwner"}]_vars

(* When the calls that release the lock do not fail and nobody crashes, every
   lock is released, on every return path of Build. *)
LockReleased == \A d \in Parents : lock[d].held ~> ~lock[d].held

(* The outputs behave like contents that are replaced in one step. *)
Atomic == INSTANCE AtomicOutput WITH
  MayReplace  <- {c \in Contents : Replaceable(c)},
  Generations <- {c \in Contents : c.kind = "managed"},
  content <- kept,
  inPlace <- [o \in Outputs |-> dir[o] = kept[o]]

AtomicSpec == Atomic!Spec

-----------------------------------------------------------------------------
(* The inductive invariant behind MutualExclusion, Recoverable and AtomicSpec. *)

(* What holding the lock means, for a careful user. *)
LockInv ==
  /\ MutualExclusion
  /\ \A p \in Procs : pc[p] \in LockSteps => lock[ParentOf(p)].held
  /\ \A p \in Procs : pc[p] \in HoldSteps => lock[ParentOf(p)].owner = p

(* Where a Build has its trees at each step: what it is about to install is
   complete, and between the two renames the previous content is its backup. *)
SwapOK(p) ==
  /\ pc[p] \in {"chmod", "swap", "stat", "reserve", "moveOut", "moveIn"}
       => staging[p].kind = "managed"
  /\ backup[p] # Absent => pc[p] \in {"moveIn", "rollback", "dropBackup"}
  /\ pc[p] = "rollback" => backup[p] # Absent
  /\ pc[p] \in {"stat", "reserve", "moveOut"} => Replaceable(dir[target[p]])
  /\ pc[p] \in {"moveIn", "rollback"} =>
       /\ dir[target[p]] = Absent
       /\ backup[p] # Absent => backup[p] = kept[target[p]]
  /\ pc[p] = "dropBackup" => dir[target[p]] = kept[target[p]]

SwapInv == \A p \in Procs : SwapOK(p)

(* An output is in place, or it is hidden and was replaceable. *)
HiddenInv ==
  \A o \in Outputs : dir[o] = kept[o] \/ (dir[o] = Absent /\ Replaceable(kept[o]))

IInv == TypeOK /\ LockInv /\ SwapInv /\ HiddenInv /\ Recoverable
=============================================================================
