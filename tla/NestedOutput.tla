---------------------------- MODULE NestedOutput ----------------------------
(***************************************************************************)
(* output.Build (src/internal/output/output.go) for a directory and for    *)
(* another one below it: `gen` and `gen/models`.  The render of `gen`      *)
(* works next to gen, so it shares no lock with the renders of gen/models, *)
(* whose lock, staging directory and backup all lie inside gen, and it     *)
(* renames gen away with whatever is in it.  Between the two stand only    *)
(* the checks of Build: an unmarked gen is replaced only when it is empty, *)
(* and nothing is rendered into a marked one.                              *)
(*                                                                         *)
(* Every call reaches gen by its path, so it acts on the tree that is at   *)
(* the path when it is made.  No call fails here but for what the other    *)
(* builds did; failures, cancellation and crashes of one Build are in      *)
(* OutputBuild, whose step names this module shares.                       *)
(***************************************************************************)
EXTENDS Integers, FiniteSets

CONSTANTS
  Inner,        \* the processes that render gen/models, once each
  MaxRenders,   \* bound: renders of gen
  Nobody,       \* of an absent output: nobody put it there
  Earlier,      \* of an output: a render that was over before
  User          \* of an output: the user, without a marker

ASSUME InnerAssumption ==
  /\ {Nobody, Earlier, User} \cap Inner = {}
  /\ Cardinality({Nobody, Earlier, User}) = 3
  /\ \A d \in Inner : d \notin {"free", "unowned"}

ASSUME MaxRendersAssumption == MaxRenders \in Nat

-----------------------------------------------------------------------------
(* The tree at gen. *)

Origins == {Nobody, Earlier, User} \cup Inner
Subs == [from : Origins, marked : BOOLEAN]
NoSub == [from |-> Nobody, marked |-> FALSE]
Subtree(from, marked) == [from |-> from, marked |-> marked]

Trees == [there : BOOLEAN,                              \* there is a directory
          gen : 0 .. MaxRenders + 1,                    \* the render of gen it is of; 0: no marker
          lock : {"free", "unowned"} \cup Inner,        \* gen/.sqltom-render.lock
          sub : Subs,                                   \* gen/models
          stages : [Inner -> {"none", "unmarked", "marked"}], \* gen/.sqltom-render-*
          backups : [Inner -> Subs]]                    \* gen/.sqltom-backup-*

Made(gen) == [there |-> TRUE, gen |-> gen, lock |-> "free", sub |-> NoSub,
              stages |-> [d \in Inner |-> "none"], backups |-> [d \in Inner |-> NoSub]]
Gone == [Made(0) EXCEPT !.there = FALSE]
Bare == Made(0)

(* replaceableMode of gen: absent, empty, or marked. *)
Replaceable(tree) == tree \in {Gone, Bare} \/ tree.gen > 0

(* replaceableMode of gen/models. *)
SubReplaceable(tree) == tree.sub = NoSub \/ tree.sub.marked

(* rejectManagedAncestor of gen/models. *)
Managed(tree) == tree.there /\ tree.gen > 0

(* os.MkdirAll of something in gen. *)
MkdirAll(tree) == IF tree.there THEN tree ELSE Bare

-----------------------------------------------------------------------------
VARIABLES
  outer,      \* what is at gen
  (* the render of gen *)
  apc,        \* the call of Build it makes next
  abackup,    \* the previous gen, set aside
  renders,    \* renders of gen so far
  stranded,   \* previous trees a failed rollback left under a backup's name
  (* the renders of gen/models *)
  pc,         \* the call of Build each makes next
  saved,      \* backup # ""
  result,     \* buildErr
  (* history: what the properties compare the code with *)
  kept,       \* the last tree a render installed at gen
  into,       \* the gen that each render of gen/models installed its tree in; -1: none
  overtaken   \* that happened between the last look of a render of gen and its rename

ancestor == <<apc, abackup, renders, stranded, kept>>
inner    == <<pc, saved, result, into, overtaken>>
vars == <<outer, ancestor, inner>>

ASteps == {"inspect", "swap", "stat", "moveOut", "moveIn", "rollback", "dropBackup"}
LockSteps == {"writeOwner", "dropOwner", "dropLock", "recheck", "inspect", "stage", "mark",
              "fill", "write", "chmod", "swap", "stat", "moveOut", "moveIn", "rollback",
              "dropBackup", "cleanStaging", "readOwner", "removeOwner", "removeLock"}
Steps == {"prepare", "mkdir", "verify", "lock"} \cup LockSteps

TypeOK ==
  /\ outer \in Trees
  /\ apc \in {"idle"} \cup ASteps
  /\ abackup \in Trees
  /\ renders \in 0 .. MaxRenders
  /\ stranded \subseteq 0 .. MaxRenders + 1
  /\ pc \in [Inner -> {"done"} \cup Steps]
  /\ saved \in [Inner -> BOOLEAN]
  /\ result \in [Inner -> {"nil", "error", "committed"}]
  /\ kept \in 0 .. MaxRenders + 1
  /\ into \in [Inner -> -1 .. MaxRenders + 1]
  /\ overtaken \subseteq Inner

(* gen is absent, empty, of an earlier render, or holds gen/models alone. *)
Init ==
  /\ outer \in {Gone, Bare, Made(1)} \cup
               {[Bare EXCEPT !.sub = s] : s \in {Subtree(Earlier, TRUE), Subtree(User, FALSE)}}
  /\ apc = "idle"
  /\ abackup = Gone
  /\ renders = 0
  /\ stranded = {}
  /\ pc = [d \in Inner |-> "prepare"]
  /\ saved = [d \in Inner |-> FALSE]
  /\ result = [d \in Inner |-> "nil"]
  /\ kept = outer.gen
  /\ into = [d \in Inner |-> -1]
  /\ overtaken = {}

-----------------------------------------------------------------------------
(* The render of gen. *)

AStep(from, to) == apc = from /\ apc' = to

AStart ==
  /\ renders < MaxRenders
  /\ renders' = renders + 1
  /\ AStep("idle", "inspect")
  /\ UNCHANGED <<outer, abackup, stranded, kept, inner>>

(* replaceableMode, then the staging directory next to gen and the callback. *)
AInspect ==
  /\ AStep("inspect", IF Replaceable(outer) THEN "swap" ELSE "idle")
  /\ UNCHANGED <<outer, abackup, renders, stranded, kept, inner>>

(* replaceableMode once more: the last look at gen. *)
ASwap ==
  /\ AStep("swap", IF Replaceable(outer) THEN "stat" ELSE "idle")
  /\ UNCHANGED <<outer, abackup, renders, stranded, kept, inner>>

AStat ==
  /\ AStep("stat", IF outer.there THEN "moveOut" ELSE "moveIn")
  /\ UNCHANGED <<outer, abackup, renders, stranded, kept, inner>>

(* Rename(gen, backup), with all that is in it by now. *)
AMoveOut ==
  /\ AStep("moveOut", IF outer.there THEN "moveIn" ELSE "idle")
  /\ abackup' = outer
  /\ outer' = Gone
  /\ UNCHANGED <<renders, stranded, kept, inner>>

(* Rename(staging, gen), which fails when a render of gen/models has made gen
   anew in the meantime. *)
AMoveIn ==
  /\ \/ /\ ~outer.there
        /\ outer' = Made(renders + 1)
        /\ kept' = renders + 1
        /\ AStep("moveIn", IF abackup.there THEN "dropBackup" ELSE "idle")
     \/ /\ outer.there
        /\ AStep("moveIn", IF abackup.there THEN "rollback" ELSE "idle")
        /\ UNCHANGED <<outer, kept>>
  /\ UNCHANGED <<abackup, renders, stranded, inner>>

(* Mutant of ARollback: the backup is removed, as after a commit. *)
ARollbackRemoves ==
  /\ AStep("rollback", "idle")
  /\ abackup' = Gone
  /\ UNCHANGED <<outer, stranded, renders, kept, inner>>

(* Rename(backup, gen), which fails for the same reason; the error names the
   backup. *)
ARollback ==
  /\ AStep("rollback", "idle")
  /\ outer' = IF outer.there THEN outer ELSE abackup
  /\ stranded' = IF outer.there THEN stranded \cup {abackup.gen} ELSE stranded
  /\ abackup' = Gone
  /\ UNCHANGED <<renders, kept, inner>>

(* RemoveAll(backup): no path leads into the backup any more. *)
ADropBackup ==
  /\ AStep("dropBackup", "idle")
  /\ abackup' = Gone
  /\ UNCHANGED <<outer, renders, stranded, kept, inner>>

ANext ==
  \/ AStart \/ AInspect \/ ASwap \/ AStat
  \/ AMoveOut \/ AMoveIn \/ ARollback \/ ADropBackup

-----------------------------------------------------------------------------
(* The renders of gen/models. *)

At(d, step) == pc[d] = step
Goto(d, step) == pc' = [pc EXCEPT ![d] = step]

(* The call succeeds: on to the next one. *)
Ok(d, step) == Goto(d, step) /\ UNCHANGED result

(* `return err`; `step` is the first deferred call still to come. *)
Fail(d, step) ==
  /\ Goto(d, step)
  /\ result' = [result EXCEPT ![d] = "error"]

(* errors.Join(buildErr, err) in releaseLock's deferred call. *)
JoinError(d) ==
  /\ Goto(d, "done")
  /\ result' = [result EXCEPT ![d] = IF into[d] >= 0 THEN "committed" ELSE "error"]

Look(d, from, good, ok, bad) ==
  /\ At(d, from)
  /\ IF good THEN Ok(d, ok) ELSE Fail(d, bad)
  /\ UNCHANGED <<outer, ancestor, saved, into, overtaken>>

(* rejectManagedAncestor, before MkdirAll(gen) and after it. *)
Prepare(d) == Look(d, "prepare", ~Managed(outer), "mkdir", "done")
Verify(d)  == Look(d, "verify", ~Managed(outer), "lock", "done")

MkdirParent(d) ==
  /\ At(d, "mkdir")
  /\ Ok(d, "verify")
  /\ outer' = MkdirAll(outer)
  /\ UNCHANGED <<ancestor, saved, into, overtaken>>

(* acquireLock. *)
TakeLock(d) ==
  /\ At(d, "lock")
  /\ IF outer.there /\ outer.lock = "free"
     THEN Ok(d, "writeOwner") /\ outer' = [outer EXCEPT !.lock = "unowned"]
     ELSE Fail(d, "done") /\ UNCHANGED outer
  /\ UNCHANGED <<ancestor, saved, into, overtaken>>

(* WriteFile(ownerPath) writes into whatever lock directory is at the path. *)
WriteOwner(d) ==
  /\ At(d, "writeOwner")
  /\ IF outer.lock # "free"
     THEN Ok(d, "recheck") /\ outer' = [outer EXCEPT !.lock = d]
     ELSE Fail(d, "dropOwner") /\ UNCHANGED outer
  /\ UNCHANGED <<ancestor, saved, into, overtaken>>

DropOwner(d) ==
  /\ At(d, "dropOwner")
  /\ Ok(d, "dropLock")
  /\ outer' = [outer EXCEPT !.lock = IF @ = "free" THEN @ ELSE "unowned"]
  /\ UNCHANGED <<ancestor, saved, into, overtaken>>

DropLock(d) ==
  /\ At(d, "dropLock")
  /\ Ok(d, "done")
  /\ outer' = [outer EXCEPT !.lock = IF @ = "unowned" THEN "free" ELSE @]
  /\ UNCHANGED <<ancestor, saved, into, overtaken>>

(* Mutant of Recheck: no second look under the lock. *)
RecheckSkipped(d) == Look(d, "recheck", TRUE, "inspect", "readOwner")

(* "An ancestor render may have committed between path preparation and lock
   acquisition." *)
Recheck(d) == Look(d, "recheck", ~Managed(outer), "inspect", "readOwner")

Inspect(d) == Look(d, "inspect", SubReplaceable(outer), "stage", "readOwner")

(* MkdirTemp of the staging directory in gen. *)
Stage(d) ==
  /\ At(d, "stage")
  /\ IF outer.there
     THEN Ok(d, "mark") /\ outer' = [outer EXCEPT !.stages[d] = "unmarked"]
     ELSE Fail(d, "readOwner") /\ UNCHANGED outer
  /\ UNCHANGED <<ancestor, saved, into, overtaken>>

(* WriteFile of the marker. *)
Mark(d) ==
  /\ At(d, "mark")
  /\ IF outer.stages[d] # "none"
     THEN Ok(d, "fill") /\ outer' = [outer EXCEPT !.stages[d] = "marked"]
     ELSE Fail(d, "cleanStaging") /\ UNCHANGED outer
  /\ UNCHANGED <<ancestor, saved, into, overtaken>>

(* The callback makes the directory of a package with MkdirAll: it brings back
   a staging directory, and a gen, that are gone, and without the marker. *)
Fill(d) ==
  /\ At(d, "fill")
  /\ Ok(d, "write")
  /\ outer' = [MkdirAll(outer) EXCEPT !.stages[d] = IF @ = "none" THEN "unmarked" ELSE @]
  /\ UNCHANGED <<ancestor, saved, into, overtaken>>

(* The callback writes the files of the package; there may be another one. *)
Write(d) ==
  \/ Look(d, "write", outer.stages[d] # "none", "fill", "cleanStaging")
  \/ Look(d, "write", outer.stages[d] # "none", "chmod", "cleanStaging")

(* Chmod of the staging directory. *)
SetMode(d) == Look(d, "chmod", outer.stages[d] # "none", "swap", "cleanStaging")

(* replace: replaceableMode again, then Lstat. *)
BeginSwap(d) == Look(d, "swap", SubReplaceable(outer), "stat", "cleanStaging")
Stat(d) ==
  Look(d, "stat", TRUE, IF outer.sub = NoSub THEN "moveIn" ELSE "moveOut", "cleanStaging")

(* replace: a free name for the backup, and Rename(gen/models, backup). *)
MoveOut(d) ==
  /\ At(d, "moveOut")
  /\ IF outer.sub # NoSub
     THEN /\ Ok(d, "moveIn")
          /\ outer' = [outer EXCEPT !.backups[d] = outer.sub, !.sub = NoSub]
          /\ saved' = [saved EXCEPT ![d] = TRUE]
     ELSE Fail(d, "cleanStaging") /\ UNCHANGED <<outer, saved>>
  /\ UNCHANGED <<ancestor, into, overtaken>>

(* replace: Rename(staging, gen/models). *)
MoveIn(d) ==
  /\ At(d, "moveIn")
  /\ IF outer.stages[d] # "none" /\ outer.sub = NoSub
     THEN /\ Ok(d, IF saved[d] THEN "dropBackup" ELSE "readOwner")
          /\ outer' = [outer EXCEPT !.sub = Subtree(d, outer.stages[d] = "marked"),
                                    !.stages[d] = "none"]
          /\ into' = [into EXCEPT ![d] = outer.gen]
          /\ overtaken' = IF apc \in {"stat", "moveOut"} THEN overtaken \cup {d} ELSE overtaken
     ELSE /\ Fail(d, IF saved[d] THEN "rollback" ELSE "cleanStaging")
          /\ UNCHANGED <<outer, into, overtaken>>
  /\ UNCHANGED <<ancestor, saved>>

(* replace: Rename(backup, gen/models). *)
Rollback(d) ==
  /\ At(d, "rollback")
  /\ Ok(d, "cleanStaging")
  /\ outer' = IF outer.backups[d] # NoSub /\ outer.sub = NoSub
              THEN [outer EXCEPT !.sub = outer.backups[d], !.backups[d] = NoSub]
              ELSE outer
  /\ UNCHANGED <<ancestor, saved, into, overtaken>>

(* replace: RemoveAll(backup), which does not mind that there is none. *)
DropBackup(d) ==
  /\ At(d, "dropBackup")
  /\ Ok(d, "readOwner")
  /\ outer' = [outer EXCEPT !.backups[d] = NoSub]
  /\ UNCHANGED <<ancestor, saved, into, overtaken>>

(* Mutant of CleanStaging: it is only done for a marked directory. *)
CleanStagingMarked(d) ==
  /\ At(d, "cleanStaging")
  /\ Ok(d, "readOwner")
  /\ outer' = [outer EXCEPT !.stages[d] = IF @ = "marked" THEN "none" ELSE @]
  /\ UNCHANGED <<ancestor, saved, into, overtaken>>

(* The deferred RemoveAll(staging). *)
CleanStaging(d) ==
  /\ At(d, "cleanStaging")
  /\ Ok(d, "readOwner")
  /\ outer' = [outer EXCEPT !.stages[d] = "none"]
  /\ UNCHANGED <<ancestor, saved, into, overtaken>>

(* The deferred releaseLock: the owner file at the path must hold the token. *)
ReadOwner(d) ==
  /\ At(d, "readOwner")
  /\ IF outer.lock = d THEN Ok(d, "removeOwner") ELSE JoinError(d)
  /\ UNCHANGED <<outer, ancestor, saved, into, overtaken>>

RemoveOwner(d) ==
  /\ At(d, "removeOwner")
  /\ IF outer.lock \in Inner
     THEN Ok(d, "removeLock") /\ outer' = [outer EXCEPT !.lock = "unowned"]
     ELSE JoinError(d) /\ UNCHANGED outer
  /\ UNCHANGED <<ancestor, saved, into, overtaken>>

RemoveLock(d) ==
  /\ At(d, "removeLock")
  /\ IF outer.lock = "unowned"
     THEN Ok(d, "done") /\ outer' = [outer EXCEPT !.lock = "free"]
     ELSE JoinError(d) /\ UNCHANGED outer
  /\ UNCHANGED <<ancestor, saved, into, overtaken>>

Step(d) ==
  \/ Prepare(d) \/ MkdirParent(d) \/ Verify(d) \/ TakeLock(d) \/ WriteOwner(d)
  \/ DropOwner(d) \/ DropLock(d) \/ Recheck(d) \/ Inspect(d) \/ Stage(d) \/ Mark(d)
  \/ Fill(d) \/ Write(d) \/ SetMode(d) \/ BeginSwap(d) \/ Stat(d) \/ MoveOut(d)
  \/ MoveIn(d) \/ Rollback(d) \/ DropBackup(d) \/ CleanStaging(d) \/ ReadOwner(d)
  \/ RemoveOwner(d) \/ RemoveLock(d)

Next == ANext \/ \E d \in Inner : Step(d)

Spec == Init /\ [][Next]_vars

-----------------------------------------------------------------------------
(* Properties. *)

(* What a render of gen/models reports is true.  It returns nil only when its
   tree, with the marker, is where the caller asked for it, in a gen nobody
   manages: when gen was replaced under it, its lock went with the old gen, so
   that the release fails and says so.  And after nil the tree stays until
   another render of gen/models sets it aside: a render of gen destroys it only
   when it came between the last look of that render at an empty gen and its
   rename. *)
ReportIsTrue ==
  \A d \in Inner : pc[d] = "done" =>
    /\ (into[d] > 0 \/ outer.sub = Subtree(d, FALSE)) => result[d] = "committed"
    /\ (result[d] = "nil" /\ d \notin overtaken) =>
         /\ outer.there /\ outer.gen = 0
         /\ \/ outer.sub.from \in Inner
            \/ \E e \in Inner : outer.backups[e].from \in Inner

(* The last complete gen is never lost: it is at its path or under a backup's
   name, even when a render of gen/models makes gen anew between the two
   renames, so that neither the new tree nor the old one finds its place. *)
LastRenderKept ==
  \/ outer.gen = kept
  \/ abackup.gen = kept
  \/ kept \in stranded

(* Once every render has returned, gen holds no lock and no staging directory:
   the clean-ups work by path on whatever tree is there.  What a render of
   gen/models set aside is still there only when it said that it failed. *)
NothingLeftBehind ==
  (\A d \in Inner : pc[d] = "done") =>
    /\ outer.lock = "free"
    /\ \A d \in Inner :
         /\ outer.stages[d] = "none"
         /\ outer.backups[d] # NoSub => result[d] = "error"
=============================================================================
