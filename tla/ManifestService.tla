-------------------------- MODULE ManifestService --------------------------
(***************************************************************************)
(* The commands of internal/cli/service.go over one manifest file: Inspect *)
(* reads the catalog and refreshes the file, Render reads the file and     *)
(* replaces the output, Generate does both.  The file is saved by          *)
(* manifest.SaveAtomic: a temporary file, then a rename.                   *)
(*                                                                         *)
(* One command runs at a time (the README's Gotchas exclude concurrent     *)
(* use), one action per step that reads or writes what others can see.     *)
(* Between any two steps the schema may change, the user may edit or       *)
(* delete the file, the context may be canceled, a step may fail, or the   *)
(* process may die.  output.Build is one step here: OutputBuild has its    *)
(* inside.                                                                 *)
(***************************************************************************)
EXTENDS Manifest, Naturals

CONSTANTS
  Database,    \* the DatabaseName behind the DSN
  Selections,  \* values of -tables: sets of selectors, {} when omitted
  NoFile,      \* the manifest does not exist
  Broken,      \* a file that Load refuses: not JSON, null, invalid structure
  Partial,     \* a temporary file that is not completely written
  MaxCommands, \* commands started (bound)
  MaxEdits,    \* edits and deletions of the file by the user (bound)
  MaxChanges,  \* changes of the schema (bound)
  MaxFaults    \* failing steps and crashes (bound)

ASSUME DatabaseAssumption == Database \in Databases
ASSUME SelectionsAssumption == Selections \subseteq SUBSET Selectors
ASSUME BoundsAssumption ==
  {MaxCommands, MaxEdits, MaxChanges, MaxFaults} \subseteq Nat
ASSUME FilesAssumption ==
  /\ NoFile \notin Documents /\ Broken \notin Documents
  /\ Partial \notin Documents
  /\ NoFile # Broken /\ Partial # None

Kinds == {"inspect", "render", "generate"}

Catalogs == [Tables -> [Columns -> Facts \cup {None}] \cup {None}]

Files == Documents \cup {NoFile, Broken}

VARIABLES
  catalog,   \* the live schema
  file,      \* the manifest file
  temp,      \* the temporary file of the running command, or None
  output,    \* the generated packages, by identity
  pc,        \* the next step of the running command
  command,   \* [kind, selection] of the last command
  fresh,     \* its inspection, narrowed to the selection, before any merge
  document,  \* the document it works on
  keys,      \* the identities its selection resolved to
  canceled,  \* its context is canceled
  result,    \* how the last command ended
  before,    \* (history) the file as the last command found it at the start
  touched,   \* (history) the user wrote the file since that start
  counts     \* commands, edits, changes and faults so far

vars == <<catalog, file, temp, output, pc, command, fresh, document,
          keys, canceled, result, before, touched, counts>>

Steps == {"idle", "inspect", "select", "load", "merge", "create", "write",
          "rename", "open", "render"}

Results == {"none", "ok", "failed", "crashed"}

EmptyDocument == New(Database, [t \in Tables |-> None])

Counts == [commands : 0..MaxCommands, edits  : 0..MaxEdits,
           changes  : 0..MaxChanges,  faults : 0..MaxFaults]

TypeOK ==
  /\ catalog \in Catalogs
  /\ file \in Files
  /\ temp \in Documents \cup {None, Partial}
  /\ output \in [Tables -> Models \cup {None}]
  /\ pc \in Steps
  /\ command \in [kind : Kinds, selection : Selections \cup {{}}]
  /\ fresh \in Documents
  /\ document \in Documents
  /\ keys \in SUBSET Tables
  /\ canceled \in BOOLEAN
  /\ result \in Results
  /\ before \in Files
  /\ touched \in BOOLEAN
  /\ counts \in Counts

Init ==
  /\ catalog \in Catalogs
  /\ \A t \in Tables : catalog[t] # None => catalog[t] # NoColumns
  /\ file = NoFile
  /\ temp = None
  /\ output = [t \in Tables |-> None]
  /\ pc = "idle"
  /\ command = [kind |-> "inspect", selection |-> {}]
  /\ fresh = EmptyDocument
  /\ document = EmptyDocument
  /\ keys = {}
  /\ canceled = FALSE
  /\ result = "none"
  /\ before = NoFile
  /\ touched = FALSE
  /\ counts = [commands |-> 0, edits |-> 0, changes |-> 0, faults |-> 0]
-----------------------------------------------------------------------------
(* The commands.  Finish ends the running one; every error return of the   *)
(* code before the manifest is saved leaves through Fail.                  *)

Finish(outcome) ==
  /\ pc' = "idle"
  /\ result' = outcome

Fail == Finish("failed") /\ UNCHANGED <<file, output>>

Start(kind, selection) ==
  /\ pc = "idle"
  /\ counts.commands < MaxCommands
  /\ counts' = [counts EXCEPT !.commands = @ + 1]
  /\ command' = [kind |-> kind, selection |-> selection]
  /\ pc' = IF kind = "render" THEN "open" ELSE "inspect"
  /\ fresh' = EmptyDocument
  /\ document' = EmptyDocument
  /\ keys' = {}
  /\ canceled' = FALSE
  /\ result' = "none"
  /\ before' = file
  /\ touched' = FALSE
  /\ UNCHANGED <<catalog, file, temp, output>>

(* backend.Inspect: one snapshot of the schema.                            *)
BackendInspect ==
  /\ pc = "inspect"
  /\ fresh' = New(Database, catalog)
  /\ pc' = "select"
  /\ UNCHANGED <<catalog, file, temp, output, command, document,
                 keys, canceled, result, before, touched, counts>>

SelectInspected ==
  /\ pc = "select"
  /\ IF Selectable(fresh, command.selection)
       THEN /\ fresh' = SelectTables(fresh, command.selection)
            /\ keys' = SelectedKeys(fresh, command.selection)
            /\ pc' = "load"
            /\ UNCHANGED <<file, output, result>>
       ELSE Fail /\ UNCHANGED <<fresh, keys>>
  /\ UNCHANGED <<catalog, temp, command, document, canceled, before,
                 touched, counts>>

(* Stat and Load of the previous manifest; without one, the inspection is  *)
(* the document.  Otherwise `document' holds the previous manifest.        *)
LoadPrevious ==
  /\ pc = "load"
  /\ \/ /\ file = NoFile
        /\ document' = Canonicalize(fresh)
        /\ pc' = "create"
        /\ UNCHANGED <<file, output, result>>
     \/ /\ file \in Documents
        /\ document' = Canonicalize(file)
        /\ pc' = "merge"
        /\ UNCHANGED <<file, output, result>>
     \/ /\ file = Broken
        /\ Fail
        /\ UNCHANGED document
  /\ UNCHANGED <<catalog, temp, command, fresh, keys, canceled,
                 before, touched, counts>>

MergePrevious ==
  /\ pc = "merge"
  /\ IF SameDatabase(fresh, document)
       THEN /\ document' = IF command.selection = {}
                             THEN Merge(fresh, document)
                             ELSE MergeSelected(fresh, document)
            /\ pc' = "create"
            /\ UNCHANGED <<file, output, result>>
       ELSE Fail /\ UNCHANGED document
  /\ UNCHANGED <<catalog, temp, command, fresh, keys, canceled,
                 before, touched, counts>>

(* (mutant) The temporary file is renamed before it is written.            *)
CreateTempUnwritten ==
  /\ pc = "create"
  /\ ~canceled
  /\ temp' = Partial
  /\ pc' = "rename"
  /\ UNCHANGED <<catalog, file, output, command, fresh, document, keys,
                 canceled, result, before, touched, counts>>

(* The last look at the context, then SaveAtomic up to os.CreateTemp.      *)
CreateTemp ==
  /\ pc = "create"
  /\ IF canceled
       THEN Fail /\ UNCHANGED temp
       ELSE /\ temp' = Partial
            /\ pc' = "write"
            /\ UNCHANGED <<file, output, result>>
  /\ UNCHANGED <<catalog, command, fresh, document, keys, canceled,
                 before, touched, counts>>

(* (mutant) The manifest itself is written, as os.WriteFile would.         *)
WriteInPlace ==
  /\ pc = "write"
  /\ temp' = Canonicalize(document)
  /\ file' = Canonicalize(document)
  /\ pc' = "rename"
  /\ UNCHANGED <<catalog, output, command, fresh, document, keys, canceled,
                 result, before, touched, counts>>

(* Write, Chmod, Sync and Close: what is renamed is on the disk.           *)
WriteTemp ==
  /\ pc = "write"
  /\ temp' = Canonicalize(document)
  /\ pc' = "rename"
  /\ UNCHANGED <<catalog, file, output, command, fresh, document,
                 keys, canceled, result, before, touched, counts>>

(* (mutant) The operation goes on with everything that was saved.          *)
RenameKeepsAll ==
  /\ pc = "rename"
  /\ file' = temp
  /\ temp' = None
  /\ IF command.kind = "generate"
       THEN pc' = "render" /\ UNCHANGED result
       ELSE Finish("ok")
  /\ UNCHANGED <<catalog, output, command, fresh, document, keys, canceled,
                 before, touched, counts>>

(* os.Rename commits.  The operation goes on with the requested identities *)
(* of the merged document only.                                            *)
Rename ==
  /\ pc = "rename"
  /\ file' = temp
  /\ temp' = None
  /\ document' = RestrictTo(document, keys)
  /\ IF command.kind = "generate"
       THEN pc' = "render" /\ UNCHANGED result
       ELSE Finish("ok")
  /\ UNCHANGED <<catalog, output, command, fresh, keys, canceled,
                 before, touched, counts>>

(* Render: Load and SelectTables on the saved manifest.                    *)
OpenManifest ==
  /\ pc = "open"
  /\ IF file \in Documents /\ Selectable(Canonicalize(file), command.selection)
       THEN /\ document' = SelectTables(Canonicalize(file), command.selection)
            /\ keys' = SelectedKeys(Canonicalize(file), command.selection)
            /\ pc' = "render"
            /\ UNCHANGED <<file, output, result>>
       ELSE Fail /\ UNCHANGED <<document, keys>>
  /\ UNCHANGED <<catalog, temp, command, fresh, canceled, before,
                 touched, counts>>

(* backend.Render on the managed tables: validation and the context come   *)
(* before output.Build, which replaces the whole output or leaves it.  An  *)
(* error after the replacement is only a warning of a command that did     *)
(* what it was asked.                                                      *)
RenderOutput ==
  /\ pc = "render"
  /\ IF ValidateForRender(ManagedTables(document)) /\ ~canceled
       THEN /\ output' = Rendered(ManagedTables(document))
            /\ Finish("ok")
            /\ UNCHANGED file
       ELSE Fail
  /\ UNCHANGED <<catalog, temp, command, fresh, document, keys,
                 canceled, before, touched, counts>>

(* Any step may fail instead: the catalog query, a read, a write, the      *)
(* rename, the build.  SaveAtomic's deferred os.Remove takes the temporary *)
(* file away.                                                              *)
FaultyStep ==
  /\ pc # "idle"
  /\ counts.faults < MaxFaults
  /\ counts' = [counts EXCEPT !.faults = @ + 1]
  /\ temp' = None
  /\ Fail
  /\ UNCHANGED <<catalog, command, fresh, document, keys, canceled,
                 before, touched>>

CommandStep ==
  \/ BackendInspect \/ SelectInspected \/ LoadPrevious \/ MergePrevious
  \/ CreateTemp \/ WriteTemp \/ Rename \/ OpenManifest \/ RenderOutput
  \/ FaultyStep
-----------------------------------------------------------------------------
(* The environment: the signal context, a crash, the database, the user.   *)

Cancel ==
  /\ pc # "idle"
  /\ ~canceled
  /\ canceled' = TRUE
  /\ UNCHANGED <<catalog, file, temp, output, pc, command, fresh,
                 document, keys, result, before, touched, counts>>

(* A crash leaves a temporary file behind, under a name nothing reads.     *)
Crash ==
  /\ pc # "idle"
  /\ counts.faults < MaxFaults
  /\ counts' = [counts EXCEPT !.faults = @ + 1]
  /\ temp' = None
  /\ Finish("crashed")
  /\ UNCHANGED <<catalog, file, output, command, fresh, document, keys,
                 canceled, before, touched>>

SchemaChange(t, columns) ==
  /\ counts.changes < MaxChanges
  /\ counts' = [counts EXCEPT !.changes = @ + 1]
  /\ columns # catalog[t]
  /\ columns # NoColumns
  /\ catalog' = [catalog EXCEPT ![t] = columns]
  /\ UNCHANGED <<file, temp, output, pc, command, fresh, document,
                 keys, canceled, result, before, touched>>

UserWrites(new) ==
  /\ counts.edits < MaxEdits
  /\ counts' = [counts EXCEPT !.edits = @ + 1]
  /\ file # new
  /\ file' = new
  /\ touched' = TRUE
  /\ UNCHANGED <<catalog, temp, output, pc, command, fresh, document,
                 keys, canceled, result, before>>

(* One field of the document changed by hand, the entry of a table removed *)
(* from it, or the whole file deleted or spoiled.                          *)
EditedTables(m, t) ==
  LET e == m.tables[t]
  IN  {None, [e EXCEPT !.managed = ~@]}
        \cup {[e EXCEPT !.name = n] : n \in Names}
        \cup {[e EXCEPT !.columns[c].choice = x] :
                 c \in {d \in Columns : e.columns[d] # None}, x \in Choices}

EditedFiles ==
  IF file \notin Documents THEN {NoFile}
  ELSE {NoFile, Broken}
         \cup {[file EXCEPT !.mappings = g] : g \in Mappings}
         \cup {[file EXCEPT !.db = d] : d \in Databases}
         \cup UNION {{[file EXCEPT !.tables[t] = e] : e \in EditedTables(file, t)}
                       : t \in Present(file)}

Environment ==
  \/ Cancel
  \/ Crash
  \/ \E t \in Tables, columns \in [Columns -> Facts \cup {None}] \cup {None} :
        SchemaChange(t, columns)
  \/ \E new \in EditedFiles : UserWrites(new)

Next ==
  \/ \E kind \in Kinds, selection \in Selections : Start(kind, selection)
  \/ CommandStep
  \/ Environment

(* Every call a command makes returns, so a running command moves on.      *)
Spec == Init /\ [][Next]_vars /\ WF_vars(CommandStep)
-----------------------------------------------------------------------------
(* Properties.  Saves is the commit of a refresh.                          *)

Saves == pc = "rename" /\ pc' # pc /\ file' = temp

(* The file that the next save replaces is the one the command loaded.     *)
(* (An edit saved by the user in between is overwritten: inspectAndSave    *)
(* takes no lock on the manifest.)                                         *)
Undisturbed == ~touched /\ before \in Documents

Old == Canonicalize(before)

(* What the user chose survives a refresh: IsManaged, the name of a        *)
(* managed table, the choice of each of its columns that still exists, and *)
(* the global mappings; a table that was not selected keeps everything.    *)
(* Only a table that a full inspection no longer finds is dropped.         *)
KeptEntry(t) ==
  \/ command.selection = {} /\ t \notin keys /\ file'.tables[t] = None
  \/ command.selection # {} /\ t \notin keys /\ file'.tables[t] = Old.tables[t]
  \/ /\ t \in keys /\ t \in Present(file')
     /\ file'.tables[t].managed = Old.tables[t].managed
     /\ file'.tables[t].name = Old.tables[t].name
     /\ \A c \in Columns :
          \/ file'.tables[t].columns[c] = None
          \/ Old.tables[t].columns[c] = None
          \/ file'.tables[t].columns[c].choice = Old.tables[t].columns[c].choice

KeepsChoices ==
  [][ Saves /\ Undisturbed =>
        /\ file'.db = Old.db
        /\ file'.mappings = Old.mappings
        /\ Present(file') \subseteq keys \cup Present(Old)
        /\ \A t \in Present(Old) : KeptEntry(t) ]_vars

(* What a save says of a selected table is what the inspection of the same *)
(* command found: the same columns with the same facts if it is managed,   *)
(* and nothing but its identity if it is not.                              *)
FactOf(m, t, c) ==
  IF m.tables[t].columns[c] = None THEN None ELSE m.tables[t].columns[c].fact

FactsAreFresh ==
  [][ Saves =>
        /\ keys \subseteq Present(file')
        /\ \A t \in keys \cap ManagedKeys(file'), c \in Columns :
             FactOf(file', t, c) = FactOf(fresh, t, c)
        /\ \A t \in keys \ ManagedKeys(file') :
             file'.tables[t] = [managed |-> FALSE, name |-> None,
                                columns |-> NoColumns] ]_vars

(* A refresh of a manifest that already says what the inspection found     *)
(* changes nothing in it.                                                  *)
UpToDate ==
  /\ keys \subseteq Present(Old)
  /\ command.selection = {} => keys = Present(Old)
  /\ \A t \in keys \cap ManagedKeys(Old), c \in Columns :
        FactOf(Old, t, c) = FactOf(fresh, t, c)

RefreshIsStable == [][ Saves /\ Undisturbed /\ UpToDate => file' = Old ]_vars

(* However a command ends, and wherever it is stopped, the file is the one *)
(* it found or the complete refresh, never anything in between; a refresh  *)
(* is there only once it was committed, and never after an inspection that *)
(* reported an error.                                                      *)
AllOrNothing ==
  ~touched =>
    \/ file = before
    \/ /\ command.kind \in {"inspect", "generate"}
       /\ file \in Documents /\ file = Canonicalize(file)
       /\ RestrictTo(file, keys) = document
       /\ \/ pc = "render"
          \/ pc = "idle" /\ (result = "failed" => command.kind = "generate")

(* The packages that a successful Render or Generate leaves are those of   *)
(* the managed tables of its selection as the manifest file describes them *)
(* at the end, though Generate never reads back the file it saved.         *)
OutputMatchesManifest ==
  pc = "idle" /\ result = "ok" /\ command.kind # "inspect" /\ ~touched =>
    output = Rendered(RestrictTo(Canonicalize(file), keys))

(* README.md, Generate: "Generate is Inspect followed by Render."  The     *)
(* Render that follows on the saved manifest takes the same selectors for  *)
(* the same tables.                                                        *)
GenerateIsInspectThenRender ==
  pc = "idle" /\ result = "ok" /\ command.kind = "generate" /\ ~touched =>
    /\ Selectable(Canonicalize(file), command.selection)
    /\ SelectedKeys(Canonicalize(file), command.selection) = keys
-----------------------------------------------------------------------------
(* The inductive invariant behind the properties.  Before the commit the   *)
(* file is the one the command found; the document about to be committed   *)
(* is the inspection or its merge with some canonical manifest, the one    *)
(* that was found unless the user wrote in between; after the commit the   *)
(* document is the file narrowed to the selected identities.               *)

InspectSteps == {"inspect", "select", "load", "merge", "create", "write", "rename"}

(* What a command renames is what it wrote.                                *)
Written == pc = "rename" => temp = Canonicalize(document)

KindInv ==
  /\ pc \in InspectSteps => command.kind # "render"
  /\ pc = "open" => command.kind = "render"
  /\ pc = "render" => command.kind # "inspect"
  /\ pc \in InspectSteps \cup {"open"} /\ ~touched => file = before
  /\ pc = "render" /\ command.kind = "render" /\ ~touched => file = before

(* An inspection: every table it holds is managed.                         *)
AllManaged(m) == \A t \in Present(m) : m.tables[t].managed

FreshInv ==
  /\ pc \in InspectSteps \ {"inspect"} => AllManaged(fresh)
  /\ pc \in InspectSteps \ {"inspect", "select"} => keys = Present(fresh)

RefreshOf(previous) == IF command.selection = {}
                         THEN Merge(fresh, previous)
                         ELSE MergeSelected(fresh, previous)

FirstRefresh == (~touched => before = NoFile) /\ document = Canonicalize(fresh)

LaterRefresh(previous) ==
  /\ Canonicalize(previous) = previous
  /\ SameDatabase(fresh, previous)
  /\ document = RefreshOf(previous)
  /\ ~touched => before \in Documents /\ previous = Old

RefreshInv ==
  /\ pc = "merge" => /\ Canonicalize(document) = document
                     /\ ~touched => before \in Documents /\ document = Old
  /\ pc \in {"create", "write", "rename"} =>
       /\ Canonicalize(document) = document
       /\ FirstRefresh \/ \E previous \in Documents : LaterRefresh(previous)

CommittedInv ==
  pc = "render" /\ ~touched =>
    /\ file \in Documents
    /\ document = RestrictTo(Canonicalize(file), keys)
    /\ command.kind # "render" => Canonicalize(file) = file

IInv == /\ TypeOK /\ Written /\ KindInv /\ FreshInv /\ RefreshInv /\ CommittedInv
        /\ AllOrNothing /\ OutputMatchesManifest
=============================================================================
