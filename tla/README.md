# A TLA+ verification of Sqltom

Sqltom (`src/`) reads the catalog of a database, keeps what it found together
with the user's naming and type choices in a JSON manifest, and renders from it
one Go package per table or view, next to a small query helper.  This directory
models its stateful parts and its pure algorithms in TLA+, checks them with TLC
on small instances, and proves the most important properties with TLAPS for all
instances.

    tlc -workers 2 -config MCOutputSwap.cfg MCOutputBuild     # a run
    tlapm OutputBuildProofs.tla                               # a proof

`PROJECT.json` lists the components, the runs, for each property a mutant of the
model that violates it, the source lines behind every definition, the hazards of
the code, and the theorems.

Contents: 1 the system, 2 the modules and the code, 3 the runs, 4 the proofs,
5 what is not modelled, 6 the plan.

## 1. The system

### Components and state

| Component | Code (`src/internal/`) | State | Operations |
|---|---|---|---|
| Output installation | `output/output.go` | the output directory, `.sqltom-render.lock` in its parent, staging and backup directories | `Build`: lock, stage, fill, swap by two renames, roll back, clean up, release |
| Commands | `cli/service.go` | the manifest file, the document of the running command | `Inspect`, `Render`, `Generate` |
| Manifest document | `manifest/manifest.go`, `merge.go`, `select.go` | none (values) | `New`, `Canonicalize`, `Merge`, `MergeSelected`, `SelectTables`, `ManagedTables` |
| Manifest file | `manifest/io.go` | the file, a temporary file | `Load`, `SaveAtomic` |
| Validation, names, types | `manifest/validate.go`, `naming.go`, `file_names.go`, `portable.go`, `defaults.go` | none | checks and derivations |
| Catalog inspectors | `dialect/{postgres,mysql,sqlserver}/inspector.go`, `dialect/primarykey.go`, `dialect/version.go` | tables gathered so far, key sizes, server identity | one loop over the rows of one query |
| SQLite inspector | `dialect/sqlite/inspector.go` | as above | several PRAGMA queries |
| Renderers | `render/*.go`, `dialect/*/renderer.go` | none | a tree of files in the staging directory |
| Query helper, scanner | `render/queryruntime/lexer.go` | none | `scan` |
| Query helper, builder | `render/queryruntime/query.go` | fragments, bindings, their order, a sticky error | `Write`, `Bind`, `Build`, `Preview` |
| Generated models | `render/model.go.tpl` | the rows and their partial flag | `SelectAll`, `SelectCols`, `Insert`, `Update`, `Delete`, `Exists`, `Query` |
| Command line | `cli/cli.go`, `cmd/sqltom` | none | parse, call a command, print |

### How they interact

`cmd/sqltom` makes a context that SIGINT and SIGTERM cancel and calls the
command line, which calls one method of the command runner.  Inspect calls the
backend's `Inspect` (one catalog snapshot), narrows it to the selected tables,
loads the manifest if there is one, merges, and saves by `SaveAtomic`.  Render
loads and narrows the manifest and calls the backend's `Render`, which validates
and calls `output.Build` with a callback that writes the tree.  Generate does
both in one process and renders the document it has in memory.  Several sqltom
processes share the file system and nothing else.  The generated query package
carries a copy of the scanner and the builder.

### What is hard about it, and what makes it correct

* **Output.**  Two renames cannot be one.  Between them the output is absent; any
  call may fail, the process may be killed, another process may build in the same
  parent, a user may edit.  Correct means: what the user last had at an output is
  there or, whole, in a backup beside it; something unmanaged is never replaced;
  a half-written tree is never visible; the error tells whether the new tree is
  active; locks exclude and are released.  A render of a directory and one of a directory
  below it share no lock, and the first moves the second's lock, staging directory and
  backup away with everything else.
* **Commands.**  A long sequence of full and filtered inspections, edits, schema
  changes and failures must lose no choice and no table, must not resurrect or
  invent entries, and must be all or nothing at each step.  Generate must leave
  output and manifest in agreement though it never reads back what it saved.
* **Inspectors.**  A catalog read half-way looks like a smaller database, and a
  merge would drop tables; a key of which the account sees only a part looks like
  a shorter key.  Whether a catalog is accepted must not depend on row order.
  SQLite has no catalog to query at once: what it returns is put together from
  PRAGMAs between which the schema may change.
* **Query helper.**  Parameters must be found outside quoted text and comments of
  four dialects; fragments must compose; placeholders and arguments must stay in
  step through repetition, lists and escapes; of several mistakes a fixed one is
  reported.
* **Names, types, generated models.**  Every fix of a derived name may make it one that
  an earlier fix refused.  The model, its fields, the imports of its types, the imports of
  the template and its local names share name spaces.  Rows that were read in part
  must not be written, NULL keys and composite keys must not update other rows, and a
  generated identity arrives through a signed number.

## 2. The modules and the code

    AtomicOutput        <- refined by -  OutputBuild      <- MCOutputBuild, OutputBuildProofs
    Manifest            <- extended by - ManifestService  <- MCManifestService, ManifestProofs
    NestedOutput        <- MCNestedOutput, NestedOutputProofs
    QueryLexer          <- MCQueryLexer           <- QueryLexerProofs
    QueryBuilder        <- MCQueryBuilder, QueryBuilderProofs
    CatalogInspector    <- MCCatalogInspector, CatalogInspectorProofs
    SqliteInspector     <- MCSqliteInspector, SqliteInspectorProofs
    FileNames, GeneratedModel <- extended by - GeneratedPackage <- MCGeneratedPackage, GeneratedPackageProofs

Operators keep the names of the functions they model where there is one
(`MergeSelected`, `matchesTableSelector`, `writePlaceholders`).  Definitions whose
comment begins with "Mutant" or "(mutant)" are not part of the specifications: each is the
plausible bug that shows that a property can fail.

### AtomicOutput, OutputBuild

`AtomicOutput` is the promise: an output has one content at any time, in place or
set aside; a render replaces a replaceable content by a complete generation in
one step; only the user does anything else.  `OutputBuild` is `output.Build` with
one action per system call or run of read-only checks, for any number of
processes and outputs:

| Action | Code in `output.go` |
|---|---|
| `Start`, `Prepare`, `Verify` | entry of `Build`, path checks, `ctx.Err`, `MkdirAll` |
| `TakeLock`, `WriteOwner`, `DropOwner`, `DropLock` | `acquireLock` and its clean-up |
| `Recheck`, `Inspect` | `rejectManagedAncestor` under the lock, `replaceableMode` |
| `Stage`, `Mark`, `Fill`, `SetMode` | `MkdirTemp`, the marker, the callback, `Chmod` |
| `BeginSwap`, `Stat`, `Reserve`, `MoveOut`, `MoveIn`, `Rollback`, `DropBackup` | `replace` |
| `CleanStaging`, `ReadOwner`, `RemoveOwner`, `RemoveLock` | the two deferred functions |
| `Cancel`, `Crash` | the signal context, a kill |
| `UserEdits`, `UserRestores`, `UserRemovesLock`, `MarkerAppears` | what people and other renders do between two steps |

A directory is abstracted to what `replaceableMode` tells apart; a generation has
a number so that an older tree is not taken for a newer one.  `kept` and `swapped`
are history variables.  Each action has the alternative that its call fails
(`Fault`), with what the call may leave behind: a partly written owner file
(`Garbled`), a backup that `RemoveAll` removed in part.  The lock's random token is
represented by the process, sound because a process runs one `Build` at a time
and cannot take a lock it has left behind.

### NestedOutput

`output.Build` for `gen`, any number of times, and for `gen/models` by any number of
processes.  The state is the tree at `gen`, with the lock, the staging directories and
the backups of the inner renders in it, and the tree the outer render has set aside.  Each call
acts on the tree that is at the path when it is made, which is why an inner render may
find its lock, its staging directory or its backup gone, or those of somebody else.  The
inner renders have one action per call, with the names of `OutputBuild`; the outer
one (`AStart` to `ADropBackup`) only those that look at `gen` or move it.  No call fails
but for what the other renders did: failures and crashes of one render are the subject
of `OutputBuild`.  `Fill` is the `MkdirAll` of `renderTable`, which makes a `gen` and a
staging directory anew that were moved away.

### Manifest, ManifestService

A document is a function from identities to entries or `None`, which abstracts
the order that `Canonicalize` establishes.  The three naming overrides of a table
are one `name`, the overrides of a column one `choice`, what the catalog says of
it one `fact`.  `ManifestService` has one action per step of `inspectAndSave`,
`Render` and `Generate`; `FaultyStep` stands for the error return of any of them,
`SaveAtomic` is `CreateTemp`, `WriteTemp`, `Rename`.  `output.Build` is one step
here, which `OutputBuild` justifies.  The environment changes the schema, edits one
field of the manifest, deletes or spoils it, cancels, and kills.

### QueryLexer

`scan` is `scanInto`, `Lexeme` one turn of its loop, and what the inner loops compute are
functions over positions: `QuotedFrom`, `CommentFrom` (by position and depth) and `FoundIn`, the scan from a
position of the text up to another.  It works on characters because the characters are its control:
every branch of the code looks at one to three of them.  MySQL's executable
comments are scanned by themselves, as in the code: `FoundIn` up to their last character.
`Rewritten` is the loop of `Builder.build` that copies the text between the tokens.

`MCQueryLexer` writes a statement character by character; the dialect and the alphabet come from `Profiles`, of
which `ProfilesAssumption` asks only that the dialects are the four and that no character is the mark "END",
which stands for what is past the end.  What counts as protected is said without the scanner: `Nesting` names the
dialects whose comments nest, `IsNested` counts how many comments are open (`Depth`), and `ExecutableTextIsChecked` says what becomes of
text that MySQL may execute: it is passed over when it holds no parameter and no mistake, and otherwise refused.  `CharactersAssumption` keeps the classes of characters apart, as those of bytes are.

### QueryBuilder

The builder as a state machine: `Write`, `Bind`/`BindRefused`, and a `Build` that
takes one step per token (`StartBuild`, `SkipEscape`, `ExpandFirst`, `ExpandAgain`,
`FinishBuild`, `Done`).  A fragment is a sequence of what the scanner tells apart.
`ChangeElement` is the caller who assigns to an element of a list it has bound: the
builder keeps the list and not a copy.  `size` is the byte count that
`Builder.build` hands to `Grow`.

### CatalogInspector

The row loop of the three single-query backends (`ReadRow`, `RefuseRow`,
`Interrupted`, `Finish`) with the differences between them: versions, MariaDB,
domains, MySQL without catalogs.  `Valid` is the final validation.  The rows are
arbitrary, also ones no server should return; the code checks them, so that the model
does.

### SqliteInspector

One action per PRAGMA: `CheckVersion`, `inspectDatabases`, `inspectObjects` per
database, `inspectColumns` per object and `inspectIndexes` where a key may be the rowid,
and `Change`, by which another process creates, alters or drops an object between any
two.  What SQLite shows of a definition is external (`XInfo`, `ListsKeyIndex`,
`RowIDAlias`).  A declared type is the set of the fragments the code looks for.
Databases and objects are read in any order, since the code only passes their order on.

### FileNames, GeneratedModel, GeneratedPackage

`FileNames` is the derivation of a file name with every fix, over sequences of tokens: the
words that mean something to an operating system or to Go, the characters that
part them, and one ordinary letter.  `GeneratedModel` has what is decided about a package
before it is written: `ResolveType`, `Validate`, `BuildData`, `configureRuntime`; an
identifier is a base and a number of underscores, since that is how the code makes one
that is free.  `References` is the other side, read off the template: which packages the code
it writes refers to.  `GeneratedPackage` renders one table (`Render`) and then lets a
program use the package: `SelectAll`, `SelectCols`, `Insert`, `Update`, `Delete`, assignments
to fields (`Assign`), a model value of its own (`Literal`), and another program that
inserts (`OtherInsert`).  A call sends one statement and is one action; it may fail before
or after the database has carried the statement out.  Generated identities are below `2 * Half` instead
of 2^64, `Half` standing for the numbers whose sign bit is not set.  The columns of a statement are a
set of positions, since its arguments follow the same list and nothing depends on the order.

## 3. The runs

`CHECK_DEADLOCK FALSE` stands where the system really stops: the bounded commands,
renders or characters are used up, or an inspection has ended.  The builder can
always go on, and its run checks for deadlock.

| Run | Question | Instance |
|---|---|---|
| `output_swap` | Does every content survive, does a render replace only what it may, is its result true, is nothing left behind, and does it refine `AtomicOutput`? | 2 processes, 1 output; 2 generations, 2 faults (failed calls or crashes), 1 edit |
| `output_lock` | Does the lock of a parent exclude, is it released only by its holder, and does only the holder write, to an output and to the staging and backup directories beside it? | 2 processes, 2 outputs in one parent; 1 generation, 2 faults |
| `output_careless` | When the user removes a lock in use, does a Build still release only what it found to be its own? | 1 output, 1 fault, 1 edit, `CarelessUser`, `EditsDuringSwap` |
| `output_release` | Is every lock released? | `FairSpec`; every call may fail but those that release; no crashes |
| `manifest_service` | Do commands keep choices, refresh facts, stay all or nothing, reach a fixed point, and leave output and manifest in agreement? | 2 tables of one physical name in two schemas, 1 column, 2 facts; 3 commands, 1 edit, 1 schema change, 1 fault |
| `generate_then_render` | Is Generate what the documentation says? | as above without faults; a violation is expected |
| `query_lexer` | Are parameters found exactly where they are? | all statements of at most 5 characters over 11 alphabets of the 4 dialects |
| `query_builder` | Does Build mean what was written and bound? | 2 names, 7 values, 6 fragments; 2 fragments, 2 binds, 1 change of an element |
| `catalog_inspector` | Is an inspection whole or refused, whatever the order of rows? | every sequence of at most 3 of 25 rows, 3 backends |
| `nested_output` | Do renders of a directory and of one below it, which share no lock, report the truth, keep the last complete tree, and clean up? | 2 renders of `gen`, 3 of `gen/models` |
| `sqlite_inspector` | Is an object that nobody touches shown as it is, and what is shown of one that is touched? | 2 databases, 3 names, 2 changes of the schema |
| `generated_package` | Does every package have a valid name and unambiguous identifiers, and does its API read and write what it says? | file names of up to 4 of 12 pieces; 2 columns of all kinds of types; 9 small tables of 2 rows, identities below 8 |

Distinct states: 614,897 for `output_swap`, 542,799 for `output_lock`, 817,453 for
`output_careless`, 72,008 for `output_release`, 1,530,585 for `manifest_service`,
202,698 for `query_lexer`, 865,808 for `query_builder`, 254,784 for
`catalog_inspector`, 819,792 for `nested_output`, 1,764,294 for `sqlite_inspector` and
84,852 for `generated_package`; the longest run takes a minute and a half.  The processes (and in
`output_lock` the outputs, which share their parent) are symmetric, and so are the facts of
`manifest_service`, which are only compared; `output_release`, which checks liveness,
uses no symmetry.  The inner renders of `nested_output` are symmetric as well.
`generated_package` has a VIEW that leaves the result of the last call out: only action properties read
it, in the primed state, and TLC evaluates them at every step, also one to a state it has seen.

Why these bounds are enough to meet the interesting cases:

* *Output.*  Exclusion, release and refinement concern pairs of processes; with one
  more a third would only wait.  Two generations are needed to tell an older tree from a newer
  one.  Two faults let a rollback fail after the rename that made it necessary,
  and let a clean-up fail after a failure.  One edit lets the user change an
  output between the two looks at it.
* *Manifest.*  Three commands are an inspection, one that changes what it left, and one
  that shows the effect; an edit and a schema change may come between any two steps of
  them.  Two tables of the same name are what qualified selectors are for, and
  with two facts a column can keep its name and change.
* *Lexer.*  No branch looks further than two characters around a position, so that five
  characters hold an opening, a doubled or escaped one, and a closing.
  `ProtectedTextIsOpaque` wraps the enumerated text in quotes or comments and adds a
  parameter: the statements it scans have up to 15 characters.  For the comments that PostgreSQL and SQL Server nest,
  any two of the enumerated characters stand for an opening and an end, so that three comments are open at once;
  what MySQL may execute has up to five characters between the marks, a parameter or an open quote among them.
* *Builder.*  A list of nine and one of two elements take the numbers past 9, where
  the width of a placeholder changes; a name used twice and another between or after
  it is in the fragments.
* *Inspector.*  Contradictions are found between two rows; the third lets an innocent
  row come first, between or last.

* *Nested outputs.*  Three inner renders let one hold the lock of the old `gen` while
  another takes the lock of the new one and a third is over; the second render of `gen`
  meets what the first has left.
* *SQLite.*  A name may be of a table in one database and of a view in the other; two changes
  drop a table and make another one of the name.
* *Packages.*  Four pieces hold a special word, what makes it special twice, and the length
  at which a name is cut; two columns are enough for a collision, and the third of the
  tables in use is the one that a projection leaves out or names twice.  With three bits, the
  identities 4 and 7 are negative as a signed number.  The loop that neutralises Go suffixes is
  two turns; `FileNameIsValid` fails with one, and that two always end it is proved (`TwoTurns`).

What the properties say is written above each definition.  Some need a remark:

* `FragmentsCompose` excludes fragments that leave a comment open in SQLite.  That
  dialect ends an open comment at the end of the text, so the newline that `Write`
  inserts does not close it, and the code accepts it.
* `KeepsChoices` and `RefreshIsStable` are stated for a manifest that nobody writes while the
  command runs (`Undisturbed`).  An edit saved between `Load` and `Rename` is
  overwritten, as the code takes no lock on the manifest; the README of the
  repository restricts Sqltom to sequential use.
* `MutualExclusion`, `Recoverable` and the refinement are stated for a careful user:
  one who removes a lock only when no render is running, as the error message says, and
  does not edit an output between the two renames.  `output_careless` drops both.
  What is left then is `ReleasesOnlyFound`: a Build goes on to remove an owner file only if that file, when read, had its
  own token, and takes another running Build's lock away only where the removal by hand came between
  two of its calls: while it writes its owner file, in the clean-up of a failed acquisition, or
  between its look at the owner file and the removal of it.  These three the code does not close.

* `ReportIsTrue` says what is left of truthfulness when a directory and one below it are rendered
  at once.  It excludes one race (`overtaken`): a render of `gen` looks at an empty
  `gen` for the last time, a render of `gen/models` then installs its tree and reports
  success, and the first one moves the tree away with `gen` and removes it as its backup.
  The check for a marker (`src/README.md`: a non-empty directory is replaced only if it
  contains the marker) and the rename are two calls, and the two renders share no lock.
  The other way round, an inner render that passed its recheck may install its tree in a
  `gen` that was rendered meanwhile; it is told by its release, which finds its lock gone.
* `LastRenderKept` allows that the last tree is left under the name of a backup.  That happens
  when an inner render makes `gen` anew between the two renames of the outer one: neither
  the new nor the old tree finds its place, and the error names the backup.
* What SQLite shows of one table may be of three moments, since no transaction is around
  the list of objects, the columns and the indexes: a table without columns, one that was
  dropped after it was listed (`ValidateStructure` accepts it, and a render would refuse it), a view
  with the columns of the table that took its place, or a key that is called an identity because its table
  was dropped before its indexes were listed.  No property denies that; `TablesAreOfMoments` says
  which look each part comes from, that the moments are in order, and that the columns with
  their types and NULLs are of one.  Exactness (`UntouchedIsExact`) is for an object that nobody
  changes while it is inspected, whatever happens to the others.

**Fairness.**  `output_release` assumes weak fairness of each process's `Step`:
system calls return and the callback writes finitely many files.  Nobody is
assumed to start, cancel, crash or edit.  Crashes are excluded because the code
leaves the lock of a killed process to the user, and failures of the releasing
calls because the code reports them and leaves the lock.  `ManifestService` states
weak fairness of `CommandStep`, on the same ground; no property of it needs it.

**Finding.**  `src/README.md:142` says "Generate is Inspect followed by Render."
`generate_then_render` shows a Generate with `-tables` that succeeds where Inspect
followed by Render with the same `-tables` fails: Generate renders the identities
its selectors had in the fresh inspection (`service.go:228`), while Render resolves
them in the saved manifest (`select.go:42`), which still holds an unselected, dropped table
of the same name, and is refused as ambiguous.

## 4. The proofs

| Theorem | States, for all values of the constants |
|---|---|
| `OutputBuildProofs!TypeCorrect` | `Spec => []TypeOK` |
| `LockExcludes` | mutual exclusion, if the user is careful with locks |
| `ContentSurvives` | `[]Recoverable`, for a careful user |
| `UnmanagedSurvives` | unmanaged contents are changed by the user only, for a careful user |
| `ImplementsAtomicOutput` | `OutputBuild` refines `AtomicOutput`, for a careful user |
| `ResultIsTruthful` | `[]TruthfulResult`, for any user |
| `UnfinishedIsNeverVisible` | `[]NoPartialOutput`, for any user |
| `LocksAreReleasedByTheirOwner`, `WritesAreTheHolders` | only the holder of a lock releases it and writes below its output, the staging directories and backups beside it included, if the user is careful with locks |
| `ReleasesFollowTheirToken` | a Build, or the clean-up of a failed acquisition, removes no lock but the one whose token it has read, for any user |
| `NothingIsLeftBehind` | `[]CleanUnlessFaulted`, for a careful user |
| `NestedOutputProofs!NestedTypeCorrect` | the variables keep their types |
| `LastRenderIsKept` | `[]LastRenderKept` |
| `ReportsAreTrue` | `[]ReportIsTrue`: what a render of `gen/models` returns is true, whatever was done to `gen` meanwhile |
| `NothingIsLeftBehind` | `[]NothingLeftBehind` |
| `ManifestProofs!ServiceTypeCorrect` | `Spec => []TypeOK` |
| `RefreshIsAtomic` | `[]AllOrNothing` |
| `OutputAgrees` | `[]OutputMatchesManifest` |
| `ChoicesKept`, `FactsRefreshed`, `RefreshStable` | the three action properties of saves |
| `CatalogInspectorProofs!CatalogTypeCorrect` | `Spec => []TypeOK` |
| `InspectionIsWhole`, `KeysAreShownWhole`, `OrderDoesNotMatter` | the three invariants of an inspection, for all catalogs |
| `SqliteInspectorProofs!InspectionIsOfMoments` | `[]TablesAreOfMoments`, for any number of changes |
| `InspectionIsExact` | `[]UntouchedIsExact`, likewise |
| `QueryLexerProofs!LexerTyped` | `Spec => []TypeOK` |
| `LexerFragmentsCompose` | `[]FragmentsCompose`, for fragments of every length over every alphabet |
| `LexerEscapedParameterIsLiteral` | `[]EscapedParameterIsLiteral`, likewise |
| `LexerProtectedTextIsOpaque` | `[]ProtectedTextIsOpaque`, for protected text of every length and content, comments nested to every depth, and executable text |
| `QueryBuilderProofs!BuilderTyped` | `Spec => []TypeOK` |
| `FirstMistakeIsReported` | `[]FirstMistakeReported` |
| `BuildMeansBindings` | `[]StatementMeansBindings`, for fragments, names and lists of any number and length |
| `ReservedSizeIsEnough` | `[]ReservedSizeSuffices` |
| `GeneratedPackageProofs!UnreadIsNeverWrittenBack` | the action property of rows read in part |
| `UpdateTouchesTheKey` | the action property `UpdateIsExact` |
| `IdentityReachesTheModel` | the action property `IdentityIsRead` |
| `PackagesCompile` | `[]PackageCompiles`, for tables of any number of columns and any type mappings |
| `FileNamesAreValid` | `[]FileNameIsValid`, for names and limits of every length |

"Careful with locks" is the assumption `~CarelessUser`, "careful" adds
`~EditsDuringSwap`; the other assumptions are the named ones of the modules.  The
bounds on faults, edits, renders and generations are arbitrary natural numbers.

**Output, the lock and the contents.**  `MutualExclusion` is not inductive: a process could reach `LockSteps`
while another is there if the lock were free.  `LockInv` adds that whoever is
between the lock and its release finds the lock held, and by its own token
from the owner file on.  `Recoverable` needs `SwapInv`: at each step of `replace` what
the staging directory holds is complete, what was moved out is the kept
content, and what is about to be moved out is replaceable; and `HiddenInv`: an
output is in place, or hidden and was replaceable, without which setting aside
would not map to a step of `AtomicOutput`.  Exclusion is what makes the swap invariant of
one process survive the steps of another.  `IInv` is the conjunction.  The proof goes action by action (`LockStep`,
`SwapStep`, `HiddenStep`, `RecoverStep`); the refinement (`AtomicStep`) maps `MoveOut` to
`SetAside`, `MoveIn` to `Commit`, `Rollback` to `PutBack` and the user's actions to
`Edit`; the rest stutters.

**Output, the result and what is left.**  `TruthInv` says what `result`, `committed` and the
history know of each other at each step: nothing has failed before the rename, and every
clean-up either carries an error or has been told of the commit.  `WholeInv`
follows unfinished trees to the only places where they may be, a staging directory before
`Fill` returns and the rest of a backup that `RemoveAll` gave up on, neither of which is
ever renamed to an output.  `OwnerInv` adds to `LockInv` what the owner file holds while its
Build writes or removes it, which shows that the clean-up of a failed acquisition meets no
token but its own.  For `OnlyHolderWrites` the directories beside an output are followed through every step,
those a crash leaves without a Build included (`PlacedInv`, `BesideOthers`).  `ReleasesOnlyFound` needs
only that a lock not held has no owner file (`NoOwnerUnheld`) and which call follows which.  `CleanInv` says that, while nothing has failed, every held lock, every staging
directory and every output that is away belongs to a Build that is still to deal with it.

**Nested outputs.**  Two invariants.  `LastRenderKept` needs `SwapInv` of `NestedOutput`: between which steps the
backup holds anything, and that a `gen` that is not there has no marker.  `InnerStep` shows, action
by action, that an inner render never changes of which render the tree at `gen` is.

The other two properties speak of inner renders that have returned, and need `ReportInv`: at every call,
what the render may have in the tree that is at `gen` now, which need not be the one it began in.
`StepInv` says at which calls its staging directory and its backup are there, and that a render that
goes to an end without having installed a tree has an error to report.  `LockInv` says which calls the owner of
the lock of the present `gen` may be making, and what is left of this when that `gen` has been rendered since;
`UnownedInv` that a lock without an owner file is in the hands of somebody.  `MisplacedInv` is the heart of
`ReportIsTrue`: whoever has put his tree into a rendered `gen` no longer owns the lock there, so that his
release fails and says so.  `ProtectedInv` is its counterpart for a tree in an unmanaged `gen`: until
a render has looked for the last time, that tree is at its place or in a backup nobody is about to remove,
and no outer render is past its own look.  `PathInv` ties all of it to a `gen` that is there.  It was checked with TLC on the
819,792 states of `nested_output` before it was proved.

**Manifest.**  The properties of saves compare the renamed file with the file the
command found, several steps earlier.  The invariant `IInv` of `ManifestService` carries
the connection: `RefreshInv` says that what is about to be saved is the inspection, or
its merge with a canonical previous document, which is the one found unless
the user wrote in between; `KindInv` that the file has not changed since the start;
`FreshInv` that an inspection manages everything and its identities are `keys`;
`Written` that what is renamed is what was written; the rest connects the document
with the file after the commit.  On top of it stand lemmas about the operators (`MergeKeeps`,
`MergeRefreshes`, `MergeStable`, `CanonicalizeTwice`, the types of each operator).

**Catalog inspectors.**  `TablesInv` says that the columns gathered for a key list the rows
of that key read so far, each once: there is a bijection from the places in the table to the
rows.  `RowsInv` says that each row read was accepted and agrees with what the maps hold
now, though they have changed since.  Through the bijection what the code counts and
compares in a table becomes a statement about rows (`ValidIsConsistent`), and back
(`ConsistentIsAccepted`, `ConsistentIsValid`); key ordinals that are distinct, within 1 to n, and n
in number are all of them (`OrdinalsAreAPermutation`).  The one assumption on catalogs,
`CatalogsAssumption`, is that they are sequences of rows whose flags are Booleans and whose
numbers are integers.

**SQLite inspector.**  `IInv` follows an object from the moment it was listed (`ObjectsInv`) over the one
its columns were read (`CurrentInv`) to the one its indexes were (`TablesInv`); moments are only
added, so that what was true of some stays true (`KnownStays`), and `KeptInv` says that
an object that was there all the time is still to be listed, still to be read, or read.
`OnceInv` says that nothing is listed, read or shown twice.  `Looks` derives what three looks show from
what the code makes of them, `LooksDescribe` that three looks at one definition show what SQLite means by it:
for an object nobody touches the three are the same, whatever moments they are of.  `TypeHolds` goes through the fifteen
rules of `canonicalDataType` against the affinities of SQLite.  `DefinitionsAssumption` says what
definitions may be: columns that are not shown are of virtual tables, only tables declare
keys, and the fragments of a text are consistent ("BIGINT" has "INT", "=DATE" has no other).

**Query lexer.**  Of the state only `Typed` is needed, that the statement is a text; everything else is about all
texts.  `Recursion` gives a function that recurses to smaller arguments its recursion equation, and
`BackwardInduction` what holds from each position on.  A turn ends after it has started and inside the text
(`TurnBounds`), so that the tokens of a scan stand one after the other (`ScanTokens`).

The core is `LexemeMoved`: if two texts have the same characters from a turn to some place (`Window`), and the
same characters before it as far as PostgreSQL looks (`SameBehind`), the turn reads the same in both, wherever it
stands in them.  Either both texts end there, or the turn of the first ends there and the second goes on with something that
no turn takes along (`EndsBefore`): the newline between fragments, or the backslash of an escape.  This is where a
comment that SQLite lets stay open must be excluded.  `FoundMoved` makes it a fact about scans.

`FragmentsCompose` follows from it twice: the left fragment ends at the newline (`LeftFragment`), the right one starts after it
(`RightFragment`), and the newline itself yields nothing.  For `EscapedParameterIsLiteral` the escaped statement is
described by position (`IsEscaped`): the text after token m is `Ahead` characters further on.  From the end backwards,
what is left to read in the statement and in the escaped one correspond (`Carried`): a turn without a token is the same
in both, and where a token stands there is now an escape, followed by a name that is plain text.  What it builds to
differs, up to each escape, from the original by the name that is still to come (`EscapedBuilds`).

For `ProtectedTextIsOpaque` each form of protection is shown to be one turn (`OneTurn`; in `E'...'` the `E` is plain
text before it) that ends where the text was closed.  Of quoted text `DoubledLayout` says where each of its characters stands
in what is written for it, and the turn passes them one after the other, doubled ones as pairs (`QuotedSkips`).  A line
comment ends at its newline, because the text has no terminator (`LineOpaque`); a block comment at its last two
characters, because no pair before them opens or closes one, not even the pair that the text's end makes with them
(`BlockOpaque`); a comment with others in it where as many ends as openings have been read: from its start
forwards, the recursion at the place where character k is written is at depth `Depth` (`NestCloses`), because nothing
else reads as an opening or an end (`NestLayout`); dollar-quoted text at the first place where its tag is found, which is not earlier, for the same
reason (`DollarOpaque`).  A comment that MySQL may execute is one turn as well (`ExecutableTurn`); `FoundMoved` makes
what is found in it what its text yields alone (`ExecutableInner`), and that decides (`ExecutableChecked`).  `LettersAssumption` says that `a` and `E`, of which the property makes its texts, are letters.

**Query builder.**  The properties speak of a `Build` that has returned, `BuilderInv` of one that is half
done.  `ScanInv`: the names that have a span are those of the tokens passed, and none of these tokens is a mistake;
this is why a mistake that is met is the first.  `SpansInv`: a span holds what the value of its name expands to.
`ArgsInv`: with question marks the arguments are what the pieces passed ask for, one after the other; with
numbers every argument lies in the span of some name, which is what lets one span serve every occurrence.
`SizeInv`: what is reserved is a sum over the statement, of the estimates of the pieces passed and
the lengths of those to come.  That a compiled statement then reads as what is meant (`CompiledReads`,
`CompiledCovers`) and is no longer than that sum (`CompiledSize`) are inductions over its pieces; they
rest on lemmas that say what the folds of the community modules compute (`SumToRecursion`,
`JoinToRecursion`, `Iteration`), on counting (`CountsExist`, `CountOfConcatenation`: the k-th placeholder of a text in
parts is the placeholder of one part, at a place that depends on the parts before) and on the number of digits of a
number being monotonic (`DigitsMonotonic`): an estimate made for the largest number of a span covers the others.
`BuilderInv` was checked with TLC on the 865,808 states of `query_builder`.

The induction theorems of the library take an operator as a parameter, which these provers cannot
instantiate.  The proofs about recursive definitions therefore start with induction stated over sets (`LeastNatural`, from the
well-foundedness of finite sets under inclusion; `NaturalInduction`, `BoundedInduction`), and an existence theorem for functions
that are defined by iteration (`Iteration`), from which a fold gets its recursion equation.  These few lemmas are
the same in `QueryLexerProofs`, `QueryBuilderProofs` and `GeneratedPackageProofs`.

**Generated models: rows read in part.**  `SelectCols` takes a row for whole when the query returned as many columns as
the table has.  `WholeProjection` shows why comparing lengths is enough: a projection without
repetitions that is at least n long, into n columns, has them all.  `RowInv` then says that
a row that is not flagged was read whole.

**Generated models: Update and Insert.**  `PackageInv` says that the data of a rendered package is what
`configureRuntime` made of a table that was validated, and that every cell of the table is a value of its
column.  The second matters because SQL's NULL is equal to nothing: where a key cannot hold NULL the
statement's WHERE selects exactly the rows of the key, and where it can, in SQLite, `RejectNullUpdateKey` is set and the call
never sends it.  For an Insert, `EveryIdentityReturned` shows that every identity of the table is read, and
`ToldIsGenerated` that what is read is what was generated: the sign bit can be set only in an unsigned column of
MySQL, which is when `UnsignedLastInsertID` is set, since an identity of MySQL is alone.  These two facts about
databases, that only SQLite lets a key be NULL and only PostgreSQL has tables of several identity columns, are
in `GeneratedPackageAssumption`.

**Generated models: identifiers.**  `NamingOK` is what holds of the names, the imports and the identifiers in use
at every moment of `configureRuntime`: what has a name is in use; imports differ, avoid the model and
`database/sql`, and are those the types are written with; a package has the name of its import, and
everything else a name of its own.  The validation leaves a state of that kind (`TakenOK`), a new name keeps
it because one is free among one more candidates than there are identifiers in use (`FreeIsFree`), and
so does an import that a column's type has brought already (`ImportStep`).  That it holds after all the roles is an
induction over them (`NamedRecursion`, `AllNamedOK`).  `ImportsAreReferences` compares the conditions in
`configureRuntime` with those in the template.

**Generated models: file names.**  Every test of a name looks at its first and last elements or at those before
the first dot, so the lemmas restate the tests by position (`ByPosition`) and say where the first dot goes when an underscore is put
before it (`PartedStep`) or at the end (`AppendStep`).  A stem that ends in an underscore is special in no way
(`UnderscoreParts`), so each of the three fixes keeps what the earlier ones did (`PortableNames`), and so does a turn of the loop
(`TurnStep`), which ends after two (`TwoTurns`).  Cutting a name short leaves its stem as it was or puts the
hash into it (`Truncated`); this needs room for one character more than the hash.  What the first loop keeps of a name is
an induction over the name (`KeptElements`).  The invariant is that the name in use is the derived one;
`GeneratedPackageAssumption` says that names are sequences.

TLC checks in the runs everything the theorems state but `NestedTypeCorrect`.  The
invariants `IInv` of `OutputBuild` and `ManifestService`, `ReportInv` and `BuilderInv` were also checked
with it, as additional invariants of `output_swap`, `nested_output`, `query_builder`, and of `manifest_service` with
two commands; they are left out of the runs because they take longer to evaluate than
everything else and are proved.

**Only model-checked.**
* `LockReleased`: liveness under fairness is out of this prover's reach, as is ENABLED.
* The violation of `generate_then_render`.

## 5. What is not modelled

* *Permission bits, symbolic links on the way to a path, and path spelling.*  The model's paths
  are resolved.
* *Failures and crashes of nested renders.*  `NestedOutput` has only what renders do to each other.
* *Load.*  `Stat` and `Load` are one step, and JSON decoding is whether the file is a
  document.  `SaveAtomic`'s handling of permissions and links is left out.
* *Names.*  Identifiers come with their effective name: `SanitizeGoIdentifier` and the spelling checks of
  `validate.go` are left out, and so are JSON names and struct tags and the name of the manifest
  file (`buildManifestFilename`).  That a qualifier hides a predeclared identifier is not looked
  for, since that list is Go's.
* *Types.*  The parsing of type expressions, aliases of data types, mappings whose key is spelled
  in several ways (`customMapping`), and `WithTypeDefaults`: no dialect sets type defaults.
* *Generated models.*  Conversions of values (UUIDs in lower case, JSON, Booleans, times, nil byte
  slices), the helpers of `Rows`, `Exists`, and derived
  columns that change with an `Update`.
* *Native types and SQL of the catalog queries*: tables of constants and text; of SQLite also the DSN
  and quoting.
* *Keys of virtual tables of SQLite.*  The code would take an INTEGER key that a virtual table declares
  for the rowid, since such a table lists no index; the module a table belongs to decides what it is.
* *The query package's template*: it is copied, with the scanner and the builder that are modelled.
* *Argument parsing, messages, statistics*: sequential, stateless, and about text.
* *Test support.*

## 6. The plan

Done, in this order: `AtomicOutput`, `OutputBuild` and their proofs; `Manifest`,
`ManifestService` and their proofs; `QueryLexer`; `QueryBuilder`; `CatalogInspector`;
`NestedOutput` and its proof; `SqliteInspector`; `FileNames`, `GeneratedModel`, `GeneratedPackage` and the
proof about rows read in part; the outcome of `OutputBuild`, after which every safety property of it
is proved; `CatalogInspectorProofs`, after which everything of `CatalogInspector` is;
`SqliteInspectorProofs`, likewise; the invariants about reports of `NestedOutput`; `QueryBuilderProofs`, after which
everything of `NestedOutput` and of `QueryBuilder` is; the rest of `GeneratedPackage`, after
which everything of it is; `QueryLexerProofs`, likewise.  Every invariant and action property of the passing runs is now proved.

Left, most important first:

1. A composition of `ManifestService` with `AtomicOutput` in place of the one-step render.
2. Identifiers (`SanitizeGoIdentifier`) and the name of the manifest file, in the manner of `FileNames`.
