-------------------------- MODULE GeneratedPackage --------------------------
(***************************************************************************)
(* A generated package: the render of one table (internal/render/render.go) *)
(* and the calls of its API (internal/render/model.go.tpl) by a program    *)
(* that works with one model value on a small table.                       *)
(*                                                                         *)
(* Each call sends one statement, so that a call is one action; what the   *)
(* database does with the statement is external.  A call may fail, before  *)
(* or after the database has carried it out.  Cells are numbers: those of  *)
(* an identity are below 2 * Half instead of 2^64, the others are abstract. *)
(***************************************************************************)
EXTENDS FileNames, GeneratedModel

CONSTANTS
  Inputs,        \* a manifest's table, the names it may have, and a dialect
  Exercised,     \* names of the models whose package is used after it is rendered
  Half,          \* half the range of a generated identity, the numbers of which the sign bit is not set
  Generated,     \* the identities the database may generate
  Others,        \* the values of other columns, 0 being Go's zero value
  Projections,   \* results of SelectCols: columns by position, 0 being unknown
  MaxRows        \* rows of the table

ASSUME GeneratedPackageAssumption ==
  /\ \A i \in Inputs : \A n \in i.names \cup i.fileNames : n \in Seq(Range(n))
  /\ \A i \in Inputs : i.table.columns \in Seq(Range(i.table.columns))
  /\ \A i \in Inputs : LET columns == i.table.columns IN
       \* only SQLite lets a key be NULL, only PostgreSQL has tables of two identities
       /\ \A c \in DOMAIN columns : columns[c].key > 0 /\ columns[c].nullable => i.dialect = "sqlite"
       /\ \A c, d \in DOMAIN columns :
            columns[c].identity /\ columns[d].identity /\ c # d => i.dialect = "postgres"
       /\ i.dialect \in DOMAIN Config
  /\ \A p \in Projections : p \in Seq(Nat)
  /\ Half \in Nat /\ Half > 1 /\ MaxRows \in Nat /\ MaxRows > 0
  /\ Generated \subseteq 0..(2 * Half - 1) /\ Others \subseteq Nat /\ 0 \in Others

VARIABLES
  table, dialect,  \* the input
  phase,           \* "manifest", "rendered" or "refused"
  fileName,        \* the name of the package, its directory and its file
  data,            \* what the template was executed with
  db,              \* the rows of the table, by an internal number
  row,             \* the model value, None before there is one
  reply            \* the last call and its result

vars == <<table, dialect, phase, fileName, data, db, row, reply>>
input == <<table, dialect, phase, fileName, data>>

None == [vals |-> <<>>, partial |-> FALSE, read |-> {}]
Null == -1 - 2 * Half
Columns == DOMAIN table.columns
Options == Config[dialect]

Init ==
  /\ \E i \in Inputs : \E n \in i.names, f \in i.fileNames :
       /\ table = [type |-> i.table.type, goName |-> i.table.goName, columns |-> i.table.columns,
                   name |-> n, fileName |-> f]
       /\ dialect = i.dialect
  /\ phase = "manifest" /\ fileName = <<>> /\ data = <<>>
  /\ db = <<>> /\ row = None /\ reply = <<"", "">>

(* The manifest is validated, then the package is written; a directory of the
   name of the support package is refused. *)
Render ==
  /\ phase = "manifest"
  /\ fileName' = EffectiveFileName(table.fileName, table.name)
  /\ IF Validate(table) /\ fileName' \notin {Refused, <<"query">>}
     THEN phase' = "rendered" /\ data' = configureRuntime(BuildData(table), Options)
     ELSE phase' = "refused" /\ UNCHANGED data
  /\ UNCHANGED <<table, dialect, db, row, reply>>

-----------------------------------------------------------------------------
(* Values. *)

Field(i) == data.columns[i].resolved
IsIdentity(i) == table.columns[i].identity

Values(i) ==
  IF IsIdentity(i)
  THEN {v \in Generated : v < Half \/ (dialect = "mysql" /\ table.columns[i].dataType = "unsignedbigint")}
  ELSE IF table.columns[i].nullable THEN Others \cup {Null} ELSE Others

HoldsNull(i) == Field(i).pointer \/ Field(i).base = "any"
Zero(i) == IF HoldsNull(i) THEN Null ELSE 0

(* Whether the field of the model can hold a value. *)
Fits(i, v) ==
  CASE ~IsIdentity(i) -> v # Null \/ HoldsNull(i)
    [] Field(i).base = "int64" -> v \in -Half..(Half - 1)
    [] OTHER -> v \in 0..(2 * Half - 1)

SameKey(cells, key) == \A i \in key : cells[i] = row.vals[i]
Rows == DOMAIN db
IsNull(i) == row.vals[i] = Null

Answer(call, result) == reply' = <<call, result>> /\ UNCHANGED input
InUse == phase = "rendered" /\ table.goName \in Exercised

-----------------------------------------------------------------------------
(* Reading. *)

(* SelectAll, through Query, and the caller takes one of the rows. *)
SelectAll ==
  /\ InUse
  /\ \E id \in Rows :
       IF \A i \in Columns : Fits(i, db[id][i])
       THEN /\ row' = [vals |-> db[id], partial |-> FALSE, read |-> Columns]
            /\ Answer("SelectAll", "nil")
       ELSE UNCHANGED row /\ Answer("SelectAll", "scan")
  /\ UNCHANGED db

(* Mutant of ProjectionRefused: a column may come twice. *)
ProjectionRefusedUnlessDuplicate(projection) == projection = <<>> \/ 0 \in Range(projection)

ProjectionRefused(projection) ==
  projection = <<>> \/ 0 \in Range(projection) \/ ~IsInjective(projection)

SelectCols(projection) ==
  /\ InUse /\ Range(projection) \subseteq Columns \cup {0}
  /\ IF ProjectionRefused(projection)
     THEN UNCHANGED row /\ Answer("SelectCols", "refused")
     ELSE \E id \in Rows :
       IF \A i \in Range(projection) : Fits(i, db[id][i])
       THEN /\ row' = [vals |-> [i \in Columns |-> IF i \in Range(projection) THEN db[id][i] ELSE Zero(i)],
                       partial |-> Len(projection) < Len(table.columns),
                       read |-> Range(projection)]
            /\ Answer("SelectCols", "nil")
       ELSE UNCHANGED row /\ Answer("SelectCols", "scan")
  /\ UNCHANGED db

(* The caller makes a model value of its own. *)
Literal ==
  /\ InUse
  /\ row' = [vals |-> [i \in Columns |-> Zero(i)], partial |-> FALSE, read |-> Columns]
  /\ Answer("", "") /\ UNCHANGED db

(* The caller assigns a field. *)
Assign(i, v) ==
  /\ InUse /\ row # None /\ row.vals[i] # v
  /\ row' = [row EXCEPT !.vals[i] = v, !.read = @ \cup {i}]
  /\ Answer("", "") /\ UNCHANGED db

-----------------------------------------------------------------------------
(* Writing. *)

(* The cells an INSERT of the model value may give the new row. *)
AllRows == {cells \in [Columns -> UNION {Values(i) : i \in Columns}] : \A i \in Columns : cells[i] \in Values(i)}
NewRows ==
  {cells \in AllRows :
     \A i \in Columns :
       /\ i \in data.write => cells[i] = row.vals[i]
       /\ IsIdentity(i) => \A id \in Rows : db[id][i] # cells[i]}

KeyPositions == {i \in Columns : table.columns[i].key > 0}
KeyTaken(cells) ==
  KeyPositions # {} /\ \E id \in Rows : \A i \in KeyPositions : db[id][i] = cells[i] /\ cells[i] # Null

Insertable(cells) == Cardinality(Rows) < MaxRows /\ ~KeyTaken(cells)
Inserted(cells) ==
  LET new == Min((1..MaxRows) \ Rows) IN
  [id \in Rows \cup {new} |-> IF id = new THEN cells ELSE db[id]]

(* LastInsertId is signed; MySQL keeps the bits of an unsigned identity. *)
LastInsertId(v) == IF v < Half THEN v ELSE v - 2 * Half

(* Mutant of Told: the sign is taken as it comes. *)
ToldSigned(v) == IF Options.insert # "last-insert-id" THEN v ELSE LastInsertId(v)

Told(v) ==
  IF Options.insert # "last-insert-id" THEN v
  ELSE LET last == LastInsertId(v) IN
       IF data.needs.unsigned /\ last < 0 THEN last + 2 * Half ELSE last

(* The identities an INSERT tells: RETURNING names all, the other ways tell one. *)
Returned ==
  IF Options.insert = "returning" \/ data.identity = {} THEN data.identity ELSE {Min(data.identity)}

(* The row is inserted; then the generated identities are read into the model,
   one field after the other, until one cannot hold its value. *)
InsertRow(cells) ==
  LET unread == {i \in Returned : ~Fits(i, Told(cells[i]))}
      told   == {i \in Returned : \A j \in unread : i < j}
  IN /\ Insertable(cells)
     /\ db' = Inserted(cells)
     /\ row' = [row EXCEPT !.vals = [i \in Columns |-> IF i \in told THEN Told(cells[i]) ELSE row.vals[i]]]
     /\ Answer("Insert", IF unread = {} THEN "nil" ELSE "convert")

(* The call fails: the database refuses the row, or the answer is lost. *)
InsertFails(cells) ==
  /\ db' \in {db} \cup (IF Insertable(cells) THEN {Inserted(cells)} ELSE {})
  /\ UNCHANGED row /\ Answer("Insert", "database")

Insert ==
  /\ InUse /\ data.base /\ row # None
  /\ IF row.partial THEN UNCHANGED <<db, row>> /\ Answer("Insert", "refused")
     ELSE \E cells \in NewRows : InsertRow(cells) \/ InsertFails(cells)

(* UPDATE ... SET the columns that are not part of the key WHERE the whole key
   is equal, which NULL is to nothing. *)
Updated ==
  [id \in Rows |->
     IF SameKey(db[id], data.key) /\ \A i \in data.key : ~IsNull(i)
     THEN [i \in Columns |-> IF i \in data.update THEN row.vals[i] ELSE db[id][i]]
     ELSE db[id]]

(* The database refuses the statement when a column cannot take its value. *)
Updatable == \A id \in Rows : Updated[id] \in AllRows

Update ==
  /\ InUse /\ data.base /\ row # None /\ data.key # {} /\ data.update # {}
  /\ IF row.partial THEN UNCHANGED db /\ Answer("Update", "refused")
     ELSE IF data.needs.rejectNull /\ \E i \in data.key : IsNull(i)
     THEN UNCHANGED db /\ Answer("Update", "null key")
     ELSE \/ Updatable /\ db' = Updated /\ Answer("Update", "nil")
          \/ db' \in {db} \cup (IF Updatable THEN {Updated} ELSE {}) /\ Answer("Update", "database")
  /\ UNCHANGED row

(* Delete removes the rows its suffix selects, with one statement. *)
Delete(ids) ==
  /\ InUse /\ data.base /\ ids # {}
  /\ \/ db' = [id \in Rows \ ids |-> db[id]] /\ Answer("Delete", "nil")
     \/ db' \in {db, [id \in Rows \ ids |-> db[id]]} /\ Answer("Delete", "database")
  /\ UNCHANGED row

(* Another program inserts a row. *)
OtherInsert(cells) ==
  /\ InUse /\ Insertable(cells)
  /\ \A i \in Columns : IsIdentity(i) => \A id \in Rows : db[id][i] # cells[i]
  /\ db' = Inserted(cells)
  /\ UNCHANGED row /\ Answer("", "")

Next ==
  \/ Render \/ SelectAll \/ Literal \/ Insert \/ Update
  \/ \E p \in Projections : SelectCols(p)
  \/ \E i \in Columns : \E v \in Values(i) : Assign(i, v)
  \/ \E ids \in SUBSET Rows : Delete(ids)
  \/ \E cells \in AllRows : OtherInsert(cells)

Spec == Init /\ [][Next]_vars

-----------------------------------------------------------------------------
(* Properties. *)

(* A row that SelectCols read in part is never written: whenever Insert or
   Update changes the table, every field of the model was read from the
   database or given by the caller. *)
UnreadIsNeverWritten ==
  [][(reply'[1] \in {"Insert", "Update"} /\ db' # db) => row.read = Columns]_vars

(* An Update that returns nil has given the rows with the model's primary key,
   all of its columns and NULL being a value like another, the model's values in
   every other column the program may write, and has left all other rows and
   columns alone. *)
UpdateIsExact ==
  [][reply' = <<"Update", "nil">> =>
       db' = [id \in Rows |->
                [i \in Columns |->
                   IF /\ SameKey(db[id], KeyPositions) /\ i \notin KeyPositions
                      /\ IsWritableColumn(table.columns[i])
                   THEN row.vals[i] ELSE db[id][i]]]]_vars

(* An Insert that returns nil has added one row, with the model's values, and
   left the row's generated identity in the model; the identity is reported as
   unreadable only when the model's field cannot hold it, however large it is. *)
IdentityIsRead ==
  [][\A id \in DOMAIN db' \ Rows :
       /\ reply' = <<"Insert", "nil">> =>
            /\ \A other \in Rows : db'[other] = db[other]
            /\ \A i \in Columns :
                 IsIdentity(i) \/ IsWritableColumn(table.columns[i]) => db'[id][i] = row'.vals[i]
       /\ reply' = <<"Insert", "convert">> =>
            \E i \in Columns : IsIdentity(i) /\ ~Fits(i, db'[id][i])]_vars

(* The identifiers and imports of a generated package do not collide, for any
   names and types the validation accepts: what the template names is distinct
   from the model, from database/sql and from the packages of the columns'
   types; no field is hidden by the flag of partial rows; and exactly the
   packages the code refers to are imported. *)
PackageCompiles ==
  phase = "rendered" =>
    LET names == data.names
        packages == {"driver", "strconv", "errors", "fmt", "time", "strings", "mssql"}
        own == DOMAIN names \ packages
        typed == TypeImports({Field(i) : i \in Columns})
    IN /\ \A m, n \in DOMAIN names : m # n => names[m] # names[n]
       /\ \A n \in own : names[n] \notin Range(data.imports)
       /\ Range(names) \cap {data.goName, <<"sql", 0>>} = {}
       /\ IsInjective(data.imports) /\ data.goName \notin Range(data.imports)
       /\ \A t \in typed : data.imports[t.path] = t.qualifier
       /\ names["partial"] \notin {table.columns[i].goName : i \in Columns}
       /\ packages \cap DOMAIN names = References(data)

(* The name derived for a table is always one the validation accepts, a valid
   name is kept as it is, and a name is refused only when nothing of it may
   stand in an import path: no fix of a name undoes another. *)
FileNameIsValid ==
  phase # "manifest" =>
    /\ fileName # Refused => validateGoFileComponent(fileName)
    /\ table.fileName = <<>> =>
         /\ validateGoFileComponent(table.name) => fileName = table.name
         /\ fileName = Refused => Range(table.name) \subseteq {"invalid", ".", "_", "-"}
=============================================================================
