-------------------------- MODULE SqliteInspector ---------------------------
(***************************************************************************)
(* inspectCatalog of the SQLite backend                                    *)
(* (src/internal/dialect/sqlite/inspector.go): the catalog is read by one  *)
(* PRAGMA after the other, the lists of objects first, then the columns    *)
(* and, for some tables, the indexes of each object, without a transaction *)
(* around them.  Another process may change the schema between any two.    *)
(*                                                                         *)
(* Names are model values.  A declared type is the set of fragments of its *)
(* upper-case text that the code looks for; "=X" stands for the whole text *)
(* being X.  Lists whose order the code only passes on are sets.           *)
(***************************************************************************)
EXTENDS Integers, Sequences, FiniteSets, FiniteSetsExt, SequencesExt

CONSTANTS
  Versions,      \* what sqlite_version() returns
  Databases,     \* the schema names of database_list
  Main,          \* "main"
  File,          \* the base name of each file; Main's may be Memory
  Memory,        \* no file
  Names,         \* of tables and views
  Internal,      \* names that begin with sqlite_
  Definitions,   \* what CREATE may say of an object
  Created,       \* bound: those of them that other processes create meanwhile
  Start,         \* the schemas the inspection may start with
  MaxChanges,    \* bound: changes of the schema by other processes
  None           \* nothing

ASSUME NamesAssumption ==
  /\ Main \in Databases
  /\ Internal \subseteq Names
  /\ None \notin Definitions
  /\ Created \subseteq Definitions
  /\ Start \subseteq [Databases -> [Names -> Definitions \cup {None}]]

ASSUME MaxChangesAssumption == MaxChanges \in Nat

(* Columns that are not shown are of virtual tables, only tables declare
   keys, and a text has the fragments of its fragments. *)
ASSUME DefinitionsAssumption ==
  \A def \in Definitions :
    /\ def.kind \in {"table", "virtual", "view", "shadow"}
    /\ \A k \in DOMAIN def.columns :
         LET row == def.columns[k] IN
         /\ row.hidden \in 0 .. 3
         /\ row.hidden = 1 => def.kind = "virtual"
         /\ row.key > 0 => def.kind \in {"table", "shadow"}
         /\ row.declared \cap {"BIGINT", "SMALLINT", "TINYINT"} # {} => "INT" \in row.declared
         /\ \A text \in {"=", "=ANY", "=DATE", "=TIME"} :
              text \in row.declared => row.declared = {text}

-----------------------------------------------------------------------------
(* SQLite: what the PRAGMAs show of a definition.  A definition has a kind,
   its columns, rowid (FALSE: WITHOUT ROWID) and descending: whether the key is
   declared INTEGER PRIMARY KEY DESC on its column. *)

Schemas == [Databases -> [Names -> Definitions \cup {None}]]

KeyOf(columns) == {k \in DOMAIN columns : columns[k].key > 0}

(* The key is the rowid itself. *)
RowIDAlias(def) ==
  /\ def.kind = "table" /\ def.rowid /\ ~def.descending
  /\ \E k \in DOMAIN def.columns :
       KeyOf(def.columns) = {k} /\ "=INTEGER" \in def.columns[k].declared

(* index_list shows an index with origin "pk"; of an object that is gone, or
   whose key is the rowid, it shows none. *)
ListsKeyIndex(def) ==
  def # None /\ def.kind = "table" /\ KeyOf(def.columns) # {} /\ ~RowIDAlias(def)

(* table_xinfo of an object that is gone shows no rows. *)
XInfo(def) == IF def = None THEN <<>> ELSE def.columns

-----------------------------------------------------------------------------
VARIABLES
  schema,     \* the schema as it is now
  moments,    \* history: the schemas there were since the inspection began
  step,       \* "version", "databases", "objects", "columns", "index", "end"
  version,
  unlisted,   \* databases whose objects are still to be listed
  databaseName,
  objects,    \* objects whose columns are still to be read
  current,    \* object and columns whose indexes are still to be read
  tables,     \* tables read
  outcome     \* "reading", "failed", "refused" or "returned"

locals == <<unlisted, databaseName, objects, current, tables>>
vars == <<schema, moments, step, version, locals, outcome>>

Init ==
  /\ schema \in Start
  /\ moments = <<schema>>
  /\ step = "version"
  /\ version \in Versions
  /\ unlisted = {}
  /\ databaseName = None
  /\ objects = {}
  /\ current = None
  /\ tables = {}
  /\ outcome = "reading"

At(s) == step = s /\ outcome = "reading"

-----------------------------------------------------------------------------
(* RequireMinimumVersion: 3.37, the first with table_list; None cannot be
   parsed. *)
Supported(v) == v # None /\ (v.major > 3 \/ (v.major = 3 /\ v.minor >= 37))

CheckVersion ==
  /\ At("version")
  /\ IF Supported(version)
     THEN step' = "databases" /\ UNCHANGED outcome
     ELSE outcome' = "refused" /\ UNCHANGED step
  /\ UNCHANGED <<schema, moments, version, locals>>

databaseNameFromFile(file) == IF file = Memory THEN Main ELSE file

(* inspectDatabases, and the name that becomes TableCatalog. *)
inspectDatabases ==
  /\ At("databases")
  /\ step' = "objects"
  /\ unlisted' = Databases
  /\ databaseName' = databaseNameFromFile(File[Main])
  /\ UNCHANGED <<schema, moments, version, objects, current, tables, outcome>>

TableType(kind) == IF kind = "view" THEN "VIEW" ELSE "BASE TABLE"

(* inspectObjects: table_list without SQLite's own tables and the shadow
   tables of virtual ones. *)
Object(db, name) ==
  [schema       |-> db,
   name         |-> name,
   type         |-> TableType(schema[db][name].kind),
   withoutRowID |-> ~schema[db][name].rowid]

Listed(def) == def # None /\ def.kind \in {"table", "virtual", "view"}

inspectObjects(db) ==
  /\ At("objects")
  /\ db \in unlisted
  /\ objects' = objects \cup {Object(db, n) : n \in {n \in Names \ Internal : Listed(schema[db][n])}}
  /\ unlisted' = unlisted \ {db}
  /\ step' = IF unlisted' = {} THEN "columns" ELSE step
  /\ UNCHANGED <<schema, moments, version, databaseName, current, tables, outcome>>

-----------------------------------------------------------------------------
(* canonicalDataType: the first rule one of whose fragments the text has; a
   text without any is kept. *)
TypeRules ==
  <<[has |-> {"=", "=ANY"},              type |-> "any"],
    [has |-> {"JSON"},                   type |-> "json"],
    [has |-> {"UUID"},                   type |-> "uuid"],
    [has |-> {"BIGINT"},                 type |-> "bigint"],
    [has |-> {"SMALLINT"},               type |-> "smallint"],
    [has |-> {"TINYINT"},                type |-> "tinyint"],
    [has |-> {"INT"},                    type |-> "integer"],
    [has |-> {"CHAR", "CLOB", "TEXT"},   type |-> "string"],
    [has |-> {"BLOB"},                   type |-> "binary"],
    [has |-> {"REAL", "FLOA", "DOUB"},   type |-> "double"],
    [has |-> {"BOOL"},                   type |-> "boolean"],
    [has |-> {"DATETIME", "TIMESTAMP"},  type |-> "datetime"],
    [has |-> {"=DATE"},                  type |-> "date"],
    [has |-> {"=TIME"},                  type |-> "time"],
    [has |-> {"DEC", "NUM"},             type |-> "decimal"]>>

canonicalDataType(declared) ==
  LET matching == {k \in DOMAIN TypeRules : TypeRules[k].has \cap declared # {}}
  IN IF matching = {} THEN "native" ELSE TypeRules[Min(matching)].type

(* A row of table_xinfo: hidden is 1 for a column of a virtual table that is
   not shown, 2 and 3 for generated columns. *)
Column(row, id) ==
  [name      |-> row.name,
   ordinal   |-> id,
   nullable  |-> ~row.notNull,
   type      |-> canonicalDataType(row.declared),
   key       |-> row.key,
   generated |-> row.hidden \in {2, 3},
   default   |-> row.default,
   identity  |-> FALSE]

Shown(rows) == {k \in DOMAIN rows : rows[k].hidden # 1}
Columns(rows) == {Column(rows[k], k) : k \in Shown(rows)}

Table(object, columns) ==
  [catalog |-> databaseName, schema |-> object.schema, name |-> object.name,
   type |-> object.type, columns |-> columns]

(* Mutant: the PRAGMA does not name the schema, so that it finds main's table
   of that name first. *)
RowsUnqualified(object) ==
  IF schema[Main][object.name] # None THEN XInfo(schema[Main][object.name])
  ELSE XInfo(schema[object.schema][object.name])

(* PRAGMA "schema".table_xinfo('name'). *)
Rows(object) == XInfo(schema[object.schema][object.name])

(* A key that may be an alias of the rowid: one column, declared INTEGER. *)
MayBeRowID(object, rows) ==
  /\ ~object.withoutRowID
  /\ \E k \in Shown(rows) :
       KeyOf(rows) \cap Shown(rows) = {k} /\ "=INTEGER" \in rows[k].declared

(* inspectColumns, up to the look at the indexes. *)
inspectColumns(object) ==
  /\ At("columns")
  /\ object \in objects
  /\ objects' = objects \ {object}
  /\ IF MayBeRowID(object, Rows(object))
     THEN /\ step' = "index"
          /\ current' = [object |-> object, columns |-> Columns(Rows(object))]
          /\ UNCHANGED tables
     ELSE /\ tables' = tables \cup {Table(object, Columns(Rows(object)))}
          /\ UNCHANGED <<step, current>>
  /\ UNCHANGED <<schema, moments, version, unlisted, databaseName, outcome>>

WithIdentity(columns) ==
  {IF c.key > 0 THEN [c EXCEPT !.identity = TRUE, !.nullable = FALSE] ELSE c : c \in columns}

(* Mutant: every such key is taken for the rowid. *)
hasPrimaryKeyIndexNever(object) == FALSE

hasPrimaryKeyIndex(object) == ListsKeyIndex(schema[object.schema][object.name])

(* inspectColumns: an alias of the rowid has no index of its own. *)
inspectIndexes ==
  /\ At("index")
  /\ tables' = tables \cup
       {Table(current.object, IF hasPrimaryKeyIndex(current.object) THEN current.columns
                              ELSE WithIdentity(current.columns))}
  /\ current' = None
  /\ step' = "columns"
  /\ UNCHANGED <<schema, moments, version, unlisted, databaseName, objects, outcome>>

(* The document is validated, which the rows of SQLite always pass: a table
   that has no columns any more is not looked for here. *)
Finish ==
  /\ At("columns")
  /\ objects = {}
  /\ step' = "end"
  /\ outcome' = "returned"
  /\ UNCHANGED <<schema, moments, version, locals>>

(* A query, Scan or rows.Err fails, or ctx is cancelled. *)
Interrupted ==
  /\ outcome = "reading"
  /\ outcome' = "failed"
  /\ UNCHANGED <<schema, moments, step, version, locals>>

(* Another process creates, alters or drops an object; before the lists are
   read that is just another schema to start with. *)
Change(db, name, def) ==
  /\ outcome = "reading" /\ step # "version"
  /\ Len(moments) <= MaxChanges
  /\ schema[db][name] # def
  /\ schema' = [schema EXCEPT ![db][name] = def]
  /\ moments' = Append(moments, schema')
  /\ UNCHANGED <<step, version, locals, outcome>>

Next ==
  \/ CheckVersion \/ inspectDatabases
  \/ \E db \in Databases : inspectObjects(db)
  \/ \E object \in objects : inspectColumns(object)
  \/ inspectIndexes \/ Finish \/ Interrupted
  \/ \E db \in Databases, n \in Names \ Internal, def \in Created \cup {None} : Change(db, n, def)

Spec == Init /\ [][Next]_vars

-----------------------------------------------------------------------------
(* Properties. *)

(* The affinity SQLite gives a declared type, and the types of the manifest
   whose Go types hold the values of an affinity. *)
Affinity(declared) ==
  IF "INT" \in declared THEN "INTEGER"
  ELSE IF declared \cap {"CHAR", "CLOB", "TEXT"} # {} THEN "TEXT"
  ELSE IF declared \cap {"BLOB", "="} # {} THEN "BLOB"
  ELSE IF declared \cap {"REAL", "FLOA", "DOUB"} # {} THEN "REAL"
  ELSE "NUMERIC"

Holds ==
  [INTEGER |-> {"bigint", "smallint", "tinyint", "integer"},
   TEXT    |-> {"string"},
   BLOB    |-> {"binary", "any"},
   REAL    |-> {"double"},
   NUMERIC |-> {"boolean", "datetime", "date", "time", "decimal", "native", "any"}]

Visible(def) == def # None /\ def.kind # "shadow"

(* What an inspection says of an object that was `listed' when the objects were
   listed, `read' when its columns were and `indexed' when its indexes were. *)
ShowsLooks(t, listed, read, indexed) ==
  LET rows == XInfo(read) IN
  /\ Visible(listed)
  /\ t.type = IF listed.kind = "view" THEN "VIEW" ELSE "BASE TABLE"
  /\ {c.ordinal : c \in t.columns} = {k \in DOMAIN rows : rows[k].hidden # 1}
  /\ \A c \in t.columns :
       LET row == rows[c.ordinal] IN
       /\ c.name = row.name /\ c.key = row.key
       /\ c.generated = (row.hidden # 0) /\ c.default = row.default
       /\ row.declared \cap {"JSON", "UUID"} # {} \/ c.type \in Holds[Affinity(row.declared)]
       /\ c.identity = (/\ listed.rowid
                        /\ KeyOf(rows) = {c.ordinal}
                        /\ "=INTEGER" \in row.declared
                        /\ ~ListsKeyIndex(indexed))
       /\ c.nullable = (~row.notNull /\ ~c.identity)

(* What it should say of one definition: the identity is SQLite's rowid. *)
Describes(t, def) ==
  /\ ShowsLooks(t, def, def, def)
  /\ \A c \in t.columns : c.identity = (c.key > 0 /\ RowIDAlias(def))

(* Whatever other processes do to other objects meanwhile, an inspection that
   returns shows a table or view that nobody touches exactly once and as it is,
   and what is not there it does not show: in particular one that is interrupted
   does not return the part it has read. *)
UntouchedIsExact ==
  outcome = "returned" =>
    \A db \in Databases, n \in Names \ Internal :
      LET def   == schema[db][n]
          shown == {t \in tables : t.schema = db /\ t.name = n} IN
      (\A i \in DOMAIN moments : moments[i][db][n] = def) =>
        IF Visible(def) THEN \E t \in tables : shown = {t} /\ Describes(t, def) ELSE shown = {}

(* What an object that is changed meanwhile may look like.  Nothing makes its
   three looks of one moment.  But they are of moments in the order the code
   looks: the kind of the first, the columns, their types and NULLs all of the
   second, and an identity as the three together give it; so that no columns of
   two moments are ever mixed.  And what was there all the time, changed or not,
   is not missed. *)
TablesAreOfMoments ==
  outcome = "returned" =>
    /\ \A t \in tables :
         LET Then(i) == moments[i][t.schema][t.name] IN
         /\ t.name \notin Internal
         /\ \E i, j, k \in DOMAIN moments :
              i <= j /\ j <= k /\ ShowsLooks(t, Then(i), Then(j), Then(k))
    /\ \A db \in Databases, n \in Names \ Internal :
         (\A i \in DOMAIN moments : Visible(moments[i][db][n])) =>
           \E t \in tables : t.schema = db /\ t.name = n
=============================================================================
