--------------------------- MODULE GeneratedModel ---------------------------
(***************************************************************************)
(* What a render decides about the package of one table: whether it is     *)
(* refused (internal/render/validation.go, manifest.ValidateForRender), the *)
(* types, the columns of the statements, the imports and the identifiers   *)
(* (internal/render/model.go), under the options of the dialect            *)
(* (internal/dialect/*/renderer.go).                                       *)
(*                                                                         *)
(* An identifier is a base and the underscores after it, <<"row", 1>> being *)
(* row_.  A table is a record: type, fileName and name (sequences of       *)
(* tokens), goName and columns, a sequence of records with the effective   *)
(* name of the field, the canonical data type, the Go type the user chose  *)
(* (or NoGoType), nullable, identity, derived (computed, generated or a row *)
(* version) and key, the position in the primary key or 0.                 *)
(***************************************************************************)
EXTENDS Integers, Sequences, SequencesExt, FiniteSetsExt

CONSTANT TypeMappings   \* the manifest's own mappings: a function from data types

GoType(pointer, base, path, qualifier) ==
  [pointer |-> pointer, base |-> base, path |-> path, qualifier |-> qualifier]
Local(base) == GoType(FALSE, base, "", <<"", 0>>)
NoGoType == Local("")

(* The options of the four dialects. *)
Config ==
  [postgres  |-> [insert |-> "returning", unsignedLastInsertID |-> FALSE, rejectNullUpdateKey |-> FALSE,
                  scanBinary |-> FALSE, scanSQLServerUUID |-> FALSE, typedBinaryNulls |-> FALSE],
   mysql     |-> [insert |-> "last-insert-id", unsignedLastInsertID |-> TRUE, rejectNullUpdateKey |-> FALSE,
                  scanBinary |-> FALSE, scanSQLServerUUID |-> FALSE, typedBinaryNulls |-> FALSE],
   sqlite    |-> [insert |-> "last-insert-id", unsignedLastInsertID |-> FALSE, rejectNullUpdateKey |-> TRUE,
                  scanBinary |-> TRUE, scanSQLServerUUID |-> FALSE, typedBinaryNulls |-> FALSE],
   sqlserver |-> [insert |-> "scope-identity", unsignedLastInsertID |-> FALSE, rejectNullUpdateKey |-> FALSE,
                  scanBinary |-> FALSE, scanSQLServerUUID |-> TRUE, typedBinaryNulls |-> TRUE]]

-----------------------------------------------------------------------------
(* Types: the user's choice for the column, the manifest's mapping for the data
   type, the built-in mapping, of which these entries stand for the kinds there
   are; a nullable column gets a pointer. *)

builtinTypeMappings ==
  [bigint |-> Local("int64"), rowversion |-> Local("[]byte"), unsignedbigint |-> Local("uint64"),
   string |-> Local("string"), uuid |-> Local("string"), time |-> Local("string"), boolean |-> Local("bool"),
   binary |-> Local("[]byte"), any |-> Local("any"),
   datetime |-> GoType(FALSE, "Time", "time", <<"time", 0>>),
   json |-> GoType(FALSE, "RawMessage", "encoding/json", <<"json", 0>>)]

resolveMapping(mapping, nullable) ==
  IF nullable /\ mapping.base # "any" THEN [mapping EXCEPT !.pointer = TRUE] ELSE mapping

ResolveType(column) ==
  IF column.goType # NoGoType THEN column.goType
  ELSE resolveMapping(IF column.dataType \in DOMAIN TypeMappings THEN TypeMappings[column.dataType]
                      ELSE builtinTypeMappings[column.dataType],
                      column.nullable)

IsUUIDString(c) == c.dataType = "uuid" /\ c.resolved.base = "string"
IsBinaryBytes(c) == c.dataType \in {"binary", "rowversion"} /\ c.resolved.base = "[]byte"
ScanKind(c) ==
  IF c.dataType \in {"json", "boolean"} \/ IsUUIDString(c) THEN c.dataType
  ELSE IF c.dataType = "time" /\ c.resolved.base = "string" THEN "time"
  ELSE ""

-----------------------------------------------------------------------------
(* Validation. *)

Declarations(table) ==
  {<<d, 0>> : d \in {"DBTX", "SelectAll", "SelectCols", "Rows", "ErrMultipleRows",
                     "ErrIndexOutOfRange", "Exists", "Query"}}
    \cup (IF table.type = "BASE TABLE" THEN {<<"Delete", 0>>} ELSE {})

(* Path and qualifier of every import the types of a table need. *)
Import(path, qualifier) == [path |-> path, qualifier |-> qualifier]
TypeImports(types) == {Import(t.path, t.qualifier) : t \in {t \in types : t.path # ""}}

Validate(table) ==
  LET types   == {ResolveType(table.columns[i]) : i \in DOMAIN table.columns}
      imports == TypeImports(types) \cup {Import("database/sql", <<"sql", 0>>)}
  IN /\ table.columns # <<>>
     /\ \A i, j \in DOMAIN table.columns : i # j => table.columns[i].goName # table.columns[j].goName
     /\ \A a, b \in imports : (a.path = b.path) = (a.qualifier = b.qualifier)
     /\ \A a \in imports : a.qualifier \notin Declarations(table) \cup {table.goName}
     /\ table.goName \notin Declarations(table)
     /\ table.type = "BASE TABLE" =>
          \A i \in DOMAIN table.columns : table.columns[i].goName \notin {<<"Insert", 0>>, <<"Update", 0>>}

-----------------------------------------------------------------------------
(* BuildData: the columns of the statements, as sets of positions in the table.
   A statement names its columns, and its arguments follow the same list, so that
   nothing depends on the order. *)

IsWritableColumn(column) == ~column.identity /\ ~column.derived

(* Mutant of primaryKeyNames: only the first column of the key. *)
primaryKeyNamesFirst(columns) == {i \in DOMAIN columns : columns[i].key = 1}

primaryKeyNames(columns) == {i \in DOMAIN columns : columns[i].key > 0}

(* The fields that configureRuntime sets are empty. *)
BuildData(table) ==
  LET columns == [i \in DOMAIN table.columns |->
                    LET c == table.columns[i] IN
                    [goName |-> c.goName, dataType |-> c.dataType, resolved |-> ResolveType(c)]]
      write == {i \in DOMAIN columns : IsWritableColumn(table.columns[i])}
      key   == primaryKeyNames(table.columns)
  IN [goName |-> table.goName, base |-> table.type = "BASE TABLE", columns |-> columns,
      write |-> write, key |-> key, update |-> write \ key,
      identity |-> {i \in DOMAIN columns : table.columns[i].identity},
      needs |-> {}, names |-> <<>>, imports |-> <<>>]

-----------------------------------------------------------------------------
(* configureRuntime: what the package needs. *)

(* MySQL only: the bits of an unsigned identity come as a signed number. *)
UnsignedLastInsertID(data, config) ==
  /\ config.unsignedLastInsertID /\ data.base /\ data.identity # {}
  /\ data.columns[Min(data.identity)].dataType = "unsignedbigint"
  /\ config.insert = "last-insert-id"

RejectNullUpdateKey(data, config) ==
  config.rejectNullUpdateKey /\ data.base /\ data.key # {} /\ data.update # {}

Needs(data, config) ==
  LET Of(i) == data.columns[i]
      kinds == {IF config.scanSQLServerUUID /\ Of(i).dataType = "uuid" THEN "uuid"
                ELSE IF config.scanBinary /\ IsBinaryBytes(Of(i)) THEN "binary"
                ELSE ScanKind(Of(i)) : i \in DOMAIN data.columns} \ {""}
      arguments == IF data.base THEN {Of(i) : i \in data.write \cup data.key} ELSE {}
  IN [scans |-> kinds,
      json |-> \E c \in arguments : c.dataType = "json",
      uuid |-> \E c \in arguments : IsUUIDString(c),
      binary |-> config.typedBinaryNulls /\ \E c \in arguments : IsBinaryBytes(c) /\ c.resolved.pointer,
      lastInsertID |-> data.base /\ data.identity # {} /\ config.insert = "last-insert-id",
      unsigned |-> UnsignedLastInsertID(data, config),
      rejectNull |-> RejectNullUpdateKey(data, config),
      mssql |-> config.scanSQLServerUUID /\ "uuid" \in kinds]

(* The packages that are imported. *)
Packages(needs) ==
  {"errors", "fmt"}
    \cup {p \in {"driver"} : needs.scans # {} \/ needs.json \/ needs.rejectNull \/ needs.lastInsertID}
    \cup {p \in {"strconv"} : needs.unsigned}
    \cup {p \in {"time"} : "time" \in needs.scans}
    \cup {p \in {"strings"} : "uuid" \in needs.scans}
    \cup {p \in {"mssql"} : needs.mssql}

-----------------------------------------------------------------------------
(* configureRuntime: identifiers. *)

Free(base, taken) ==
  <<base, Min({n \in 0..Cardinality(taken) : <<base, n>> \notin taken})>>

Extended(f, x, y) == [z \in DOMAIN f \cup {x} |-> IF z = x THEN y ELSE f[z]]

(* State of the allocation: names, imports (path to qualifier), identifiers used. *)
Allocate(s, role, base, avoid) ==
  LET name == Free(base, s.used \cup avoid) IN
  [names |-> Extended(s.names, role, name), imports |-> s.imports, used |-> s.used \cup {name}]

addImport(s, role, base, path) ==
  IF path \in DOMAIN s.imports
  THEN [s EXCEPT !.names = Extended(@, role, s.imports[path])]
  ELSE LET t == Allocate(s, role, base, {}) IN
       [t EXCEPT !.imports = Extended(@, path, t.names[role])]

(* What is named, in this order: packages, helpers, the flag, local variables. *)
Path ==
  [driver |-> "database/sql/driver", strconv |-> "strconv", errors |-> "errors", fmt |-> "fmt",
   time |-> "time", strings |-> "strings", mssql |-> "github.com/microsoft/go-mssqldb"]
Base ==
  [driver |-> "sqltomDriver", strconv |-> "sqltomStrconv", errors |-> "sqltomErrors", fmt |-> "sqltomFmt",
   time |-> "sqltomTime", strings |-> "sqltomStrings", mssql |-> "sqltomMSSQL",
   scanValue |-> "sqltomScanValue", jsonValue |-> "sqltomJSONValue", uuidValue |-> "sqltomUUIDValue",
   binaryValue |-> "sqltomBinaryValue", partial |-> "sqltomPartial"]
Declared ==
  <<"driver", "strconv", "errors", "fmt", "time", "strings", "mssql",
    "scanValue", "jsonValue", "uuidValue", "binaryValue", "partial">>
Locals ==
  <<"predicate", "projection", "columns", "indexes", "seen", "index", "column", "destinations", "db",
    "stmt", "args", "query", "rows", "err", "result", "r", "row", "lastInsertID", "identityValue", "one",
    "s", "a", "value", "converted", "bytes", "keyArgs", "keyIndex", "keyValue", "keyNames">>
Roles == Declared \o Locals

(* The flag of a partial row is a field too: it must avoid the others. *)
Named(s, role, packages, fields) ==
  LET base == IF role \in DOMAIN Base THEN Base[role] ELSE role IN
  IF role \notin DOMAIN Path THEN Allocate(s, role, base, IF role = "partial" THEN fields ELSE {})
  ELSE IF role \in packages THEN addImport(s, role, base, Path[role])
  ELSE s

AllNamed(start, packages, fields) ==
  LET named[k \in 0..Len(Roles)] ==
        IF k = 0 THEN start ELSE Named(named[k - 1], Roles[k], packages, fields)
  IN named[Len(Roles)]

(* Mutant of FieldNames: the flag of a partial row may hide a field. *)
FieldNamesIgnored(data) == {}

FieldNames(data) == {data.columns[i].goName : i \in DOMAIN data.columns}

Qualifier(imports, path) == (CHOOSE i \in imports : i.path = path).qualifier

(* The names of the columns' packages and of the model are taken. *)
Taken(data) ==
  LET imports == TypeImports({data.columns[i].resolved : i \in DOMAIN data.columns}) IN
  [names |-> [role \in {} |-> <<"", 0>>],
   imports |-> [path \in {i.path : i \in imports} |-> Qualifier(imports, path)],
   used |-> {data.goName, <<"sql", 0>>} \cup {i.qualifier : i \in imports}]

configureRuntime(data, config) ==
  LET needs == Needs(data, config)
      named == AllNamed(Taken(data), Packages(needs), FieldNames(data))
  IN [data EXCEPT !.needs = needs, !.names = named.names, !.imports = named.imports]

(* The packages the code the template writes for this data refers to. *)
References(data) ==
  LET needs == data.needs IN
  {"errors", "fmt"}
    \cup (IF needs.scans # {} \/ needs.json \/ (data.base /\ data.key # {} /\ data.update # {} /\ needs.rejectNull)
             \/ needs.lastInsertID THEN {"driver"} ELSE {})
    \cup (IF needs.lastInsertID /\ needs.unsigned THEN {"strconv"} ELSE {})
    \cup (IF "time" \in needs.scans THEN {"time"} ELSE {})
    \cup (IF "uuid" \in needs.scans \/ needs.uuid THEN {"strings"} ELSE {})
    \cup (IF "uuid" \in needs.scans /\ needs.mssql THEN {"mssql"} ELSE {})
=============================================================================
