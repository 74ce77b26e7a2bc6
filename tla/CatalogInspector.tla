-------------------------- MODULE CatalogInspector --------------------------
(***************************************************************************)
(* inspectCatalog of the PostgreSQL, MySQL and SQL Server backends: one    *)
(* catalog query, whose rows are read one after the other and gathered     *)
(* into tables, and the checks that make an inspection of them.            *)
(*                                                                         *)
(* The rows are those of Catalogs: what the server returns to this         *)
(* account, which need not show it every column.  Of a column only its     *)
(* name, its place and its part in the primary key are kept.               *)
(***************************************************************************)
EXTENDS Integers, Sequences, FiniteSets, SequencesExt

CONSTANTS
  Dialects,   \* those of the three backends that are checked
  Catalogs,   \* sequences of rows
  Keys,       \* identities [catalog, schema, name] of tables
  Blank,      \* a text of white space
  None        \* nothing

ASSUME DialectsAssumption == Dialects \subseteq {"postgres", "mysql", "sqlserver"}

(* The row of an empty database has nothing but the server's columns.      *)
IsEmpty(row) == row.shape = "server only"

ServerOf(row) == [db |-> row.db, version |-> row.version]

ASSUME CatalogsAssumption ==
  \A rows \in Catalogs :
    /\ rows \in Seq(ToSet(rows))
    /\ \A k \in DOMAIN rows : ServerOf(rows[k]) # None
    /\ \A k \in DOMAIN rows : ~IsEmpty(rows[k]) =>
         /\ rows[k].key \in Keys
         /\ rows[k].primary \in BOOLEAN
         /\ {rows[k].ordinal, rows[k].keyOrdinal, rows[k].keySize} \subseteq Int

VARIABLES
  dialect,  \* the backend
  catalog,  \* what the query returns, unless it fails
  read,     \* rows read
  server,   \* name and version of the database, once a row is read
  tables,   \* a map: the table gathered for each key a row had
  sizes,    \* PrimaryKeyCounts, a map: the key size that rows report
  outcome,  \* "reading", "failed", "refused" or "returned"
  document  \* the tables returned

reading == <<read, server, tables, sizes>>
vars == <<dialect, catalog, reading, outcome, document>>

NoMap == [key \in {} |-> None]
Put(map, key, value) ==
  [k \in DOMAIN map \cup {key} |-> IF k = key THEN value ELSE map[k]]
-----------------------------------------------------------------------------
Minimum == [postgres  |-> [major |-> 12, minor |-> 0],
            mysql     |-> [major |-> 8,  minor |-> 0],
            sqlserver |-> [major |-> 13, minor |-> 0]]

AtLeast(v, min) == v.major > min.major \/ (v.major = min.major /\ v.minor >= min.minor)

(* A version that cannot be parsed is None; MariaDB calls itself 10 and up. *)
SupportedVersion(v) ==
  /\ v # None
  /\ dialect = "mysql" => ~v.mariadb
  /\ AtLeast(v, Minimum[dialect])

Column(row) == [name       |-> row.column,
                ordinal    |-> row.ordinal,
                primary    |-> row.primary,
                keyOrdinal |-> row.keyOrdinal]

(* Values that are NULL where another is not; only PostgreSQL has domains. *)
IsIncomplete(row) ==
  \/ row.shape = "incomplete"
  \/ row.shape = "half a domain" /\ dialect = "postgres"

SameServer(row) ==
  IF server = None THEN SupportedVersion(row.version) ELSE ServerOf(row) = server

(* PrimaryKeyCounts.Observe.                                               *)
Observable(key, size) == size >= 0 /\ (key \in DOMAIN sizes => sizes[key] = size)

(* Mutant: the type of a table is taken from its first row.                *)
AcceptedByKey(row) ==
  /\ SameServer(row)
  /\ IsEmpty(row) \/ /\ ~IsIncomplete(row)
                     /\ row.type \in {"BASE TABLE", "VIEW"}
                     /\ Observable(row.key, row.keySize)

Accepted(row) ==
  /\ SameServer(row)
  /\ IsEmpty(row) \/ /\ ~IsIncomplete(row)
                     /\ row.type \in {"BASE TABLE", "VIEW"}
                     /\ Observable(row.key, row.keySize)
                     /\ row.key \in DOMAIN tables => tables[row.key].type = row.type

(* Mutant: the table is put into the map again for every row.              *)
GatherLast(row) ==
  /\ tables' = Put(tables, row.key, [type |-> row.type, columns |-> <<Column(row)>>])
  /\ sizes' = Put(sizes, row.key, row.keySize)

Gather(row) ==
  LET before == IF row.key \in DOMAIN tables THEN tables[row.key].columns ELSE <<>>
  IN  /\ tables' = Put(tables, row.key, [type    |-> row.type,
                                         columns |-> Append(before, Column(row))])
      /\ sizes' = Put(sizes, row.key, row.keySize)
-----------------------------------------------------------------------------
(* What is checked when all rows are read.                                 *)

PrimaryColumns(columns) == {k \in DOMAIN columns : columns[k].primary}

(* Mutant: only more key columns than the key has are an error.            *)
KeyNotExceeded(key) ==
  Cardinality(PrimaryColumns(tables[key].columns)) <= sizes[key]

(* PrimaryKeyCounts.Validate: ordinals alone do not show a missing tail.   *)
KeyComplete(key) ==
  Cardinality(PrimaryColumns(tables[key].columns)) = sizes[key]

validateColumns(columns) ==
  /\ \A j, k \in DOMAIN columns :
       j # k => /\ columns[j].name # columns[k].name
                /\ columns[j].ordinal # columns[k].ordinal
  /\ \A k \in DOMAIN columns :
       /\ columns[k].ordinal > 0
       /\ columns[k].keyOrdinal >= 0
       /\ columns[k].primary = (columns[k].keyOrdinal > 0)
  /\ LET keys == PrimaryColumns(columns)
     IN {columns[k].keyOrdinal : k \in keys} = 1 .. Cardinality(keys)

(* validateInspectionManifest: MySQL knows no catalogs.                    *)
SourceIdentity(key) ==
  IF dialect = "mysql" THEN key.schema # Blank /\ key.schema = server.db
  ELSE /\ key.catalog # Blank /\ key.schema # Blank
       /\ key.catalog = server.db

Valid ==
  /\ server # None /\ server.db # Blank
  /\ \A key \in DOMAIN tables : /\ KeyComplete(key)
                           /\ validateColumns(tables[key].columns)
                           /\ SourceIdentity(key)

(* manifest.New puts the columns of a table in the order of their ordinals. *)
Inspected ==
  [key \in DOMAIN tables |->
     [type |-> tables[key].type, columns |-> ToSet(tables[key].columns)]]
-----------------------------------------------------------------------------
Init ==
  /\ dialect \in Dialects
  /\ catalog \in Catalogs
  /\ read = 0
  /\ server = None
  /\ tables = NoMap
  /\ sizes = NoMap
  /\ outcome = "reading"
  /\ document = NoMap

End(o, d) == /\ outcome' = o
             /\ document' = d
             /\ UNCHANGED <<dialect, catalog, reading>>

(* The query, Scan or the connection fails, or the context is cancelled,   *)
(* which ends the rows and is told by rows.Err.                            *)
Interrupted == outcome = "reading" /\ End("failed", document)

RefuseRow ==
  /\ outcome = "reading"
  /\ read < Len(catalog)
  /\ ~Accepted(catalog[read + 1])
  /\ End("refused", document)

ReadRow ==
  /\ outcome = "reading"
  /\ read < Len(catalog)
  /\ LET row == catalog[read + 1]
     IN /\ Accepted(row)
        /\ server' = ServerOf(row)
        /\ IF IsEmpty(row) THEN UNCHANGED <<tables, sizes>> ELSE Gather(row)
  /\ read' = read + 1
  /\ UNCHANGED <<dialect, catalog, outcome, document>>

(* Mutant: rows.Err is not looked at, an interruption ends the rows.       *)
FinishEarly ==
  /\ outcome = "reading"
  /\ IF Valid THEN End("returned", Inspected) ELSE End("refused", document)

Finish ==
  /\ outcome = "reading"
  /\ read = Len(catalog)
  /\ IF Valid THEN End("returned", Inspected) ELSE End("refused", document)

Next == Interrupted \/ RefuseRow \/ ReadRow \/ Finish

Spec == Init /\ [][Next]_vars
-----------------------------------------------------------------------------
TableRows(key) == {k \in DOMAIN catalog : /\ ~IsEmpty(catalog[k])
                                          /\ catalog[k].key = key}

Returned == outcome = "returned"

(* What has been gathered is of rows read, of one server (the row loop).   *)
TypeOK ==
  /\ dialect \in Dialects
  /\ read \in 0 .. Len(catalog)
  /\ (server = None) = (read = 0)
  /\ \A k \in 1 .. read : server = ServerOf(catalog[k])
  /\ DOMAIN tables \subseteq Keys
  /\ DOMAIN sizes = DOMAIN tables
  /\ \A key \in DOMAIN tables :
       Len(tables[key].columns) = Cardinality(TableRows(key) \cap 1 .. read)

(* An inspection shows all the rows of the catalog and no others: one that *)
(* is interrupted half-way returns nothing instead of a smaller database,  *)
(* which a merge would take for dropped tables and columns.                *)
WholeCatalog ==
  Returned =>
    \A key \in Keys :
      IF TableRows(key) = {} THEN key \notin DOMAIN document
      ELSE /\ key \in DOMAIN document
           /\ \A k \in TableRows(key) : document[key].type = catalog[k].type
           /\ document[key].columns = {Column(catalog[k]) : k \in TableRows(key)}

(* A primary key is shown whole or not at all: when the account does not   *)
(* see some column of it the inspection fails, whatever the rows it does   *)
(* see, since generated statements would address rows by part of a key.    *)
KeysAreWhole ==
  Returned =>
    \A key \in Keys, k \in 1 .. Len(catalog) :
      k \in TableRows(key) =>
        {c.keyOrdinal : c \in {c \in document[key].columns : c.primary}}
          = 1 .. catalog[k].keySize

(* The catalogs that can be inspected, told without an order of rows.      *)
Consistent ==
  LET row(k)  == catalog[k]
      full    == {k \in DOMAIN catalog : ~IsEmpty(row(k))}
      keyed   == {k \in full : row(k).primary}
  IN /\ catalog # <<>>
     /\ \A k \in DOMAIN catalog : /\ row(k).db # Blank
                                  /\ SupportedVersion(row(k).version)
                                  /\ ~IsIncomplete(row(k))
     /\ \A k, n \in DOMAIN catalog : ServerOf(row(k)) = ServerOf(row(n))
     /\ \A k \in full :
          /\ row(k).type \in {"BASE TABLE", "VIEW"}
          /\ row(k).ordinal > 0
          /\ row(k).primary = (row(k).keyOrdinal > 0)
          /\ row(k).keyOrdinal \in 0 .. row(k).keySize
          /\ row(k).db = IF dialect = "mysql" THEN row(k).key.schema ELSE row(k).key.catalog
          /\ row(k).key.schema # Blank
          /\ Cardinality({n \in keyed : row(n).key = row(k).key}) = row(k).keySize
     /\ \A k, n \in full :
          k # n /\ row(k).key = row(n).key =>
            /\ row(k).type = row(n).type
            /\ row(k).keySize = row(n).keySize
            /\ row(k).column # row(n).column
            /\ row(k).ordinal # row(n).ordinal
            /\ row(k).primary => row(k).keyOrdinal # row(n).keyOrdinal

(* Whether a catalog is accepted depends on its rows and not on the order  *)
(* in which the server returns them: contradictions are found between any  *)
(* two rows, and nothing else is refused.                                  *)
OrderIsIrrelevant ==
  /\ Returned => Consistent
  /\ outcome = "refused" => ~Consistent
=============================================================================
