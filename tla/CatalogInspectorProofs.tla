----------------------- MODULE CatalogInspectorProofs -----------------------
(***************************************************************************)
(* Proofs about CatalogInspector, checked by TLAPS, for every set of       *)
(* catalogs: an inspection shows the whole catalog, primary keys whole,    *)
(* and a catalog is accepted or refused by the set of its rows.            *)
(*                                                                         *)
(* The invariant is that the columns gathered for a key are those of the   *)
(* rows of the key read so far, each once: a bijection from the places in  *)
(* the table to the rows.  Through it what the code counts and compares in *)
(* a table is what Consistent says of the rows.                            *)
(***************************************************************************)
EXTENDS CatalogInspector, FiniteSetTheorems, TLAPS

Seen(key) == TableRows(key) \cap 1 .. read

Lists(columns, rows, place) ==
  /\ place \in Bijection(1 .. Len(columns), rows)
  /\ \A i \in 1 .. Len(columns) : columns[i] = Column(catalog[place[i]])

Columns == {Column(catalog[k]) : k \in DOMAIN catalog}

(* What is known of the tables gathered (the row loop of inspectCatalog).  *)
TablesInv ==
  /\ DOMAIN tables \subseteq Keys
  /\ DOMAIN sizes = DOMAIN tables
  /\ \A key \in DOMAIN tables :
       /\ tables[key].columns \in Seq(Columns)
       /\ Seen(key) # {}
       /\ \E place : Lists(tables[key].columns, Seen(key), place)

(* What is known of the rows read: each was accepted, and agrees with what *)
(* the maps and the server's variables hold now.                           *)
AgreesWithTable(row) ==
  /\ ~IsIncomplete(row)
  /\ row.type \in {"BASE TABLE", "VIEW"}
  /\ row.key \in DOMAIN tables
  /\ tables[row.key].type = row.type
  /\ sizes[row.key] = row.keySize
  /\ row.keySize >= 0

RowsInv ==
  /\ dialect \in Dialects
  /\ catalog \in Catalogs
  /\ read \in 0 .. Len(catalog)
  /\ read = 0 => server = None
  /\ \A k \in 1 .. read : /\ server = ServerOf(catalog[k])
                          /\ SupportedVersion(catalog[k].version)
                          /\ IsEmpty(catalog[k]) \/ AgreesWithTable(catalog[k])

(* What an inspection that returned was found to be.                       *)
EndInv == Returned => read = Len(catalog) /\ Valid /\ document = Inspected

IInv == TablesInv /\ RowsInv /\ EndInv

-----------------------------------------------------------------------------
(* Sequences of columns. *)

(* A catalog is a sequence.                                                *)
LEMMA CatalogType ==
  ASSUME catalog \in Catalogs
  PROVE  /\ Len(catalog) \in Nat
         /\ DOMAIN catalog = 1 .. Len(catalog)
BY CatalogsAssumption

(* No columns are those of no rows.                                        *)
LEMMA ListsNothing == \E place : Lists(<<>>, {}, place)
<1> DEFINE place == [i \in {} |-> 0]
<1>1. 1 .. Len(<<>>) = {}
  OBVIOUS
<1>2. place \in [{} -> {}]
  OBVIOUS
<1>3. place \in Bijection({}, {})
  BY <1>2 DEF Bijection, Injection, Surjection, IsInjective
<1> QED BY <1>1, <1>3 DEF Lists

(* Appending a row's column lists one more row.                            *)
LEMMA ListsAppend ==
  ASSUME NEW S, NEW columns \in Seq(S), NEW rows, NEW place, Lists(columns, rows, place),
         NEW k, k \notin rows
  PROVE  \E more : Lists(Append(columns, Column(catalog[k])), rows \cup {k}, more)
<1> DEFINE n == Len(columns)
           longer == Append(columns, Column(catalog[k]))
           more == [i \in 1 .. n + 1 |-> IF i = n + 1 THEN k ELSE place[i]]
<1>1. n \in Nat /\ Len(longer) = n + 1
  OBVIOUS
<1>2. /\ place \in [1 .. n -> rows]
      /\ \A i, j \in 1 .. n : place[i] = place[j] => i = j
      /\ \A r \in rows : \E i \in 1 .. n : place[i] = r
  BY DEF Lists, Bijection, Injection, Surjection, IsInjective
<1>3. more \in [1 .. n + 1 -> rows \cup {k}]
  BY <1>1, <1>2
<1>4. \A i, j \in 1 .. n + 1 : more[i] = more[j] => i = j
  <2> SUFFICES ASSUME NEW i \in 1 .. n + 1, NEW j \in 1 .. n + 1, more[i] = more[j] PROVE i = j
    OBVIOUS
  <2>1. \A h \in 1 .. n + 1 : h # n + 1 => h \in 1 .. n /\ more[h] = place[h] /\ more[h] # k
    BY <1>1, <1>2
  <2>2. more[n + 1] = k
    BY <1>1
  <2> QED BY <1>2, <2>1, <2>2
<1>5. \A r \in rows \cup {k} : \E i \in 1 .. n + 1 : more[i] = r
  <2>1. \A i \in 1 .. n : i \in 1 .. n + 1 /\ more[i] = place[i]
    BY <1>1
  <2>2. n + 1 \in 1 .. n + 1 /\ more[n + 1] = k
    BY <1>1
  <2> QED BY <1>2, <2>1, <2>2
<1>6. more \in Bijection(1 .. n + 1, rows \cup {k})
  BY <1>3, <1>4, <1>5 DEF Bijection, Injection, Surjection, IsInjective
<1>7. \A i \in 1 .. n + 1 : longer[i] = Column(catalog[more[i]])
  <2>1. \A i \in 1 .. n : longer[i] = columns[i] /\ more[i] = place[i]
    BY <1>1
  <2>2. longer[n + 1] = Column(catalog[k]) /\ more[n + 1] = k
    BY <1>1
  <2> QED BY <1>1, <2>1, <2>2 DEF Lists
<1> QED BY <1>1, <1>6, <1>7 DEF Lists

-----------------------------------------------------------------------------
(* The tables gathered. *)

(* An accepted row of a table adds one column to the one it belongs to, and *)
(* its key size is that of the rows before it.                             *)
LEMMA GatherTables ==
  ASSUME TablesInv, RowsInv, read < Len(catalog), read' = read + 1, UNCHANGED catalog,
         NEW row, row = catalog[read + 1], ~IsEmpty(row), Gather(row)
  PROVE  TablesInv'
<1> DEFINE before == IF row.key \in DOMAIN tables THEN tables[row.key].columns ELSE <<>>
<1>1. read + 1 \in DOMAIN catalog /\ read + 1 \notin 1 .. read /\ row.key \in Keys
  BY CatalogType, CatalogsAssumption DEF RowsInv
<1>2. /\ DOMAIN tables' = DOMAIN tables \cup {row.key}
      /\ tables'[row.key] = [type |-> row.type, columns |-> Append(before, Column(row))]
      /\ \A key \in DOMAIN tables : key # row.key => tables'[key] = tables[key]
  BY DEF Gather, Put
<1>3. DOMAIN sizes' = DOMAIN sizes \cup {row.key}
  BY DEF Gather, Put
<1>4. \A key : TableRows(key)' = TableRows(key)
  BY DEF TableRows
<1>5. \A key : key # row.key => Seen(key)' = Seen(key)
  BY <1>1, <1>4 DEF Seen, TableRows, RowsInv
<1>6. Seen(row.key)' = Seen(row.key) \cup {read + 1}
  BY <1>1, <1>4 DEF Seen, TableRows, RowsInv
<1>7. before \in Seq(Columns) /\ \E place : Lists(before, Seen(row.key), place)
  <2>1. CASE row.key \in DOMAIN tables
    BY <2>1 DEF TablesInv
  <2>2. CASE row.key \notin DOMAIN tables
    <3>1. Seen(row.key) = {}
      BY <2>2 DEF Seen, TableRows, RowsInv, AgreesWithTable
    <3> QED BY <2>2, <3>1, ListsNothing
  <2> QED BY <2>1, <2>2
<1>8. Column(row) \in Columns
  BY <1>1 DEF Columns
<1>9. Append(before, Column(row)) \in Seq(Columns)
  BY <1>7, <1>8
<1>10. read + 1 \notin Seen(row.key)
  BY <1>1 DEF Seen
<1>11. \E place : Lists(Append(before, Column(row)), Seen(row.key) \cup {read + 1}, place)
  BY <1>7, <1>10, ListsAppend
<1>12. Columns' = Columns /\ \A c, r, place : Lists(c, r, place)' = Lists(c, r, place)
  BY DEF Columns, Lists
<1>13. ASSUME NEW key \in DOMAIN tables'
       PROVE  /\ tables'[key].columns \in Seq(Columns)
              /\ Seen(key)' # {}
              /\ \E place : Lists(tables'[key].columns, Seen(key)', place)
  <2>1. CASE key = row.key
    <3>1. tables'[key].columns = Append(before, Column(row))
      BY <2>1, <1>2
    <3>2. Seen(key)' = Seen(row.key) \cup {read + 1}
      BY <2>1, <1>6
    <3> HIDE DEF before
    <3> QED BY <3>1, <3>2, <1>9, <1>11
  <2>2. CASE key # row.key
    BY <2>2, <1>2, <1>5, <1>13 DEF TablesInv
  <2> QED BY <2>1, <2>2
<1>14. DOMAIN tables' \subseteq Keys /\ DOMAIN sizes' = DOMAIN tables'
  BY <1>1, <1>2, <1>3 DEF TablesInv
<1>15. \A key : \A place : Lists(tables[key].columns, Seen(key), place)'
                             = Lists(tables'[key].columns, Seen(key)', place)
  BY DEF Lists
<1> HIDE DEF before
<1> QED BY <1>12, <1>13, <1>14, <1>15 DEF TablesInv

(* It agrees with what the maps hold afterwards, and so do the rows before. *)
LEMMA GatherRows ==
  ASSUME RowsInv, TablesInv, read < Len(catalog), ReadRow,
         NEW row, row = catalog[read + 1], Accepted(row)
  PROVE  RowsInv'
<1>1. read \in Nat /\ Len(catalog) \in Nat /\ DOMAIN catalog = 1 .. Len(catalog)
  BY CatalogType DEF RowsInv
<1>2. server' = ServerOf(row) /\ read' = read + 1 /\ UNCHANGED <<dialect, catalog>>
  BY DEF ReadRow
<1>3. read > 0 => server = ServerOf(row) /\ server # None
  <2> SUFFICES ASSUME read > 0 PROVE server = ServerOf(row) /\ server # None
    OBVIOUS
  <2>1. server = ServerOf(catalog[1]) /\ 1 \in DOMAIN catalog
    BY <1>1 DEF RowsInv
  <2>2. server # None
    BY <2>1, CatalogsAssumption DEF RowsInv
  <2> QED BY <2>2 DEF Accepted, SameServer
<1>4. \A k \in 1 .. read : server' = ServerOf(catalog[k])
  BY <1>1, <1>2, <1>3 DEF RowsInv
<1>5. SupportedVersion(row.version)
  <2>1. CASE read = 0
    BY <2>1 DEF RowsInv, Accepted, SameServer
  <2>2. CASE read # 0
    <3>1. ServerOf(catalog[1]) = ServerOf(row) /\ SupportedVersion(catalog[1].version)
      BY <1>1, <1>3, <2>2 DEF RowsInv
    <3>2. catalog[1].version = row.version
      BY <3>1 DEF ServerOf
    <3> QED BY <3>1, <3>2
  <2> QED BY <2>1, <2>2
<1>6. \A v : SupportedVersion(v)' = SupportedVersion(v)
  BY <1>2 DEF SupportedVersion
<1>7. \A k \in 1 .. read + 1 : IsEmpty(catalog[k]) \/ AgreesWithTable(catalog[k])'
  <2>1. CASE IsEmpty(row)
    <3>1. UNCHANGED <<dialect, tables, sizes>>
      BY <2>1 DEF ReadRow
    <3>2. \A k \in 1 .. read + 1 : k \in 1 .. read \/ k = read + 1
      BY <1>1
    <3>3. \A k \in 1 .. read : AgreesWithTable(catalog[k]) => AgreesWithTable(catalog[k])'
      BY <1>2, <3>1 DEF AgreesWithTable, IsIncomplete
    <3> QED BY <2>1, <3>2, <3>3 DEF RowsInv
  <2>2. CASE ~IsEmpty(row)
    <3>1. Gather(row)
      BY <2>2 DEF ReadRow
    <3>2. /\ DOMAIN tables' = DOMAIN tables \cup {row.key}
          /\ tables'[row.key].type = row.type
          /\ \A key \in DOMAIN tables : key # row.key => tables'[key] = tables[key]
      BY <3>1 DEF Gather, Put
    <3>3. /\ sizes'[row.key] = row.keySize
          /\ \A key \in DOMAIN sizes : key # row.key => sizes'[key] = sizes[key]
      BY <3>1 DEF Gather, Put
    <3>4. /\ ~IsIncomplete(row) /\ row.type \in {"BASE TABLE", "VIEW"} /\ row.keySize >= 0
          /\ row.key \in DOMAIN tables => /\ tables[row.key].type = row.type
                                          /\ sizes[row.key] = row.keySize
      BY <2>2 DEF Accepted, Observable, TablesInv
    <3>5. \A r : IsIncomplete(r)' = IsIncomplete(r)
      BY <1>2 DEF IsIncomplete
    <3>6. AgreesWithTable(row)'
      BY <1>2, <3>2, <3>3, <3>4, <3>5 DEF AgreesWithTable, IsIncomplete
    <3>7. ASSUME NEW k \in 1 .. read, ~IsEmpty(catalog[k]) PROVE AgreesWithTable(catalog[k])'
      <4> DEFINE old == catalog[k]
      <4>1. AgreesWithTable(old)
        BY <3>7 DEF RowsInv
      <4>2. tables'[old.key].type = tables[old.key].type /\ sizes'[old.key] = sizes[old.key]
        BY <4>1, <3>2, <3>3, <3>4 DEF AgreesWithTable, TablesInv
      <4> QED BY <1>2, <4>1, <4>2, <3>2, <3>5 DEF AgreesWithTable, IsIncomplete
    <3>8. \A k \in 1 .. read + 1 : k \in 1 .. read \/ k = read + 1
      BY <1>1
    <3> QED BY <1>2, <3>6, <3>7, <3>8 DEF AgreesWithTable, IsIncomplete
  <2> QED BY <2>1, <2>2
<1>8. read + 1 \in 0 .. Len(catalog) /\ read + 1 # 0
  BY <1>1
<1>9. \A k \in 1 .. read + 1 : k = read + 1 \/ k \in 1 .. read
  BY <1>1
<1>10. \A k \in 1 .. read + 1 : server' = ServerOf(catalog[k]) /\ SupportedVersion(catalog[k].version)
  BY <1>2, <1>4, <1>5, <1>9 DEF RowsInv
<1> QED BY <1>2, <1>6, <1>7, <1>8, <1>10 DEF RowsInv, SupportedVersion

(* The row of an empty database changes no table.                          *)
LEMMA SkipTables ==
  ASSUME TablesInv, RowsInv, read < Len(catalog), read' = read + 1,
         IsEmpty(catalog[read + 1]), UNCHANGED <<catalog, tables, sizes>>
  PROVE  TablesInv'
<1>1. read \in Nat
  BY CatalogType DEF RowsInv
<1>2. \A key : Seen(key)' = Seen(key)
  BY <1>1 DEF Seen, TableRows
<1>3. \A key : \A place : Lists(tables[key].columns, Seen(key), place)'
                            = Lists(tables[key].columns, Seen(key), place)
  BY <1>2 DEF Lists
<1> QED BY <1>2, <1>3 DEF TablesInv, Columns

(* Nothing is known less of tables that stay as they are.                  *)
LEMMA TablesKept ==
  ASSUME TablesInv, UNCHANGED <<catalog, read, tables, sizes>>
  PROVE  TablesInv'
<1>1. \A key : Seen(key)' = Seen(key)
  BY DEF Seen, TableRows
<1>2. \A key : \A place : Lists(tables[key].columns, Seen(key), place)'
                            = Lists(tables[key].columns, Seen(key), place)
  BY <1>1 DEF Lists
<1> QED BY <1>1, <1>2 DEF TablesInv, Columns

(* A step that ends the inspection leaves what was read and gathered.      *)
LEMMA EndKeeps ==
  ASSUME TablesInv, RowsInv, NEW o, NEW d, End(o, d)
  PROVE  TablesInv' /\ RowsInv'
<1>1. UNCHANGED <<dialect, catalog, read, server, tables, sizes>>
  BY DEF End, reading
<1>2. TablesInv'
  BY <1>1, TablesKept
<1>3. RowsInv'
  BY <1>1 DEF RowsInv, AgreesWithTable, SupportedVersion, IsIncomplete
<1> QED BY <1>2, <1>3

(* A document is returned by Finish only.                                  *)
LEMMA EndStep ==
  ASSUME RowsInv, Next
  PROVE  EndInv'
<1>1. CASE Interrupted \/ RefuseRow \/ ReadRow
  BY <1>1 DEF Interrupted, RefuseRow, ReadRow, End, EndInv, Returned
<1>2. CASE Finish
  <2>1. UNCHANGED <<dialect, catalog, read, server, tables, sizes>>
    BY <1>2 DEF Finish, End, reading
  <2>2. CASE Valid /\ End("returned", Inspected)
    <3>1. Valid' = Valid /\ Inspected' = Inspected
      BY <2>1 DEF Valid, Inspected, KeyComplete, SourceIdentity
    <3> QED BY <1>2, <2>1, <2>2, <3>1 DEF Finish, End, EndInv
  <2>3. CASE ~Valid /\ End("refused", document)
    BY <2>3 DEF End, EndInv, Returned
  <2> QED BY <1>2, <2>2, <2>3 DEF Finish
<1> QED BY <1>1, <1>2 DEF Next

(* IInv holds at first, and after every step.                              *)
LEMMA Inductive == Spec => []IInv
<1>1. ASSUME Init PROVE IInv
  <2>1. DOMAIN tables = {} /\ DOMAIN sizes = {} /\ outcome = "reading"
    BY <1>1 DEF Init, NoMap
  <2>2. TablesInv
    BY <2>1 DEF TablesInv
  <2>3. RowsInv
    BY <1>1, CatalogType DEF Init, RowsInv
  <2> QED BY <2>1, <2>2, <2>3 DEF IInv, EndInv, Returned
<1>2. ASSUME IInv, [Next]_vars PROVE IInv'
  <2> USE <1>2 DEF IInv
  <2>1. ASSUME NEW row, row = catalog[read + 1], ReadRow PROVE TablesInv' /\ RowsInv'
    <3>1. read < Len(catalog) /\ Accepted(row) /\ read' = read + 1 /\ UNCHANGED catalog
      BY <2>1 DEF ReadRow
    <3>2. RowsInv'
      BY <2>1, <3>1, GatherRows
    <3>3. CASE IsEmpty(row)
      BY <2>1, <3>1, <3>2, <3>3, SkipTables DEF ReadRow
    <3>4. CASE ~IsEmpty(row)
      BY <2>1, <3>1, <3>2, <3>4, GatherTables DEF ReadRow
    <3> QED BY <3>3, <3>4
  <2>2. CASE Interrupted \/ RefuseRow \/ Finish
    BY <2>2, EndKeeps, EndStep DEF Interrupted, RefuseRow, Finish, Next
  <2>3. CASE ReadRow
    BY <2>1, <2>3, EndStep DEF Next
  <2>4. CASE UNCHANGED vars
    <3>1. UNCHANGED <<dialect, catalog, read, server, tables, sizes, outcome, document>>
      BY <2>4 DEF vars, reading
    <3>2. TablesInv'
      BY <3>1, TablesKept
    <3>3. RowsInv'
      BY <3>1 DEF RowsInv, AgreesWithTable, SupportedVersion, IsIncomplete
    <3>4. EndInv'
      BY <3>1 DEF EndInv, Returned, Valid, Inspected, KeyComplete, SourceIdentity
    <3> QED BY <3>2, <3>3, <3>4
  <2> QED BY <2>2, <2>3, <2>4 DEF Next
<1> QED BY <1>1, <1>2, PTL DEF Spec

-----------------------------------------------------------------------------
(* What a table says of its rows. *)

(* The rows that are listed are those of the list, without repetition.     *)
LEMMA ListsFacts ==
  ASSUME NEW S, NEW columns \in Seq(S), NEW rows, NEW place, Lists(columns, rows, place)
  PROVE  /\ Len(columns) \in Nat /\ DOMAIN columns = 1 .. Len(columns)
         /\ \A i \in DOMAIN columns : place[i] \in rows /\ columns[i] = Column(catalog[place[i]])
         /\ \A i, j \in DOMAIN columns : place[i] = place[j] => i = j
         /\ \A k \in rows : \E i \in DOMAIN columns : place[i] = k
BY DEF Lists, Bijection, Injection, Surjection, IsInjective

(* As many columns as rows.                                                *)
LEMMA ListsLength ==
  ASSUME NEW S, NEW columns \in Seq(S), NEW rows, NEW place, Lists(columns, rows, place)
  PROVE  Cardinality(rows) = Len(columns)
<1>1. Len(columns) \in Nat
  OBVIOUS
<1>2. IsFiniteSet(1 .. Len(columns)) /\ Cardinality(1 .. Len(columns)) = Len(columns)
  <2> DEFINE n == Len(columns)
  <2>1. 1 \in Int /\ n \in Int /\ n \in Nat
    BY <1>1
  <2>2. IsFiniteSet(1 .. n) /\ Cardinality(1 .. n) = IF 1 > n THEN 0 ELSE n - 1 + 1
    BY <2>1, FS_Interval
  <2> HIDE DEF n
  <2>3. IsFiniteSet(1 .. n) /\ Cardinality(1 .. n) = n
    BY <2>1, <2>2
  <2> QED BY <2>3 DEF n
<1>3. ExistsBijection(1 .. Len(columns), rows)
  BY DEF Lists, ExistsBijection
<1> QED BY <1>2, <1>3, FS_Bijection

(* As many primary columns as primary rows.                                *)
LEMMA ListsPrimary ==
  ASSUME NEW S, NEW columns \in Seq(S), NEW rows, NEW place, Lists(columns, rows, place)
  PROVE  /\ IsFiniteSet(PrimaryColumns(columns))
         /\ Cardinality({k \in rows : catalog[k].primary}) = Cardinality(PrimaryColumns(columns))
<1> DEFINE keyed == {k \in rows : catalog[k].primary}
           some == [i \in PrimaryColumns(columns) |-> place[i]]
<1>1. PrimaryColumns(columns) \subseteq 1 .. Len(columns) /\ Len(columns) \in Nat
  BY ListsFacts DEF PrimaryColumns
<1>2. IsFiniteSet(PrimaryColumns(columns))
  <2>1. IsFiniteSet(1 .. Len(columns))
    BY <1>1, FS_Interval
  <2> QED BY <1>1, <2>1, FS_Subset
<1>3. \A i \in PrimaryColumns(columns) : place[i] \in keyed
  BY ListsFacts DEF PrimaryColumns, Column
<1>4. \A k \in keyed : \E i \in PrimaryColumns(columns) : place[i] = k
  BY ListsFacts DEF PrimaryColumns, Column
<1>5. \A i, j \in PrimaryColumns(columns) : place[i] = place[j] => i = j
  BY ListsFacts DEF PrimaryColumns
<1>6. some \in Bijection(PrimaryColumns(columns), keyed)
  BY <1>3, <1>4, <1>5 DEF Bijection, Injection, Surjection, IsInjective
<1>7. ExistsBijection(PrimaryColumns(columns), keyed)
  BY <1>6 DEF ExistsBijection
<1> QED BY <1>2, <1>7, FS_Bijection

(* Key ordinals that make 1 .. n are different, and n different ones in     *)
(* 1 .. n make it (validateColumns).                                       *)
LEMMA OrdinalsAreAPermutation ==
  ASSUME NEW S, IsFiniteSet(S), NEW g \in [S -> Int]
  PROVE  /\ {g[x] : x \in S} = 1 .. Cardinality(S)
              => \A x, y \in S : g[x] = g[y] => x = y
         /\ (\A x \in S : g[x] \in 1 .. Cardinality(S)) /\ (\A x, y \in S : g[x] = g[y] => x = y)
              => {g[x] : x \in S} = 1 .. Cardinality(S)
<1> DEFINE n == Cardinality(S)
<1>1. n \in Nat
  BY FS_CardinalityType
<1>2. IsFiniteSet(1 .. n) /\ Cardinality(1 .. n) = n
  <2>1. 1 \in Int /\ n \in Int
    BY <1>1
  <2>2. IsFiniteSet(1 .. n) /\ Cardinality(1 .. n) = IF 1 > n THEN 0 ELSE n - 1 + 1
    BY <2>1, FS_Interval
  <2> HIDE DEF n
  <2> QED BY <1>1, <2>2
<1> HIDE DEF n
<1>3. Cardinality(S) = Cardinality(1 .. n)
  BY <1>2 DEF n
<1>4. ASSUME {g[x] : x \in S} = 1 .. n
      PROVE  \A x, y \in S : g[x] = g[y] => x = y
  <2>1. g \in Surjection(S, 1 .. n)
    BY <1>4 DEF Surjection
  <2>2. g \in Injection(S, 1 .. n)
    BY <1>3, <2>1, FS_SurjSameCardinalityImpliesInj
  <2> QED BY <2>2 DEF Injection, IsInjective
<1>5. ASSUME \A x \in S : g[x] \in 1 .. n, \A x, y \in S : g[x] = g[y] => x = y
      PROVE  {g[x] : x \in S} = 1 .. n
  <2>1. g \in Injection(S, 1 .. n)
    BY <1>5 DEF Injection, IsInjective
  <2>2. g \in Surjection(S, 1 .. n)
    BY <1>2, <1>3, <2>1, FS_Injection
  <2> QED BY <1>5, <2>2 DEF Surjection
<1> QED BY <1>4, <1>5 DEF n

(* Once all rows are read each table has all its rows.                     *)
LEMMA AllRead ==
  ASSUME IInv, read = Len(catalog)
  PROVE  /\ DOMAIN catalog = 1 .. read /\ read \in Nat
         /\ \A key : Seen(key) = TableRows(key)
BY CatalogType DEF IInv, RowsInv, Seen, TableRows

-----------------------------------------------------------------------------
(* Acceptance. *)

(* What is valid in the tables is consistent in the rows.                  *)
LEMMA ValidIsConsistent ==
  ASSUME IInv, read = Len(catalog), Valid
  PROVE  Consistent
<1> DEFINE full  == {k \in DOMAIN catalog : ~IsEmpty(catalog[k])}
           keyed == {k \in full : catalog[k].primary}
<1>1. DOMAIN catalog = 1 .. read /\ read \in Nat /\ \A key : Seen(key) = TableRows(key)
  BY AllRead
<1>2. /\ \A k \in DOMAIN catalog : server = ServerOf(catalog[k]) /\ SupportedVersion(catalog[k].version)
      /\ \A k \in full : AgreesWithTable(catalog[k])
  BY <1>1 DEF IInv, RowsInv
<1>3. catalog # <<>>
  <2>1. read # 0
    BY DEF Valid, IInv, RowsInv
  <2> QED BY <2>1
<1>4. \A k \in DOMAIN catalog : catalog[k].db # Blank
  BY <1>2 DEF Valid, ServerOf
<1>5. \A k \in DOMAIN catalog : ~IsIncomplete(catalog[k])
  BY <1>2 DEF AgreesWithTable, IsIncomplete, IsEmpty
<1>6. ASSUME NEW key \in DOMAIN tables
      PROVE  \E place :
               /\ \A i \in DOMAIN tables[key].columns :
                    /\ place[i] \in TableRows(key)
                    /\ tables[key].columns[i] = Column(catalog[place[i]])
               /\ \A k \in TableRows(key) : \E i \in DOMAIN tables[key].columns : place[i] = k
               /\ IsFiniteSet(PrimaryColumns(tables[key].columns))
               /\ Cardinality({k \in TableRows(key) : catalog[k].primary})
                    = Cardinality(PrimaryColumns(tables[key].columns))
  <2>1. PICK place : Lists(tables[key].columns, TableRows(key), place)
    BY <1>1 DEF IInv, TablesInv
  <2>2. tables[key].columns \in Seq(Columns)
    BY DEF IInv, TablesInv
  <2>3. /\ \A i \in DOMAIN tables[key].columns :
             /\ place[i] \in TableRows(key)
             /\ tables[key].columns[i] = Column(catalog[place[i]])
        /\ \A k \in TableRows(key) : \E i \in DOMAIN tables[key].columns : place[i] = k
    BY <2>1, <2>2, ListsFacts
  <2>4. /\ IsFiniteSet(PrimaryColumns(tables[key].columns))
        /\ Cardinality({k \in TableRows(key) : catalog[k].primary})
             = Cardinality(PrimaryColumns(tables[key].columns))
    BY <2>1, <2>2, ListsPrimary
  <2> QED BY <2>3, <2>4
<1>7. \A k \in full : k \in TableRows(catalog[k].key) /\ catalog[k].key \in DOMAIN tables
  BY <1>2 DEF TableRows, AgreesWithTable
<1>8. \A k \in full : /\ {catalog[k].ordinal, catalog[k].keyOrdinal, catalog[k].keySize} \subseteq Int
                      /\ catalog[k].primary \in BOOLEAN
  BY CatalogsAssumption DEF IInv, RowsInv
<1>9. ASSUME NEW k \in full
      PROVE  /\ catalog[k].ordinal > 0
             /\ catalog[k].primary = (catalog[k].keyOrdinal > 0)
             /\ catalog[k].keyOrdinal \in 0 .. catalog[k].keySize
             /\ catalog[k].db = IF dialect = "mysql" THEN catalog[k].key.schema
                                ELSE catalog[k].key.catalog
             /\ catalog[k].key.schema # Blank
             /\ Cardinality({n \in keyed : catalog[n].key = catalog[k].key}) = catalog[k].keySize
  <2> DEFINE key == catalog[k].key
             columns == tables[key].columns
  <2>1. /\ key \in DOMAIN tables /\ validateColumns(columns) /\ KeyComplete(key)
        /\ SourceIdentity(key)
    BY <1>7 DEF Valid
  <2>2. PICK place :
               /\ \A i \in DOMAIN columns :
                    place[i] \in TableRows(key) /\ columns[i] = Column(catalog[place[i]])
               /\ \A r \in TableRows(key) : \E i \in DOMAIN columns : place[i] = r
               /\ IsFiniteSet(PrimaryColumns(columns))
               /\ Cardinality({r \in TableRows(key) : catalog[r].primary})
                    = Cardinality(PrimaryColumns(columns))
    BY <1>6, <2>1
  <2>3. PICK i \in DOMAIN columns : place[i] = k
    BY <1>7, <2>2
  <2>4. columns[i] = Column(catalog[k])
    BY <2>2, <2>3
  <2>5. /\ catalog[k].ordinal > 0
        /\ catalog[k].keyOrdinal >= 0
        /\ catalog[k].primary = (catalog[k].keyOrdinal > 0)
    BY <2>1, <2>4 DEF validateColumns, Column
  <2>6. Cardinality(PrimaryColumns(columns)) = catalog[k].keySize
    BY <1>2, <2>1 DEF KeyComplete, AgreesWithTable
  <2>7. catalog[k].keyOrdinal \in 0 .. catalog[k].keySize
    <3>1. CASE catalog[k].primary
      <4>1. i \in PrimaryColumns(columns)
        BY <2>4, <3>1 DEF PrimaryColumns, Column
      <4>2. columns[i].keyOrdinal \in 1 .. catalog[k].keySize
        BY <2>1, <2>6, <4>1 DEF validateColumns
      <4> QED BY <1>8, <2>4, <4>2 DEF Column
    <3>2. CASE ~catalog[k].primary
      <4>1. catalog[k].keyOrdinal \in Int /\ catalog[k].keySize \in Int
        BY <1>8
      <4>2. catalog[k].keyOrdinal = 0 /\ catalog[k].keySize >= 0
        <5>1. ~(catalog[k].keyOrdinal > 0) /\ catalog[k].keyOrdinal >= 0
          BY <2>5, <3>2
        <5>2. catalog[k].keySize >= 0
          BY <1>2 DEF AgreesWithTable
        <5> QED BY <4>1, <5>1, <5>2
      <4> QED BY <4>1, <4>2
    <3> QED BY <3>1, <3>2
  <2>8. {n \in keyed : catalog[n].key = key} = {r \in TableRows(key) : catalog[r].primary}
    BY DEF TableRows
  <2>9. server = ServerOf(catalog[k])
    BY <1>2
  <2>10. /\ catalog[k].db = IF dialect = "mysql" THEN key.schema ELSE key.catalog
         /\ key.schema # Blank
    BY <2>1, <2>9 DEF SourceIdentity, ServerOf
  <2> QED BY <2>2, <2>5, <2>6, <2>7, <2>8, <2>10
<1>10. ASSUME NEW k \in full, NEW n \in full, k # n, catalog[k].key = catalog[n].key
       PROVE  /\ catalog[k].type = catalog[n].type
              /\ catalog[k].keySize = catalog[n].keySize
              /\ catalog[k].column # catalog[n].column
              /\ catalog[k].ordinal # catalog[n].ordinal
              /\ catalog[k].primary => catalog[k].keyOrdinal # catalog[n].keyOrdinal
  <2> DEFINE key == catalog[k].key
             columns == tables[key].columns
             g == [i \in PrimaryColumns(columns) |-> columns[i].keyOrdinal]
  <2>1. key \in DOMAIN tables /\ validateColumns(columns)
    BY <1>7 DEF Valid
  <2>2. PICK place :
               /\ \A i \in DOMAIN columns :
                    place[i] \in TableRows(key) /\ columns[i] = Column(catalog[place[i]])
               /\ \A r \in TableRows(key) : \E i \in DOMAIN columns : place[i] = r
               /\ IsFiniteSet(PrimaryColumns(columns))
               /\ Cardinality({r \in TableRows(key) : catalog[r].primary})
                    = Cardinality(PrimaryColumns(columns))
    BY <1>6, <2>1
  <2>3. PICK i \in DOMAIN columns, j \in DOMAIN columns : place[i] = k /\ place[j] = n
    BY <1>7, <1>10, <2>2
  <2>4. i # j /\ columns[i] = Column(catalog[k]) /\ columns[j] = Column(catalog[n])
    BY <1>10, <2>2, <2>3
  <2>5. catalog[k].column # catalog[n].column /\ catalog[k].ordinal # catalog[n].ordinal
    BY <2>1, <2>4 DEF validateColumns, Column
  <2>6. catalog[k].type = catalog[n].type /\ catalog[k].keySize = catalog[n].keySize
    BY <1>2, <1>10 DEF AgreesWithTable
  <2>7. ASSUME catalog[k].primary PROVE catalog[k].keyOrdinal # catalog[n].keyOrdinal
    <3>1. CASE ~catalog[n].primary
      BY <1>9, <2>7, <3>1
    <3>2. CASE catalog[n].primary
      <4>1. i \in PrimaryColumns(columns) /\ j \in PrimaryColumns(columns)
        BY <2>4, <2>7, <3>2 DEF PrimaryColumns, Column
      <4>2. \A h \in PrimaryColumns(columns) : columns[h].keyOrdinal \in Int
        BY <2>1 DEF validateColumns
      <4>3. g \in [PrimaryColumns(columns) -> Int]
        BY <4>2
      <4>4. {g[h] : h \in PrimaryColumns(columns)} = 1 .. Cardinality(PrimaryColumns(columns))
        BY <2>1 DEF validateColumns
      <4>5. IsFiniteSet(PrimaryColumns(columns))
        BY <2>2
      <4>6. \A x, y \in PrimaryColumns(columns) : g[x] = g[y] => x = y
        <5> HIDE DEF g, columns
        <5> QED BY <4>3, <4>4, <4>5, OrdinalsAreAPermutation
      <4>7. g[i] # g[j]
        BY <2>4, <4>1, <4>6
      <4> QED BY <2>4, <4>1, <4>7 DEF Column
    <3> QED BY <3>1, <3>2
  <2> QED BY <2>5, <2>6, <2>7
<1>11. \A k \in full : catalog[k].type \in {"BASE TABLE", "VIEW"}
  BY <1>2 DEF AgreesWithTable
<1>12. \A k, n \in DOMAIN catalog : ServerOf(catalog[k]) = ServerOf(catalog[n])
  BY <1>2
<1> QED BY <1>2, <1>3, <1>4, <1>5, <1>9, <1>10, <1>11, <1>12 DEF Consistent

(* Rows that are consistent are all accepted.                              *)
LEMMA ConsistentIsAccepted ==
  ASSUME IInv, Consistent, read < Len(catalog), NEW row, row = catalog[read + 1]
  PROVE  Accepted(row)
<1>1. /\ read \in Nat /\ DOMAIN catalog = 1 .. Len(catalog) /\ Len(catalog) \in Nat
      /\ read + 1 \in DOMAIN catalog
  BY CatalogType DEF IInv, RowsInv
<1>2. SameServer(row)
  <2>1. CASE read = 0
    BY <1>1, <2>1 DEF IInv, RowsInv, SameServer, Consistent
  <2>2. CASE read # 0
    <3>1. 1 \in 1 .. read /\ 1 \in DOMAIN catalog
      BY <1>1, <2>2
    <3>2. server = ServerOf(catalog[1])
      BY <3>1 DEF IInv, RowsInv
    <3>3. server # None
      BY <3>1, <3>2, CatalogsAssumption DEF IInv, RowsInv
    <3>4. ServerOf(catalog[1]) = ServerOf(catalog[read + 1])
      BY <1>1, <3>1 DEF Consistent
    <3> QED BY <3>2, <3>3, <3>4 DEF SameServer
  <2> QED BY <2>1, <2>2
<1>3. ASSUME ~IsEmpty(row)
      PROVE  /\ ~IsIncomplete(row)
             /\ row.type \in {"BASE TABLE", "VIEW"}
             /\ row.keySize >= 0
             /\ row.key \in DOMAIN tables => /\ tables[row.key].type = row.type
                                             /\ sizes[row.key] = row.keySize
  <2>1. ~IsIncomplete(row) /\ row.type \in {"BASE TABLE", "VIEW"}
    BY <1>1, <1>3 DEF Consistent
  <2>2. row.keyOrdinal \in 0 .. row.keySize /\ row.keySize \in Int
    BY <1>1, <1>3, CatalogsAssumption DEF Consistent, IInv, RowsInv
  <2>3. row.keySize >= 0
    BY <2>2
  <2>4. ASSUME row.key \in DOMAIN tables
        PROVE  tables[row.key].type = row.type /\ sizes[row.key] = row.keySize
    <3>1. PICK k \in Seen(row.key) : TRUE
      BY <2>4 DEF IInv, TablesInv
    <3>2. k \in DOMAIN catalog /\ k \in 1 .. read /\ ~IsEmpty(catalog[k]) /\ catalog[k].key = row.key
      BY <3>1 DEF Seen, TableRows
    <3>3. k # read + 1
      BY <1>1, <3>2
    <3>4. catalog[k].type = row.type /\ catalog[k].keySize = row.keySize
      BY <1>1, <1>3, <3>2, <3>3, ZenonT(60) DEF Consistent
    <3>5. tables[row.key].type = catalog[k].type /\ sizes[row.key] = catalog[k].keySize
      BY <3>2 DEF IInv, RowsInv, AgreesWithTable
    <3> QED BY <3>4, <3>5
  <2> QED BY <2>1, <2>3, <2>4
<1>4. DOMAIN sizes = DOMAIN tables
  BY DEF IInv, TablesInv
<1> QED BY <1>2, <1>3, <1>4 DEF Accepted, Observable

(* The tables of consistent rows are valid.                                *)
LEMMA ConsistentIsValid ==
  ASSUME IInv, Consistent, read = Len(catalog)
  PROVE  Valid
<1>1. DOMAIN catalog = 1 .. read /\ read \in Nat /\ \A key : Seen(key) = TableRows(key)
  BY AllRead
<1>2. read # 0
  <2>1. catalog # <<>>
    BY DEF Consistent
  <2>2. catalog \in Seq(ToSet(catalog))
    BY CatalogsAssumption DEF IInv, RowsInv
  <2>3. Len(catalog) # 0
    BY <2>1, <2>2
  <2> QED BY <2>3
<1>3. 1 \in DOMAIN catalog /\ \A k \in DOMAIN catalog : server = ServerOf(catalog[k])
  BY <1>1, <1>2 DEF IInv, RowsInv
<1>4. server # None /\ server.db # Blank
  <2>1. server = ServerOf(catalog[1]) /\ catalog[1].db # Blank
    BY <1>3 DEF Consistent
  <2>2. ServerOf(catalog[1]) # None
    BY <1>3, CatalogsAssumption DEF IInv, RowsInv
  <2> QED BY <2>1, <2>2 DEF ServerOf
<1>5. ASSUME NEW key \in DOMAIN tables
      PROVE  KeyComplete(key) /\ validateColumns(tables[key].columns) /\ SourceIdentity(key)
  <2> DEFINE columns == tables[key].columns
             g == [i \in PrimaryColumns(columns) |-> columns[i].keyOrdinal]
             keyed == {k \in TableRows(key) : catalog[k].primary}
  <2>1. columns \in Seq(Columns) /\ TableRows(key) # {}
        /\ \E place : Lists(columns, TableRows(key), place)
    BY <1>1 DEF IInv, TablesInv
  <2>2. PICK place : Lists(columns, TableRows(key), place)
    BY <2>1
  <2>3. /\ \A i \in DOMAIN columns : place[i] \in TableRows(key)
                                     /\ columns[i] = Column(catalog[place[i]])
        /\ \A i, j \in DOMAIN columns : place[i] = place[j] => i = j
    BY <2>1, <2>2, ListsFacts
  <2>4. ASSUME NEW i \in DOMAIN columns
         PROVE  /\ place[i] \in TableRows(key)
                /\ columns[i].name = catalog[place[i]].column
                /\ columns[i].ordinal = catalog[place[i]].ordinal
                /\ columns[i].primary = catalog[place[i]].primary
                /\ columns[i].keyOrdinal = catalog[place[i]].keyOrdinal
    <3>1. place[i] \in TableRows(key) /\ columns[i] = Column(catalog[place[i]])
      BY <2>3
    <3> HIDE DEF columns
    <3> QED BY <3>1 DEF Column
  <2>5. IsFiniteSet(PrimaryColumns(columns)) /\ Cardinality(keyed) = Cardinality(PrimaryColumns(columns))
    BY <2>1, <2>2, ListsPrimary
  <2>6. ASSUME NEW k \in TableRows(key)
        PROVE  /\ k \in DOMAIN catalog /\ ~IsEmpty(catalog[k]) /\ catalog[k].key = key
               /\ catalog[k].keySize = sizes[key]
               /\ Cardinality(keyed) = sizes[key]
    <3>1. k \in DOMAIN catalog /\ ~IsEmpty(catalog[k]) /\ catalog[k].key = key
      BY <2>6 DEF TableRows
    <3>2. catalog[k].keySize = sizes[key]
      BY <1>1, <3>1 DEF IInv, RowsInv, AgreesWithTable
    <3>3. keyed = {n \in {m \in {h \in DOMAIN catalog : ~IsEmpty(catalog[h])} : catalog[m].primary} :
                     catalog[n].key = catalog[k].key}
      BY <3>1 DEF TableRows
    <3>4. Cardinality(keyed) = catalog[k].keySize
      BY <3>1, <3>3 DEF Consistent
    <3> QED BY <3>1, <3>2, <3>4
  <2>7. Cardinality(PrimaryColumns(columns)) = sizes[key]
    BY <2>1, <2>5, <2>6
  <2>8. ASSUME NEW k \in TableRows(key), NEW n \in TableRows(key), k # n
        PROVE  /\ catalog[k].column # catalog[n].column
               /\ catalog[k].ordinal # catalog[n].ordinal
               /\ catalog[k].primary => catalog[k].keyOrdinal # catalog[n].keyOrdinal
    <3> DEFINE full == {m \in DOMAIN catalog : ~IsEmpty(catalog[m])}
    <3>1. k \in full /\ n \in full /\ catalog[k].key = catalog[n].key
      BY <2>6
    <3>2. \A x, y \in full :
            x # y /\ catalog[x].key = catalog[y].key =>
              /\ catalog[x].column # catalog[y].column
              /\ catalog[x].ordinal # catalog[y].ordinal
              /\ catalog[x].primary => catalog[x].keyOrdinal # catalog[y].keyOrdinal
      BY DEF Consistent
    <3> HIDE DEF full
    <3> QED BY <2>8, <3>1, <3>2
  <2>9. ASSUME NEW k \in TableRows(key)
        PROVE  /\ catalog[k].ordinal > 0
               /\ catalog[k].keyOrdinal >= 0
               /\ catalog[k].primary = (catalog[k].keyOrdinal > 0)
               /\ catalog[k].keyOrdinal \in 0 .. sizes[key]
    <3>1. /\ catalog[k].ordinal > 0
          /\ catalog[k].primary = (catalog[k].keyOrdinal > 0)
          /\ catalog[k].keyOrdinal \in 0 .. catalog[k].keySize
      BY <2>6 DEF Consistent
    <3>2. catalog[k].keySize = sizes[key]
      BY <2>6
    <3>3. catalog[k].keyOrdinal >= 0
      BY <3>1
    <3> QED BY <3>1, <3>2, <3>3
  <2>10. g \in [PrimaryColumns(columns) -> Int]
        /\ \A i \in PrimaryColumns(columns) : g[i] \in 1 .. sizes[key]
    <3>1. ASSUME NEW i \in PrimaryColumns(columns) PROVE columns[i].keyOrdinal \in 1 .. sizes[key]
      <4>1. /\ place[i] \in TableRows(key) /\ catalog[place[i]].primary
            /\ columns[i].keyOrdinal = catalog[place[i]].keyOrdinal
        <5>1. i \in DOMAIN columns /\ columns[i].primary
          BY <3>1 DEF PrimaryColumns
        <5> HIDE DEF columns
        <5> QED BY <2>4, <5>1
      <4>2. catalog[place[i]].keyOrdinal > 0 /\ catalog[place[i]].keyOrdinal \in 0 .. sizes[key]
        BY <2>9, <4>1
      <4> QED BY <4>1, <4>2
    <3> QED BY <3>1
  <2>11. \A i, j \in PrimaryColumns(columns) : g[i] = g[j] => i = j
    <3> SUFFICES ASSUME NEW i \in PrimaryColumns(columns), NEW j \in PrimaryColumns(columns), i # j
                 PROVE  g[i] # g[j]
      OBVIOUS
    <3>1. /\ i \in DOMAIN columns /\ j \in DOMAIN columns
          /\ columns[i].primary /\ columns[j].primary
      BY DEF PrimaryColumns
    <3>2. place[i] # place[j] /\ place[i] \in TableRows(key) /\ place[j] \in TableRows(key)
      BY <2>3, <3>1
    <3>3. catalog[place[i]].primary
      BY <2>4, <3>1
    <3>4. catalog[place[i]].keyOrdinal # catalog[place[j]].keyOrdinal
      BY <2>8, <3>2, <3>3
    <3>5. columns[i].keyOrdinal # columns[j].keyOrdinal
      BY <2>4, <3>1, <3>4
    <3> QED BY <3>5
  <2>12. {g[i] : i \in PrimaryColumns(columns)} = 1 .. Cardinality(PrimaryColumns(columns))
    <3> HIDE DEF g, columns
    <3> QED BY <2>5, <2>7, <2>10, <2>11, OrdinalsAreAPermutation
  <2>13. {columns[i].keyOrdinal : i \in PrimaryColumns(columns)}
           = 1 .. Cardinality(PrimaryColumns(columns))
    BY <2>12
  <2>14. \A i, j \in DOMAIN columns : i # j => /\ columns[i].name # columns[j].name
                                               /\ columns[i].ordinal # columns[j].ordinal
    <3> SUFFICES ASSUME NEW i \in DOMAIN columns, NEW j \in DOMAIN columns, i # j
                 PROVE  columns[i].name # columns[j].name /\ columns[i].ordinal # columns[j].ordinal
      OBVIOUS
    <3>1. place[i] # place[j] /\ place[i] \in TableRows(key) /\ place[j] \in TableRows(key)
      BY <2>3
    <3>2. /\ catalog[place[i]].column # catalog[place[j]].column
          /\ catalog[place[i]].ordinal # catalog[place[j]].ordinal
      BY <2>8, <3>1
    <3> HIDE DEF columns
    <3> QED BY <2>4, <3>2
  <2>15. \A i \in DOMAIN columns : /\ columns[i].ordinal > 0
                                   /\ columns[i].keyOrdinal >= 0
                                   /\ columns[i].primary = (columns[i].keyOrdinal > 0)
    <3> SUFFICES ASSUME NEW i \in DOMAIN columns
                 PROVE  /\ columns[i].ordinal > 0
                        /\ columns[i].keyOrdinal >= 0
                        /\ columns[i].primary = (columns[i].keyOrdinal > 0)
      OBVIOUS
    <3>1. place[i] \in TableRows(key)
      BY <2>3
    <3>2. /\ catalog[place[i]].ordinal > 0
          /\ catalog[place[i]].keyOrdinal >= 0
          /\ catalog[place[i]].primary = (catalog[place[i]].keyOrdinal > 0)
      BY <2>9, <3>1
    <3> HIDE DEF columns
    <3> QED BY <2>4, <3>2
  <2>16. KeyComplete(key)
    BY <2>7 DEF KeyComplete
  <2>17. SourceIdentity(key)
    <3>1. PICK k \in TableRows(key) : TRUE
      BY <2>1
    <3>2. k \in DOMAIN catalog /\ ~IsEmpty(catalog[k]) /\ catalog[k].key = key
      BY <2>6
    <3>3. /\ server = ServerOf(catalog[k]) /\ catalog[k].db # Blank
          /\ catalog[k].db = IF dialect = "mysql" THEN key.schema ELSE key.catalog
          /\ key.schema # Blank
      BY <1>3, <3>2 DEF Consistent
    <3> QED BY <3>3 DEF SourceIdentity, ServerOf
  <2> QED BY <2>13, <2>14, <2>15, <2>16, <2>17 DEF validateColumns
<1> QED BY <1>4, <1>5 DEF Valid

-----------------------------------------------------------------------------
(* The properties. *)

(* What has been gathered is of the rows read and no others, for any       *)
(* number of rows (the row loop of inspectCatalog).                        *)
THEOREM CatalogTypeCorrect == Spec => []TypeOK
<1>1. ASSUME IInv PROVE TypeOK
  <2> USE <1>1 DEF IInv
  <2>1. dialect \in Dialects /\ read \in 0 .. Len(catalog)
    BY DEF RowsInv
  <2>2. \A k \in 1 .. read : server = ServerOf(catalog[k])
    BY DEF RowsInv
  <2>3. (server = None) = (read = 0)
    <3>1. CASE read = 0
      BY <3>1 DEF RowsInv
    <3>2. CASE read # 0
      <4>1. 1 \in 1 .. read /\ 1 \in DOMAIN catalog
        BY <2>1, <3>2, CatalogType DEF RowsInv
      <4>2. server # None
        BY <2>2, <4>1, CatalogsAssumption DEF RowsInv
      <4> QED BY <3>2, <4>2
    <3> QED BY <3>1, <3>2
  <2>4. ASSUME NEW key \in DOMAIN tables
        PROVE  Len(tables[key].columns) = Cardinality(TableRows(key) \cap 1 .. read)
    <3>1. tables[key].columns \in Seq(Columns)
      BY DEF TablesInv
    <3>2. PICK place : Lists(tables[key].columns, Seen(key), place)
      BY DEF TablesInv
    <3>3. Cardinality(Seen(key)) = Len(tables[key].columns)
      BY <3>1, <3>2, ListsLength
    <3> QED BY <3>3 DEF Seen
  <2>5. DOMAIN tables \subseteq Keys /\ DOMAIN sizes = DOMAIN tables
    BY DEF TablesInv
  <2> QED BY <2>1, <2>2, <2>3, <2>4, <2>5 DEF TypeOK
<1> QED BY <1>1, Inductive, PTL

(* An inspection that returns shows every row of the catalog and nothing   *)
(* else (the row loop, rows.Err and the document made of the tables).      *)
THEOREM InspectionIsWhole == Spec => []WholeCatalog
<1>1. ASSUME IInv PROVE WholeCatalog
  <2> USE <1>1 DEF IInv
  <2> SUFFICES ASSUME Returned, NEW key \in Keys
               PROVE  IF TableRows(key) = {} THEN key \notin DOMAIN document
                      ELSE /\ key \in DOMAIN document
                           /\ \A k \in TableRows(key) : document[key].type = catalog[k].type
                           /\ document[key].columns = {Column(catalog[k]) : k \in TableRows(key)}
    BY DEF WholeCatalog
  <2>1. read = Len(catalog) /\ document = Inspected
    BY DEF EndInv
  <2>2. DOMAIN catalog = 1 .. read /\ Seen(key) = TableRows(key)
    BY <2>1, AllRead
  <2>3. DOMAIN document = DOMAIN tables
    BY <2>1 DEF Inspected
  <2>4. ASSUME NEW k \in TableRows(key)
        PROVE  key \in DOMAIN tables /\ tables[key].type = catalog[k].type
    <3>1. k \in 1 .. read /\ ~IsEmpty(catalog[k]) /\ catalog[k].key = key
      BY <2>2 DEF TableRows
    <3> QED BY <3>1 DEF RowsInv, AgreesWithTable
  <2>5. ASSUME key \in DOMAIN tables
        PROVE  /\ TableRows(key) # {}
               /\ document[key].type = tables[key].type
               /\ document[key].columns = {Column(catalog[k]) : k \in TableRows(key)}
    <3> DEFINE columns == tables[key].columns
    <3>1. columns \in Seq(Columns) /\ TableRows(key) # {}
      BY <2>2, <2>5 DEF TablesInv
    <3>2. PICK place : Lists(columns, TableRows(key), place)
      BY <2>2, <2>5 DEF TablesInv
    <3>3. /\ \A i \in DOMAIN columns : place[i] \in TableRows(key)
                                       /\ columns[i] = Column(catalog[place[i]])
          /\ \A k \in TableRows(key) : \E i \in DOMAIN columns : place[i] = k
      BY <3>1, <3>2, ListsFacts
    <3>4. document[key] = [type |-> tables[key].type, columns |-> ToSet(columns)]
      BY <2>1, <2>5 DEF Inspected
    <3>5. ToSet(columns) = {columns[i] : i \in DOMAIN columns}
      BY DEF ToSet
    <3>6. ToSet(columns) = {Column(catalog[k]) : k \in TableRows(key)}
      <4> HIDE DEF columns
      <4> QED BY <3>3, <3>5
    <3> QED BY <3>1, <3>4, <3>6
  <2> QED BY <2>3, <2>4, <2>5
<1> QED BY <1>1, Inductive, PTL

(* A primary key is shown whole or the inspection fails                    *)
(* (PrimaryKeyCounts and validateColumns).                                 *)
THEOREM KeysAreShownWhole == Spec => []KeysAreWhole
<1>1. ASSUME IInv PROVE KeysAreWhole
  <2> USE <1>1 DEF IInv
  <2> SUFFICES ASSUME Returned, NEW key \in Keys, NEW k \in TableRows(key)
               PROVE  {c.keyOrdinal : c \in {c \in document[key].columns : c.primary}}
                        = 1 .. catalog[k].keySize
    BY DEF KeysAreWhole
  <2> DEFINE columns == tables[key].columns
  <2>1. read = Len(catalog) /\ document = Inspected /\ Valid
    BY DEF EndInv
  <2>2. k \in 1 .. read /\ ~IsEmpty(catalog[k]) /\ catalog[k].key = key
    BY <2>1, AllRead DEF TableRows
  <2>3. key \in DOMAIN tables /\ sizes[key] = catalog[k].keySize
    BY <2>2 DEF RowsInv, AgreesWithTable
  <2>4. /\ Cardinality(PrimaryColumns(columns)) = catalog[k].keySize
        /\ {columns[i].keyOrdinal : i \in PrimaryColumns(columns)}
             = 1 .. Cardinality(PrimaryColumns(columns))
    BY <2>1, <2>3 DEF Valid, KeyComplete, validateColumns
  <2>5. document[key] = [type |-> tables[key].type, columns |-> ToSet(columns)]
    BY <2>1, <2>3 DEF Inspected
  <2>6. document[key].columns = {columns[i] : i \in DOMAIN columns}
    BY <2>5 DEF ToSet
  <2>7. {c.keyOrdinal : c \in {c \in document[key].columns : c.primary}}
          = {columns[i].keyOrdinal : i \in PrimaryColumns(columns)}
    <3> HIDE DEF columns
    <3> QED BY <2>6 DEF PrimaryColumns
  <2> QED BY <2>4, <2>7
<1> QED BY <1>1, Inductive, PTL

(* Whether a catalog is accepted is a property of its rows: contradictions *)
(* are found between any two rows, and nothing else is refused.            *)
THEOREM OrderDoesNotMatter == Spec => []OrderIsIrrelevant
<1> DEFINE Refused == outcome = "refused" => ~Consistent
<1>1. Init => Refused
  BY DEF Init
<1>2. ASSUME IInv, Refused, [Next]_vars PROVE Refused'
  <2>1. UNCHANGED <<dialect, catalog>>
    BY <1>2 DEF Next, Interrupted, RefuseRow, ReadRow, Finish, End, vars
  <2>2. Consistent' = Consistent
    BY <2>1 DEF Consistent, SupportedVersion, IsIncomplete
  <2>3. CASE RefuseRow
    <3>1. read < Len(catalog) /\ ~Accepted(catalog[read + 1])
      BY <2>3 DEF RefuseRow
    <3>2. ~Consistent
      BY <1>2, <3>1, ConsistentIsAccepted
    <3> QED BY <2>2, <3>2
  <2>4. CASE Finish
    <3>1. CASE Valid
      BY <2>4, <3>1 DEF Finish, End
    <3>2. CASE ~Valid
      <4>1. read = Len(catalog)
        BY <2>4 DEF Finish
      <4>2. ~Consistent
        BY <1>2, <3>2, <4>1, ConsistentIsValid
      <4> QED BY <2>2, <4>2
    <3> QED BY <3>1, <3>2
  <2>5. CASE Interrupted
    BY <2>5 DEF Interrupted, End
  <2>6. CASE ReadRow
    BY <2>6 DEF ReadRow
  <2>7. CASE UNCHANGED vars
    BY <1>2, <2>2, <2>7 DEF vars
  <2> QED BY <1>2, <2>3, <2>4, <2>5, <2>6, <2>7 DEF Next
<1>3. ASSUME IInv, Refused PROVE OrderIsIrrelevant
  <2>1. Returned => Consistent
    BY <1>3, ValidIsConsistent DEF IInv, EndInv
  <2> QED BY <1>3, <2>1 DEF OrderIsIrrelevant
<1> HIDE DEF Refused
<1> QED BY <1>1, <1>2, <1>3, Inductive, PTL DEF Spec
=============================================================================
