----------------------- MODULE GeneratedPackageProofs -----------------------
(***************************************************************************)
(* Proofs about GeneratedPackage, checked by TLAPS, for every table, every *)
(* dialect, every type mapping and every number of identifiers:            *)
(*   - a row that SelectCols read in part is never written back;           *)
(*   - Update changes the rows of the key, in the columns it may write;    *)
(*   - the identity an Insert generated reaches the model as it is;        *)
(*   - the identifiers and imports of a package that passed the validation *)
(*     never collide, and those it imports are those it uses;              *)
(*   - the name derived for a package is valid, whatever the table's is.   *)
(*                                                                         *)
(* The first follows from RowInv: SelectCols takes a row for whole when it *)
(* has as many result columns as the table has columns, which is enough    *)
(* because it refused unknown and duplicate columns (WholeProjection).     *)
(* The next two follow from PackageInv: the data of a rendered package is  *)
(* what configureRuntime made of a table that was validated, and the cells *)
(* of every row are values its columns can take.  The fourth follows from  *)
(* NamingOK, which holds of the identifiers that validation leaves to the  *)
(* package (TakenOK) and through every step of their allocation.  The last *)
(* is about sanitizeGoFileComponent: each of its fixes keeps what those    *)
(* before it have reached (PortableNames, TwoTurns, Truncated).            *)
(***************************************************************************)
EXTENDS GeneratedPackage, FiniteSetTheorems, SequenceTheorems, TLAPS

-----------------------------------------------------------------------------
(* Induction, in a form without operator parameters. *)

(* A set of naturals that is not empty has a least element.                *)
LEMMA LeastNatural ==
  ASSUME NEW S \in SUBSET Nat, S # {}
  PROVE  \E m \in S : \A k \in S : m <= k
<1> DEFINE R == StrictSubsetOrdering(Nat)
           Below == {0 .. m : m \in S}
<1>1. Below \subseteq FiniteSubsetsOf(Nat)
  <2>1. \A m \in Nat : IsFiniteSet(0 .. m) /\ 0 .. m \in SUBSET Nat
    <3> TAKE m \in Nat
    <3>1. 0 \in Int /\ m \in Int
      OBVIOUS
    <3> QED BY <3>1, FS_Interval
  <2> QED BY <2>1 DEF FiniteSubsetsOf
<1>2. Below # {}
  OBVIOUS
<1>3. \E x \in Below : \A y \in Below : <<y, x>> \notin R
  <2> HIDE DEF R, Below
  <2>1. IsWellFoundedOn(R, FiniteSubsetsOf(Nat))
    BY FS_StrictSubsetOrderingWellFounded DEF R
  <2> QED BY <2>1, <1>1, <1>2, WFMin
<1>4. PICK m \in S : \A k \in S : <<0 .. k, 0 .. m>> \notin R
  BY <1>3
<1>5. ASSUME NEW k \in S, k < m PROVE FALSE
  <2>1. /\ 0 .. k \subseteq 0 .. m
        /\ m \in 0 .. m /\ m \notin 0 .. k
        /\ 0 .. k \in SUBSET Nat /\ 0 .. m \in SUBSET Nat
    BY <1>5
  <2>2. 0 .. k # 0 .. m
    BY <2>1
  <2> QED BY <1>4, <2>1, <2>2 DEF StrictSubsetOrdering
<1> QED BY <1>4, <1>5

(* A set that holds 0 and the successor of each of its elements holds all.  *)
LEMMA NaturalInduction ==
  ASSUME NEW S \in SUBSET Nat, 0 \in S, \A n \in S : n + 1 \in S
  PROVE  S = Nat
<1> SUFFICES ASSUME Nat \ S # {} PROVE FALSE
  OBVIOUS
<1>1. PICK m \in Nat \ S : \A k \in Nat \ S : m <= k
  <2>1. Nat \ S \in SUBSET Nat
    OBVIOUS
  <2> QED BY <2>1, LeastNatural
<1>2. m - 1 \in Nat /\ m - 1 \in S
  BY <1>1
<1> QED BY <1>1, <1>2

(* The same up to a bound.                                                  *)
LEMMA BoundedInduction ==
  ASSUME NEW n \in Nat, NEW S, 0 \in S, \A k \in 1 .. n : k - 1 \in S => k \in S
  PROVE  0 .. n \subseteq S
<1> DEFINE T == {k \in Nat : k <= n => k \in S}
<1>1. 0 \in T
  OBVIOUS
<1>2. ASSUME NEW k \in T PROVE k + 1 \in T
  <2>1. CASE k + 1 <= n
    BY <2>1
  <2>2. CASE ~(k + 1 <= n)
    BY <2>2
  <2> QED BY <2>1, <2>2
<1>3. T = Nat
  <2>1. T \in SUBSET Nat
    OBVIOUS
  <2> HIDE DEF T
  <2> QED BY <1>1, <1>2, <2>1, NaturalInduction
<1> QED BY <1>3

(* Min of FiniteSetsExt.                                                    *)
LEMMA MinNatural ==
  ASSUME NEW S \in SUBSET Nat, S # {}
  PROVE  Min(S) \in S /\ \A k \in S : Min(S) <= k
BY LeastNatural DEF Min

-----------------------------------------------------------------------------
(* Recursive functions. *)

(* Repeated application of a step has a result for every number of steps.   *)
Iterates(f, X, a, n, step) ==
  /\ f \in [0 .. n -> X]
  /\ f[0] = a
  /\ \A k \in 1 .. n : f[k] = step[k][f[k - 1]]

(* Steps that are all given can be taken one after the other.               *)
LEMMA Iteration ==
  ASSUME NEW X, NEW a \in X, NEW n \in Nat, NEW step \in [1 .. n -> [X -> X]]
  PROVE  \E f : Iterates(f, X, a, n, step)
<1> DEFINE Upto(m) == \E f : Iterates(f, X, a, m, step)
           S == {m \in 0 .. n : Upto(m)}
<1>1. 0 \in S
  <2> DEFINE g == [k \in 0 .. 0 |-> a]
  <2>1. g \in [0 .. 0 -> X] /\ g[0] = a /\ \A k \in 1 .. 0 : g[k] = step[k][g[k - 1]]
    OBVIOUS
  <2>2. Upto(0)
    <3> HIDE DEF g
    <3>1. Iterates(g, X, a, 0, step)
      BY <2>1 DEF Iterates
    <3> QED BY <3>1
  <2> QED BY <2>2
<1>2. ASSUME NEW l \in 1 .. n, l - 1 \in S PROVE l \in S
  <2> DEFINE m == l - 1
  <2>0. m \in Nat /\ l = m + 1 /\ m + 1 \in 1 .. n
    OBVIOUS
  <2>1. PICK f : Iterates(f, X, a, m, step)
    BY <1>2
  <2> DEFINE g == [k \in 0 .. m + 1 |-> IF k = m + 1 THEN step[m + 1][f[m]] ELSE f[k]]
  <2> HIDE DEF m
  <2>2. f[m] \in X /\ step[m + 1][f[m]] \in X
    BY <2>0, <2>1 DEF Iterates
  <2>3. g \in [0 .. m + 1 -> X]
    BY <2>0, <2>2, <2>1 DEF Iterates
  <2>4. g[0] = a
    BY <2>0, <2>1 DEF Iterates
  <2>5. ASSUME NEW k \in 1 .. m + 1 PROVE g[k] = step[k][g[k - 1]]
    <3>1. CASE k = m + 1
      <4>1. g[m] = f[m] /\ g[m + 1] = step[m + 1][f[m]] /\ k - 1 = m
        BY <2>0, <3>1
      <4> HIDE DEF g
      <4> QED BY <3>1, <4>1
    <3>2. CASE k # m + 1
      <4>1. k \in 1 .. m /\ g[k] = f[k] /\ g[k - 1] = f[k - 1]
        BY <2>0, <3>2
      <4> HIDE DEF g
      <4> QED BY <4>1, <2>1 DEF Iterates
    <3> QED BY <3>1, <3>2
  <2>6. Upto(l)
    <3> HIDE DEF g
    <3>1. Iterates(g, X, a, m + 1, step)
      BY <2>3, <2>4, <2>5 DEF Iterates
    <3> QED BY <2>0, <3>1
  <2> QED BY <2>6
<1>3. 0 .. n \subseteq S
  <2> HIDE DEF S
  <2> QED BY <1>1, <1>2, BoundedInduction
<1>4. n \in 0 .. n
  OBVIOUS
<1> QED BY <1>3, <1>4

(* A row that is not flagged was read whole. *)
WholeRow == (row # None /\ ~row.partial) => row.read = Columns

(* The shape of the model value, and of its table. *)
Shape ==
  /\ row = [vals |-> row.vals, partial |-> row.partial, read |-> row.read]
  /\ row.partial \in BOOLEAN
  /\ Len(table.columns) \in Nat /\ Columns = 1..Len(table.columns)

RowInv == Shape /\ WholeRow

-----------------------------------------------------------------------------
(* A row read in part. *)

(* A projection that is not refused and is not shorter than the table has
   every column (renderRows in model.go.tpl compares only the lengths). *)
LEMMA WholeProjection ==
  ASSUME NEW n \in Nat, NEW projection \in Seq(Nat), ~ProjectionRefused(projection),
         Range(projection) \subseteq (1..n) \cup {0}, ~(Len(projection) < n)
  PROVE  Range(projection) = 1..n
<1> DEFINE m == Len(projection)
<1>1. m \in Nat /\ DOMAIN projection = 1..m /\ m >= n
  OBVIOUS
<1>2. IsInjective(projection) /\ 0 \notin Range(projection)
  BY DEF ProjectionRefused
<1>3. projection \in Injection(1..m, 1..n)
  <2>1. projection \in [1..m -> Nat]
    OBVIOUS
  <2>2. \A i \in 1..m : projection[i] \in 1..n
    BY <1>1, <1>2 DEF Range
  <2>3. projection \in [1..m -> 1..n]
    BY <2>1, <2>2
  <2> QED BY <2>3, <1>2 DEF Injection
<1>4. /\ IsFiniteSet(1..n) /\ Cardinality(1..n) = n
      /\ IsFiniteSet(1..m) /\ Cardinality(1..m) = m
  <2>1. ASSUME NEW k \in Nat PROVE IsFiniteSet(1..k) /\ Cardinality(1..k) = k
    <3>1. 1 \in Int /\ k \in Int
      OBVIOUS
    <3>2. IsFiniteSet(1..k) /\ Cardinality(1..k) = IF 1 > k THEN 0 ELSE k - 1 + 1
      BY <3>1, FS_Interval
    <3> QED BY <3>2
  <2> QED BY <1>1, <2>1
<1>5. projection \in Surjection(1..m, 1..n)
  <2>1. Cardinality(1..m) <= Cardinality(1..n)
    BY <1>3, <1>4, FS_Injection
  <2>2. Cardinality(1..m) = Cardinality(1..n)
    BY <2>1, <1>4, <1>1
  <2> QED BY <2>2, <1>3, <1>4, FS_Injection
<1> QED BY <1>1, <1>5 DEF Surjection, Range

(* The program starts without a row, with a table of the manifest. *)
LEMMA RowInit ==
  ASSUME Init
  PROVE  RowInv
<1>1. PICK i \in Inputs : \E n, f :
        table = [type |-> i.table.type, goName |-> i.table.goName, columns |-> i.table.columns,
                 name |-> n, fileName |-> f]
  BY DEF Init
<1>2. table.columns \in Seq(Range(i.table.columns))
  <2>1. table.columns = i.table.columns
    BY <1>1
  <2> QED BY <2>1, GeneratedPackageAssumption
<1>3. Len(table.columns) \in Nat /\ Columns = 1..Len(table.columns)
  BY <1>2 DEF Columns
<1> QED BY <1>3 DEF Init, None, RowInv, Shape, WholeRow

(* The calls that read a row flag it when they did not read all of it, and
   those that write one leave the flag and what was read alone. *)
LEMMA RowStep ==
  ASSUME RowInv, Next
  PROVE  RowInv' /\ table' = table
<1> USE DEF RowInv, Shape, WholeRow, Columns, Answer, input
<1>1. CASE Render
  BY <1>1 DEF Render, None
<1>2. CASE SelectAll
  <2>1. table' = table
    BY <1>2 DEF SelectAll
  <2>2. row' = row \/ \E vals : row' = [vals |-> vals, partial |-> FALSE, read |-> Columns]
    BY <1>2 DEF SelectAll
  <2>3. CASE row' = row
    BY <2>1, <2>3 DEF None
  <2>4. ASSUME NEW vals, row' = [vals |-> vals, partial |-> FALSE, read |-> Columns]
        PROVE  RowInv'
    BY <2>1, <2>4
  <2> QED BY <2>1, <2>2, <2>3, <2>4
<1>3. CASE Literal
  BY <1>3 DEF Literal
<1>4. CASE Insert
  <2> HIDE DEF WholeRow
  <2>0. row # None /\ table' = table
    BY <1>4 DEF Insert, InsertRow, InsertFails
  <2>1. row' = row \/ (\E vals : row' = [row EXCEPT !.vals = vals])
    BY <1>4 DEF Insert, InsertRow, InsertFails
  <2>2. row'.partial = row.partial /\ row'.read = row.read /\ row' = [vals |-> row'.vals, partial |-> row'.partial, read |-> row'.read]
    BY <2>1
  <2> QED BY <2>0, <2>2 DEF WholeRow
<1>5. CASE Update
  BY <1>5 DEF Update, None
<1>6. ASSUME NEW p \in Projections, SelectCols(p) PROVE RowInv' /\ table' = table
  <2>1. table' = table
    BY <1>6 DEF SelectCols
  <2>2. CASE ProjectionRefused(p) \/ row' = row
    BY <1>6, <2>1, <2>2 DEF SelectCols, None
  <2>3. CASE ~ProjectionRefused(p) /\ row' # row
    <3>1. Range(p) \subseteq Columns \cup {0} /\ p \in Seq(Nat)
      BY <1>6, GeneratedPackageAssumption DEF SelectCols
    <3>2. PICK vals : row' = [vals |-> vals, partial |-> Len(p) < Len(table.columns), read |-> Range(p)]
      BY <1>6, <2>3 DEF SelectCols
    <3>3. ~row'.partial => row'.read = Columns
      BY <2>3, <3>1, <3>2, WholeProjection
    <3> QED BY <2>1, <3>2, <3>3
  <2> QED BY <2>2, <2>3
<1>7. ASSUME NEW i \in Columns, NEW v, Assign(i, v) PROVE RowInv' /\ table' = table
  <2>1. row # None /\ table' = table /\ row' = [row EXCEPT !.vals[i] = v, !.read = @ \cup {i}]
    BY <1>7 DEF Assign
  <2>2. row'.partial = row.partial /\ row'.read = row.read \cup {i} /\ row' = [vals |-> row'.vals, partial |-> row'.partial, read |-> row'.read]
    BY <2>1
  <2> QED BY <2>1, <2>2
<1>8. ASSUME NEW ids, Delete(ids) PROVE RowInv' /\ table' = table
  BY <1>8 DEF Delete, None
<1>9. ASSUME NEW cells, OtherInsert(cells) PROVE RowInv' /\ table' = table
  BY <1>9 DEF OtherInsert, None
<1> QED BY <1>1, <1>2, <1>3, <1>4, <1>5, <1>6, <1>7, <1>8, <1>9 DEF Next

(* Insert and Update refuse a flagged row before they send anything. *)
LEMMA WritesRefusePartial ==
  ASSUME RowInv, Next, reply'[1] \in {"Insert", "Update"}, db' # db
  PROVE  row.read = Columns
<1>1. CASE Insert
  BY <1>1 DEF Insert, RowInv, WholeRow
<1>2. CASE Update
  BY <1>2 DEF Update, RowInv, WholeRow
<1>3. CASE Render \/ SelectAll \/ Literal
  BY <1>3 DEF Render, SelectAll, Literal, Answer
<1>4. CASE \E p \in Projections : SelectCols(p)
  BY <1>4 DEF SelectCols, Answer
<1>5. CASE \E i \in Columns : \E v \in Values(i) : Assign(i, v)
  BY <1>5 DEF Assign, Answer
<1>6. ASSUME NEW ids, Delete(ids) PROVE FALSE
  BY <1>6 DEF Delete, Answer
<1>7. ASSUME NEW cells, OtherInsert(cells) PROVE FALSE
  BY <1>7 DEF OtherInsert, Answer
<1> QED BY <1>1, <1>2, <1>3, <1>4, <1>5, <1>6, <1>7 DEF Next

(* A row that SelectCols read in part is never written by Insert or Update,
   whatever columns the query returned (model.go.tpl). *)
THEOREM UnreadIsNeverWrittenBack == Spec => UnreadIsNeverWritten
<1>1. Init => RowInv
  BY RowInit
<1>2. RowInv /\ [Next]_vars => RowInv'
  <2> SUFFICES ASSUME RowInv, [Next]_vars PROVE RowInv'
    OBVIOUS
  <2>1. CASE UNCHANGED vars
    BY <2>1 DEF vars, RowInv, Shape, WholeRow, None, Columns
  <2>2. CASE Next
    BY <2>2, RowStep
  <2> QED BY <2>1, <2>2
<1>3. RowInv /\ [Next]_vars =>
        [(reply'[1] \in {"Insert", "Update"} /\ db' # db) => row.read = Columns]_vars
  BY WritesRefusePartial
<1> QED BY <1>1, <1>2, <1>3, PTL DEF Spec, UnreadIsNeverWritten

-----------------------------------------------------------------------------
(* The package and the table. *)

(* Table and dialect are those of an input. *)
InputInv == \E i \in Inputs : table.columns = i.table.columns /\ dialect = i.dialect

(* The template is executed with what the render made of a valid table. *)
DataInv ==
  phase = "rendered" => Validate(table) /\ data = configureRuntime(BuildData(table), Options)

(* Every cell of every row is a value its column can take. *)
DbInv ==
  /\ Rows \subseteq 1..MaxRows
  /\ db = [id \in Rows |-> db[id]]
  /\ \A id \in Rows : db[id] \in AllRows

(* No call has been made before there is a package. *)
ReplyInv == phase = "manifest" => reply = <<"", "">>

PackageInv == InputInv /\ DataInv /\ DbInv /\ ReplyInv

(* The two flags of configureRuntime that a statement depends on. *)
LEMMA NeedsFlags ==
  ASSUME NEW d, NEW config
  PROVE  /\ Needs(d, config).unsigned <=> UnsignedLastInsertID(d, config)
         /\ Needs(d, config).rejectNull <=> RejectNullUpdateKey(d, config)
BY DEF Needs

(* What BuildData and configureRuntime (internal/render/model.go) put into the
   data of a rendered package, field by field. *)
LEMMA DataFields ==
  ASSUME DataInv, phase = "rendered"
  PROVE  /\ data.base = (table.type = "BASE TABLE")
         /\ data.goName = table.goName
         /\ data.columns = BuildData(table).columns
         /\ data.key = KeyPositions
         /\ data.write = {i \in Columns : IsWritableColumn(table.columns[i])}
         /\ data.update = data.write \ data.key
         /\ data.identity = {i \in Columns : IsIdentity(i)}
         /\ data.needs = Needs(BuildData(table), Options)
         /\ LET d == BuildData(table)
                named == AllNamed(Taken(d), Packages(Needs(d, Options)), FieldNames(d))
            IN data.names = named.names /\ data.imports = named.imports
<1> DEFINE d == BuildData(table)
           needs == Needs(d, Options)
           named == AllNamed(Taken(d), Packages(needs), FieldNames(d))
<1>1. data = [d EXCEPT !.needs = needs, !.names = named.names, !.imports = named.imports]
  BY DEF DataInv, configureRuntime
<1>2. /\ d = [goName |-> d.goName, base |-> d.base, columns |-> d.columns, write |-> d.write, key |-> d.key,
              update |-> d.update, identity |-> d.identity, needs |-> d.needs, names |-> d.names, imports |-> d.imports]
      /\ d.goName = table.goName
      /\ d.base = (table.type = "BASE TABLE")
      /\ d.key = KeyPositions
      /\ d.write = {i \in Columns : IsWritableColumn(table.columns[i])}
      /\ d.update = d.write \ d.key
      /\ d.identity = {i \in Columns : IsIdentity(i)}
  BY DEF BuildData, KeyPositions, primaryKeyNames, IsIdentity, Columns
<1> HIDE DEF d, needs, named
<1>3. /\ data.goName = d.goName /\ data.base = d.base /\ data.columns = d.columns /\ data.write = d.write
      /\ data.key = d.key /\ data.update = d.update /\ data.identity = d.identity /\ data.needs = needs
      /\ data.names = named.names /\ data.imports = named.imports
  BY <1>1, <1>2
<1> QED BY <1>2, <1>3 DEF d, needs, named

(* NULL is no value of a column that is not nullable, nor of an identity, and an
   identity has the sign bit set only in an unsigned column of MySQL. *)
LEMMA NullIsNoValue ==
  ASSUME NEW i \in Columns
  PROVE  /\ Null \notin Others /\ Null \notin Generated
         /\ ~table.columns[i].nullable \/ IsIdentity(i) => Null \notin Values(i)
         /\ IsIdentity(i) => \A v \in Values(i) :
              /\ v \in Nat /\ v < 2 * Half
              /\ v < Half \/ (dialect = "mysql" /\ table.columns[i].dataType = "unsignedbigint")
<1>1. Null \notin Others /\ Null \notin Generated
  BY GeneratedPackageAssumption DEF Null
<1>2. CASE IsIdentity(i)
  <2>1. Values(i) = {v \in Generated : v < Half \/ (dialect = "mysql" /\ table.columns[i].dataType = "unsignedbigint")}
    BY <1>2 DEF Values
  <2>2. Generated \subseteq 0..(2 * Half - 1) /\ Half \in Nat
    BY GeneratedPackageAssumption
  <2>3. \A v \in Generated : v \in Nat /\ v < 2 * Half
    BY <2>2
  <2> QED BY <1>1, <2>1, <2>3
<1>3. CASE ~IsIdentity(i)
  BY <1>1, <1>3 DEF Values
<1> QED BY <1>2, <1>3

(* A row that can be inserted gets a number of its own. *)
LEMMA InsertedRows ==
  ASSUME DbInv, NEW cells, Insertable(cells)
  PROVE  \E new \in (1..MaxRows) \ Rows :
           Inserted(cells) = [id \in Rows \cup {new} |-> IF id = new THEN cells ELSE db[id]]
<1> DEFINE S == (1..MaxRows) \ Rows
<1>1. S # {}
  <2> SUFFICES ASSUME 1..MaxRows \subseteq Rows PROVE FALSE
    OBVIOUS
  <2>1. Rows = 1..MaxRows
    BY DEF DbInv
  <2>2. Cardinality(1..MaxRows) = MaxRows
    <3>1. 1 \in Int /\ MaxRows \in Int /\ MaxRows > 0
      BY GeneratedPackageAssumption
    <3> QED BY <3>1, FS_Interval
  <2> QED BY <2>1, <2>2, GeneratedPackageAssumption DEF Insertable
<1>2. S \in SUBSET Nat
  BY GeneratedPackageAssumption
<1>3. Min(S) \in S
  BY <1>1, <1>2, MinNatural
<1> HIDE DEF S
<1> QED BY <1>3 DEF Inserted, S

(* An INSERT of cells that its columns can take keeps DbInv. *)
LEMMA InsertedKeeps ==
  ASSUME DbInv, NEW cells \in AllRows, Insertable(cells), db' = Inserted(cells), UNCHANGED input
  PROVE  DbInv'
<1>1. PICK new \in (1..MaxRows) \ Rows :
           db' = [id \in Rows \cup {new} |-> IF id = new THEN cells ELSE db[id]]
  BY InsertedRows
<1>2. AllRows' = AllRows
  BY DEF AllRows, input, Columns, Values, IsIdentity
<1> QED BY <1>1, <1>2 DEF DbInv, Rows

(* Every call leaves the cells of the table values of their columns: those it
   writes are the database's own choice or what it accepts. *)
LEMMA DbStep ==
  ASSUME PackageInv, Next
  PROVE  DbInv'
<1> USE DEF PackageInv
<1>0. ASSUME UNCHANGED db, table' = table, dialect' = dialect PROVE DbInv'
  <2>1. AllRows' = AllRows
    BY <1>0 DEF AllRows, Columns, Values, IsIdentity
  <2> QED BY <1>0, <2>1 DEF DbInv, Rows
<1>1. CASE Render
  BY <1>0, <1>1 DEF Render
<1>2. CASE SelectAll \/ Literal
  BY <1>0, <1>2 DEF SelectAll, Literal, Answer, input
<1>3. CASE Insert
  <2>1. CASE row.partial
    BY <1>0, <1>3, <2>1 DEF Insert, Answer, input
  <2>2. CASE ~row.partial
    <3>1. PICK cells \in NewRows : InsertRow(cells) \/ InsertFails(cells)
      BY <1>3, <2>2 DEF Insert
    <3>2. cells \in AllRows
      BY <3>1 DEF NewRows
    <3>3. UNCHANGED input /\ (db' = db \/ (Insertable(cells) /\ db' = Inserted(cells)))
      BY <3>1 DEF InsertRow, InsertFails, Answer
    <3>4. CASE db' = db
      BY <1>0, <3>3, <3>4 DEF input
    <3> QED BY <3>2, <3>3, <3>4, InsertedKeeps
  <2> QED BY <2>1, <2>2
<1>4. CASE Update
  <2>1. UNCHANGED input
    BY <1>4 DEF Update, Answer
  <2>2. db' = db \/ (Updatable /\ db' = Updated)
    BY <1>4 DEF Update
  <2>3. CASE db' = db
    BY <1>0, <2>1, <2>3 DEF input
  <2>4. CASE Updatable /\ db' = Updated
    <3>1. AllRows' = AllRows
      BY <2>1 DEF AllRows, input, Columns, Values, IsIdentity
    <3>2. \A id \in Rows : Updated[id] \in AllRows
      BY <2>4 DEF Updatable
    <3>3. DOMAIN Updated = Rows /\ Updated = [id \in Rows |-> Updated[id]]
      BY DEF Updated
    <3> QED BY <2>4, <3>1, <3>2, <3>3 DEF DbInv, Rows
  <2> QED BY <2>2, <2>3, <2>4
<1>5. ASSUME NEW p \in Projections, SelectCols(p) PROVE DbInv'
  BY <1>0, <1>5 DEF SelectCols, Answer, input
<1>6. ASSUME NEW i \in Columns, NEW v \in Values(i), Assign(i, v) PROVE DbInv'
  BY <1>0, <1>6 DEF Assign, Answer, input
<1>7. ASSUME NEW ids \in SUBSET Rows, Delete(ids) PROVE DbInv'
  <2>1. UNCHANGED input
    BY <1>7 DEF Delete, Answer
  <2>2. db' = db \/ db' = [id \in Rows \ ids |-> db[id]]
    BY <1>7 DEF Delete
  <2>3. AllRows' = AllRows
    BY <2>1 DEF AllRows, input, Columns, Values, IsIdentity
  <2>4. CASE db' = [id \in Rows \ ids |-> db[id]]
    BY <2>3, <2>4 DEF DbInv, Rows
  <2> QED BY <1>0, <2>1, <2>2, <2>4 DEF input
<1>8. ASSUME NEW cells \in AllRows, OtherInsert(cells) PROVE DbInv'
  BY <1>8, InsertedKeeps DEF OtherInsert, Answer
<1> QED BY <1>1, <1>2, <1>3, <1>4, <1>5, <1>6, <1>7, <1>8 DEF Next

(* Every step keeps PackageInv: only Render decides about the data. *)
LEMMA PackageStep ==
  ASSUME PackageInv, [Next]_vars
  PROVE  PackageInv'
<1>1. CASE UNCHANGED vars
  <2>1. AllRows' = AllRows
    BY <1>1 DEF vars, AllRows, Columns, Values, IsIdentity
  <2>2. DbInv'
    BY <1>1, <2>1 DEF PackageInv, vars, DbInv, Rows
  <2>3. InputInv' /\ DataInv' /\ ReplyInv'
    BY <1>1 DEF PackageInv, vars, InputInv, DataInv, ReplyInv, Options
  <2> QED BY <2>2, <2>3 DEF PackageInv
<1>2. CASE Next
  <2>1. table' = table /\ dialect' = dialect
    BY <1>2 DEF Next, Render, SelectAll, Literal, Insert, InsertRow, InsertFails, Update, SelectCols, Assign, Delete, OtherInsert, Answer, input
  <2>2. InputInv'
    BY <2>1 DEF PackageInv, InputInv
  <2>3. DataInv' /\ ReplyInv'
    <3>1. CASE Render
      BY <2>1, <3>1 DEF Render, PackageInv, DataInv, ReplyInv, Options
    <3>2. CASE ~Render
      <4>1. InUse /\ UNCHANGED input
        BY <1>2, <3>2 DEF Next, SelectAll, Literal, Insert, InsertRow, InsertFails, Update, SelectCols, Assign, Delete, OtherInsert, Answer
      <4> QED BY <4>1 DEF InUse, input, DataInv, ReplyInv, PackageInv, Options
    <3> QED BY <3>1, <3>2
  <2> QED BY <1>2, <2>2, <2>3, DbStep DEF PackageInv
<1> QED BY <1>1, <1>2

(* PackageInv holds before the render. *)
LEMMA PackageInit ==
  ASSUME Init
  PROVE  PackageInv
<1>1. InputInv /\ ReplyInv /\ DataInv
  <2>1. PICK i \in Inputs : \E n \in i.names, f \in i.fileNames :
          /\ table = [type |-> i.table.type, goName |-> i.table.goName, columns |-> i.table.columns,
                      name |-> n, fileName |-> f]
          /\ dialect = i.dialect
    BY DEF Init
  <2>2. table.columns = i.table.columns /\ dialect = i.dialect
    BY <2>1
  <2>3. phase = "manifest" /\ reply = <<"", "">>
    BY DEF Init
  <2> QED BY <2>2, <2>3 DEF InputInv, ReplyInv, DataInv
<1>2. DbInv
  <2>1. db = <<>>
    BY DEF Init
  <2>2. Rows = {}
    BY <2>1 DEF Rows
  <2>3. db = [id \in Rows |-> db[id]]
    BY <2>1, <2>2
  <2> QED BY <2>2, <2>3 DEF DbInv
<1> QED BY <1>1, <1>2 DEF PackageInv

(* The data of a rendered package is what configureRuntime made of a valid table,
   and the table holds only values of its columns. *)
LEMMA PackageSafe == Spec => []PackageInv
<1>1. Init => PackageInv
  BY PackageInit
<1>2. PackageInv /\ [Next]_vars => PackageInv'
  BY PackageStep
<1> QED BY <1>1, <1>2, PTL DEF Spec

-----------------------------------------------------------------------------
(* Update (model.go.tpl). *)

(* The statement selects by the whole key.  SQL's NULL is equal to nothing, and
   only SQLite lets a key be NULL, where RejectNullUpdateKey refuses one. *)
LEMMA UpdateStep ==
  ASSUME PackageInv, Update, reply' = <<"Update", "nil">>
  PROVE  db' = [id \in Rows |->
                 [i \in Columns |->
                   IF /\ SameKey(db[id], KeyPositions) /\ i \notin KeyPositions
                      /\ IsWritableColumn(table.columns[i])
                   THEN row.vals[i] ELSE db[id][i]]]
<1> DEFINE Exact(id) == [i \in Columns |->
                   IF /\ SameKey(db[id], KeyPositions) /\ i \notin KeyPositions
                      /\ IsWritableColumn(table.columns[i])
                   THEN row.vals[i] ELSE db[id][i]]
<1>1. /\ InUse /\ data.base /\ data.key # {} /\ data.update # {}
      /\ ~(data.needs.rejectNull /\ \E i \in data.key : IsNull(i))
      /\ db' = Updated
  BY DEF Update, Answer
<1>2. /\ data.key = KeyPositions
      /\ data.update = {i \in Columns : IsWritableColumn(table.columns[i])} \ KeyPositions
      /\ data.needs = Needs(BuildData(table), Options)
      /\ data.base = (table.type = "BASE TABLE")
  BY <1>1, DataFields DEF PackageInv, InUse
<1>3. Options.rejectNullUpdateKey => data.needs.rejectNull
  <2>1. BuildData(table).base /\ BuildData(table).key # {} /\ BuildData(table).update # {}
    BY <1>1, <1>2 DEF BuildData, KeyPositions, primaryKeyNames, Columns
  <2> QED BY <1>2, <2>1, NeedsFlags DEF RejectNullUpdateKey
<1>4. ASSUME NEW id \in Rows PROVE Updated[id] = Exact(id)
  <2>1. /\ db[id] = [i \in Columns |-> db[id][i]]
        /\ \A i \in Columns : db[id][i] \in Values(i)
    BY DEF PackageInv, DbInv, AllRows
  <2>2. CASE SameKey(db[id], KeyPositions)
    <3>1. ASSUME NEW i \in KeyPositions, IsNull(i) PROVE FALSE
      <4>1. i \in Columns /\ table.columns[i].key > 0 /\ db[id][i] = Null
        BY <2>2, <3>1 DEF KeyPositions, SameKey, IsNull
      <4>2. table.columns[i].nullable
        BY <2>1, <4>1, NullIsNoValue
      <4>3. dialect = "sqlite"
        BY <4>1, <4>2, GeneratedPackageAssumption DEF PackageInv, InputInv, Columns
      <4>4. Options.rejectNullUpdateKey
        BY <4>3 DEF Options, Config
      <4> QED BY <1>1, <1>2, <1>3, <3>1, <4>4
    <3> QED BY <1>2, <2>2, <3>1 DEF Updated
  <2>3. CASE ~SameKey(db[id], KeyPositions)
    BY <1>2, <2>1, <2>3 DEF Updated
  <2> QED BY <2>2, <2>3
<1> HIDE DEF Exact
<1>5. Updated = [id \in Rows |-> Exact(id)]
  BY <1>4 DEF Updated
<1> QED BY <1>1, <1>5 DEF Exact

(* Only Update answers for Update. *)
LEMMA UpdateAnswers ==
  ASSUME PackageInv, Next, reply' = <<"Update", "nil">>
  PROVE  Update
<1>1. reply'[1] = "Update"
  OBVIOUS
<1>2. ~Render
  <2> SUFFICES ASSUME Render PROVE FALSE
    OBVIOUS
  <2>1. reply = <<"", "">>
    BY DEF Render, PackageInv, ReplyInv
  <2>2. reply[1] = ""
    BY <2>1
  <2>3. reply' = reply
    BY DEF Render
  <2> QED BY <1>1, <2>2, <2>3
<1>3. ASSUME NEW call, NEW result, Answer(call, result) PROVE call = "Update"
  BY <1>1, <1>3 DEF Answer
<1> QED BY <1>2, <1>3 DEF Next, SelectAll, Literal, Insert, InsertRow, InsertFails, SelectCols, Assign, Delete, OtherInsert

(* An Update that returns nil has given the rows with the model's primary key the
   model's values in the columns the program may write, and nothing else, for
   every table and dialect (BuildData and renderUpdate). *)
THEOREM UpdateTouchesTheKey == Spec => UpdateIsExact
<1>1. PackageInv /\ [Next]_vars =>
        [reply' = <<"Update", "nil">> =>
           db' = [id \in Rows |->
                [i \in Columns |->
                   IF /\ SameKey(db[id], KeyPositions) /\ i \notin KeyPositions
                      /\ IsWritableColumn(table.columns[i])
                   THEN row.vals[i] ELSE db[id][i]]]]_vars
  BY UpdateAnswers, UpdateStep
<1> QED BY <1>1, PackageSafe, PTL DEF Spec, UpdateIsExact

-----------------------------------------------------------------------------
(* Insert (model.go.tpl). *)

(* Columns are known by their position. *)
LEMMA ColumnsCounted ==
  ASSUME PackageInv
  PROVE  Columns \subseteq Nat
<1>1. PICK input_ \in Inputs : table.columns = input_.table.columns
  BY DEF PackageInv, InputInv
<1>2. table.columns \in Seq(Range(table.columns))
  BY <1>1, GeneratedPackageAssumption
<1> QED BY <1>2 DEF Columns

(* Only identities are read after an INSERT. *)
LEMMA ReturnedIdentities ==
  ASSUME PackageInv, InUse
  PROVE  Returned \subseteq data.identity
<1>1. data.identity \in SUBSET Nat
  <2>1. data.identity = {i \in Columns : IsIdentity(i)}
    BY DataFields DEF PackageInv, InUse
  <2> QED BY <2>1, ColumnsCounted
<1>2. CASE data.identity = {}
  BY <1>2 DEF Returned
<1>3. CASE data.identity # {}
  <2>1. Min(data.identity) \in data.identity
    BY <1>1, <1>3, MinNatural
  <2> QED BY <2>1 DEF Returned
<1> QED BY <1>2, <1>3

(* Every identity is read: PostgreSQL returns all of them, and in the dialects
   that tell one there is at most one. *)
LEMMA EveryIdentityReturned ==
  ASSUME PackageInv, InUse, NEW i \in Columns, IsIdentity(i)
  PROVE  i \in Returned
<1>1. i \in data.identity /\ data.identity = {j \in Columns : IsIdentity(j)}
  <2>1. data.identity = {j \in Columns : IsIdentity(j)}
    BY DataFields DEF PackageInv, InUse
  <2> QED BY <2>1
<1>2. CASE dialect = "postgres"
  BY <1>1, <1>2 DEF Returned, Options, Config
<1>3. CASE dialect # "postgres"
  <2>1. ASSUME NEW j \in data.identity, j # i PROVE FALSE
    BY <1>1, <1>3, <2>1, GeneratedPackageAssumption DEF PackageInv, InputInv, Columns, IsIdentity
  <2>2. Returned \subseteq data.identity /\ Returned # {}
    BY <1>1, ReturnedIdentities DEF Returned
  <2> QED BY <2>1, <2>2
<1> QED BY <1>2, <1>3

(* The signed answer of LastInsertId is turned back into the identity that was
   generated, where the sign bit can be set (UnsignedLastInsertID). *)
LEMMA ToldIsGenerated ==
  ASSUME PackageInv, InUse, data.base, NEW i \in Returned, NEW v \in Values(i)
  PROVE  Told(v) = v
<1>1. /\ i \in data.identity /\ data.identity = {j \in Columns : IsIdentity(j)}
      /\ data.needs = Needs(BuildData(table), Options)
      /\ data.base = (table.type = "BASE TABLE") /\ i \in Columns /\ i \in Nat
  <2>1. /\ data.identity = {j \in Columns : IsIdentity(j)}
        /\ data.needs = Needs(BuildData(table), Options)
        /\ data.base = (table.type = "BASE TABLE")
    BY DataFields DEF PackageInv, InUse
  <2> QED BY <2>1, ReturnedIdentities, ColumnsCounted
<1>2. CASE Options.insert # "last-insert-id"
  BY <1>2 DEF Told
<1>3. CASE Options.insert = "last-insert-id"
  <2>1. v \in Nat /\ v < 2 * Half /\ (v < Half \/ (dialect = "mysql" /\ table.columns[i].dataType = "unsignedbigint"))
    BY <1>1, NullIsNoValue
  <2>2. CASE v < Half
    BY <1>3, <2>1, <2>2, GeneratedPackageAssumption DEF Told, LastInsertId
  <2>3. CASE ~(v < Half)
    <3>1. dialect = "mysql" /\ table.columns[i].dataType = "unsignedbigint"
      BY <2>1, <2>3
    <3>2. data.identity = {i}
      <4>1. ASSUME NEW j \in data.identity, j # i PROVE FALSE
        BY <1>1, <3>1, <4>1, GeneratedPackageAssumption DEF PackageInv, InputInv, Columns, IsIdentity
      <4> QED BY <1>1, <4>1
    <3>3. Min({i}) = i
      <4>1. i \in Nat
        BY <1>1
      <4> QED BY <4>1, MinNatural
    <3>4. BuildData(table).identity = data.identity /\ BuildData(table).base /\ BuildData(table).columns[i].dataType = "unsignedbigint"
      BY <1>1, <3>1 DEF BuildData, Columns, IsIdentity
    <3>5. Options.unsignedLastInsertID /\ Options.insert = "last-insert-id"
      BY <3>1 DEF Options, Config
    <3>6. UnsignedLastInsertID(BuildData(table), Options)
      BY <3>2, <3>3, <3>4, <3>5 DEF UnsignedLastInsertID
    <3>7. data.needs.unsigned
      <4>1. Needs(BuildData(table), Options).unsigned
        BY <3>6, NeedsFlags
      <4>2. data.needs = Needs(BuildData(table), Options)
        BY <1>1
      <4> QED BY <4>1, <4>2
    <3> QED BY <1>3, <2>1, <2>3, <3>7, GeneratedPackageAssumption DEF Told, LastInsertId
  <2> QED BY <2>2, <2>3
<1> QED BY <1>2, <1>3

(* An Insert that reports success has read every identity, and one that reports
   a conversion met a value its field cannot hold. *)
LEMMA InsertStep ==
  ASSUME PackageInv, Insert, NEW id \in DOMAIN db' \ Rows
  PROVE  /\ reply' = <<"Insert", "nil">> =>
              /\ \A other \in Rows : db'[other] = db[other]
              /\ \A i \in Columns :
                   IsIdentity(i) \/ IsWritableColumn(table.columns[i]) => db'[id][i] = row'.vals[i]
         /\ reply' = <<"Insert", "convert">> =>
              \E i \in Columns : IsIdentity(i) /\ ~Fits(i, db'[id][i])
<1> SUFFICES ASSUME reply' = <<"Insert", "nil">> \/ reply' = <<"Insert", "convert">>
             PROVE  /\ reply' = <<"Insert", "nil">> =>
                         /\ \A other \in Rows : db'[other] = db[other]
                         /\ \A i \in Columns :
                              IsIdentity(i) \/ IsWritableColumn(table.columns[i]) => db'[id][i] = row'.vals[i]
                    /\ reply' = <<"Insert", "convert">> =>
                         \E i \in Columns : IsIdentity(i) /\ ~Fits(i, db'[id][i])
  OBVIOUS
<1>1. PICK cells \in NewRows : InsertRow(cells)
  BY DEF Insert, InsertFails, Answer
<1> DEFINE unread == {i \in Returned : ~Fits(i, Told(cells[i]))}
           told   == {i \in Returned : \A j \in unread : i < j}
<1>2. /\ InUse /\ data.base /\ Insertable(cells) /\ db' = Inserted(cells)
      /\ row'.vals = [i \in Columns |-> IF i \in told THEN Told(cells[i]) ELSE row.vals[i]]
      /\ reply' = <<"Insert", IF unread = {} THEN "nil" ELSE "convert">>
  BY <1>1 DEF Insert, InsertRow, Answer
<1>3. cells \in AllRows /\ \A i \in data.write : i \in Columns => cells[i] = row.vals[i]
  BY <1>1 DEF NewRows
<1>4. \A i \in Columns : cells[i] \in Values(i)
  BY <1>3 DEF AllRows
<1>5. db'[id] = cells /\ \A other \in Rows : db'[other] = db[other]
  <2>1. PICK new \in (1..MaxRows) \ Rows :
             db' = [k \in Rows \cup {new} |-> IF k = new THEN cells ELSE db[k]]
    BY <1>2, InsertedRows DEF PackageInv
  <2> QED BY <2>1
<1>6. /\ data.write = {i \in Columns : IsWritableColumn(table.columns[i])}
      /\ data.identity = {i \in Columns : IsIdentity(i)}
  BY <1>2, DataFields DEF PackageInv, InUse
<1>7. Returned \subseteq data.identity
  BY <1>2, ReturnedIdentities
<1>8. \A i \in Returned : Told(cells[i]) = cells[i]
  BY <1>2, <1>4, <1>6, <1>7, ToldIsGenerated
<1>9. CASE unread = {}
  <2>1. told = Returned /\ reply' = <<"Insert", "nil">>
    BY <1>2, <1>9
  <2>2. ASSUME NEW i \in Columns, IsIdentity(i) \/ IsWritableColumn(table.columns[i])
        PROVE  cells[i] = row'.vals[i]
    <3>1. CASE IsIdentity(i)
      <4>1. i \in Returned
        BY <1>2, <1>6, <3>1, EveryIdentityReturned
      <4> QED BY <4>1, <2>1, <1>2, <1>8
    <3>2. CASE ~IsIdentity(i)
      <4>1. i \in data.write /\ i \notin Returned
        BY <1>6, <1>7, <2>2, <3>2
      <4> QED BY <4>1, <1>2, <1>3
    <3> QED BY <3>1, <3>2
  <2> QED BY <2>1, <2>2, <1>5
<1>10. CASE unread # {}
  <2>1. reply' = <<"Insert", "convert">>
    BY <1>2, <1>10
  <2>2. PICK i \in Returned : ~Fits(i, Told(cells[i]))
    BY <1>10
  <2>3. i \in Columns /\ IsIdentity(i) /\ ~Fits(i, cells[i])
    BY <2>2, <1>6, <1>7, <1>8
  <2> QED BY <2>1, <2>3, <1>5
<1> QED BY <1>9, <1>10

(* Only Insert answers for Insert. *)
LEMMA InsertAnswers ==
  ASSUME PackageInv, Next, reply' = <<"Insert", "nil">> \/ reply' = <<"Insert", "convert">>
  PROVE  Insert
<1>1. reply'[1] = "Insert"
  OBVIOUS
<1>2. ~Render
  <2> SUFFICES ASSUME Render PROVE FALSE
    OBVIOUS
  <2>1. reply = <<"", "">>
    BY DEF Render, PackageInv, ReplyInv
  <2>2. reply[1] = ""
    BY <2>1
  <2>3. reply' = reply
    BY DEF Render
  <2> QED BY <1>1, <2>2, <2>3
<1>3. ASSUME NEW call, NEW result, Answer(call, result) PROVE call = "Insert"
  BY <1>1, <1>3 DEF Answer
<1> QED BY <1>2, <1>3 DEF Next, SelectAll, Literal, Update, SelectCols, Assign, Delete, OtherInsert

(* An Insert that returns nil has added one row with the model's values and left
   the identity in the model, however large it is; it reports an identity as
   unreadable only when the field cannot hold it. *)
THEOREM IdentityReachesTheModel == Spec => IdentityIsRead
<1>1. PackageInv /\ [Next]_vars =>
       [\A id \in DOMAIN db' \ Rows :
       /\ reply' = <<"Insert", "nil">> =>
            /\ \A other \in Rows : db'[other] = db[other]
            /\ \A i \in Columns :
                 IsIdentity(i) \/ IsWritableColumn(table.columns[i]) => db'[id][i] = row'.vals[i]
       /\ reply' = <<"Insert", "convert">> =>
            \E i \in Columns : IsIdentity(i) /\ ~Fits(i, db'[id][i])]_vars
  <2> SUFFICES ASSUME PackageInv, Next, NEW id \in DOMAIN db' \ Rows
               PROVE  /\ reply' = <<"Insert", "nil">> =>
                          /\ \A other \in Rows : db'[other] = db[other]
                          /\ \A i \in Columns :
                               IsIdentity(i) \/ IsWritableColumn(table.columns[i]) => db'[id][i] = row'.vals[i]
                      /\ reply' = <<"Insert", "convert">> =>
                          \E i \in Columns : IsIdentity(i) /\ ~Fits(i, db'[id][i])
    OBVIOUS
  <2> QED BY InsertAnswers, InsertStep
<1> QED BY <1>1, PackageSafe, PTL DEF Spec, IdentityIsRead

-----------------------------------------------------------------------------
(* Identifiers and imports (configureRuntime). *)

(* A free identifier is found: of one more candidates than there are identifiers
   taken, one is not taken. *)
LEMMA FreeIsFree ==
  ASSUME NEW base, NEW taken, IsFiniteSet(taken)
  PROVE  Free(base, taken) \notin taken
<1> DEFINE n == Cardinality(taken)
           S == {k \in 0..n : <<base, k>> \notin taken}
           f == [k \in 0..n |-> <<base, k>>]
<1>1. n \in Nat
  BY FS_CardinalityType
<1>2. S # {}
  <2> SUFFICES ASSUME \A k \in 0..n : <<base, k>> \in taken PROVE FALSE
    OBVIOUS
  <2>1. f \in Injection(0..n, taken)
    <3>1. f \in [0..n -> taken]
      OBVIOUS
    <3>2. \A j, k \in 0..n : <<base, j>> = <<base, k>> => j = k
      OBVIOUS
    <3> QED BY <3>1, <3>2 DEF Injection, IsInjective
  <2>2. IsFiniteSet(0..n) /\ Cardinality(0..n) = n + 1
    <3>1. 0 \in Int /\ n \in Int /\ ~(0 > n) /\ n - 0 + 1 = n + 1
      BY <1>1
    <3> HIDE DEF n
    <3>2. IsFiniteSet(0..n) /\ Cardinality(0..n) = IF 0 > n THEN 0 ELSE n - 0 + 1
      BY <3>1, FS_Interval
    <3> QED BY <3>1, <3>2
  <2>3. Cardinality(0..n) <= n
    <3> HIDE DEF f
    <3> QED BY <2>1, <2>2, FS_Injection
  <2> HIDE DEF n
  <2> QED BY <1>1, <2>2, <2>3
<1>3. S \in SUBSET Nat
  BY <1>1
<1>4. Min(S) \in S
  <2> HIDE DEF S
  <2> QED BY <1>2, <1>3, MinNatural
<1> QED BY <1>4 DEF Free

Sql == <<"sql", 0>>

(* Whatever has a name is among the identifiers used. *)
UsedOK(s, goName) ==
  /\ IsFiniteSet(s.used)
  /\ goName \in s.used /\ Sql \in s.used
  /\ \A r \in DOMAIN s.names : s.names[r] \in s.used
  /\ \A p \in DOMAIN s.imports : s.imports[p] \in s.used

(* Imports differ in their names, which are those the types' packages are
   written with. *)
ImportsOK(s, goName, types) ==
  /\ \A p, q \in DOMAIN s.imports : s.imports[p] = s.imports[q] => p = q
  /\ \A p \in DOMAIN s.imports : s.imports[p] # goName /\ (p # "database/sql" => s.imports[p] # Sql)
  /\ \A t \in types : t.path \in DOMAIN s.imports /\ s.imports[t.path] = t.qualifier

(* A package's name is that of its import, all other names are new, and the flag
   of a partial row hides no field. *)
NamesOK(s, goName, packages, fields) ==
  /\ \A r \in DOMAIN s.names : s.names[r] # goName /\ s.names[r] # Sql
  /\ \A r \in DOMAIN s.names \cap DOMAIN Path :
       r \in packages /\ Path[r] \in DOMAIN s.imports /\ s.names[r] = s.imports[Path[r]]
  /\ \A r \in DOMAIN s.names \ DOMAIN Path : \A p \in DOMAIN s.imports : s.names[r] # s.imports[p]
  /\ \A r, q \in DOMAIN s.names \ DOMAIN Path : s.names[r] = s.names[q] => r = q
  /\ "partial" \in DOMAIN s.names => s.names["partial"] \notin fields

NamingOK(s, goName, types, packages, fields) ==
  /\ s = [names |-> s.names, imports |-> s.imports, used |-> s.used]
  /\ UsedOK(s, goName)
  /\ ImportsOK(s, goName, types)
  /\ NamesOK(s, goName, packages, fields)

(* Facts about the packages the generator may import. *)
LEMMA Paths ==
  /\ DOMAIN Path = {"driver", "strconv", "errors", "fmt", "time", "strings", "mssql"}
  /\ \A p \in DOMAIN Path : Path[p] # "database/sql"
  /\ \A p, q \in DOMAIN Path : Path[p] = Path[q] => p = q
  /\ "partial" \notin DOMAIN Path
BY DEF Path

(* A new name for what is not a package (Allocate) keeps NamingOK. *)
LEMMA AllocateStep ==
  ASSUME NEW s, NEW goName, NEW types, NEW packages, NEW fields, NEW role, NEW base, NEW avoid,
         NamingOK(s, goName, types, packages, fields), IsFiniteSet(avoid),
         role \notin DOMAIN Path, role = "partial" => avoid = fields
  PROVE  LET t == Allocate(s, role, base, avoid) IN
         /\ NamingOK(t, goName, types, packages, fields)
         /\ DOMAIN t.names = DOMAIN s.names \cup {role}
<1> DEFINE name == Free(base, s.used \cup avoid)
           t == Allocate(s, role, base, avoid)
<1>1. name \notin s.used /\ name \notin avoid
  <2>1. IsFiniteSet(s.used \cup avoid)
    BY FS_Union DEF NamingOK, UsedOK
  <2> QED BY <2>1, FreeIsFree
<1> HIDE DEF name
<1>2. /\ t = [names |-> t.names, imports |-> t.imports, used |-> t.used]
      /\ t.imports = s.imports /\ t.used = s.used \cup {name}
      /\ DOMAIN t.names = DOMAIN s.names \cup {role}
      /\ t.names[role] = name
      /\ \A r \in DOMAIN s.names : r # role => t.names[r] = s.names[r]
  BY DEF Allocate, Extended, name
<1> HIDE DEF t
<1>3. UsedOK(t, goName)
  <2>1. IsFiniteSet(t.used)
    BY <1>2, FS_AddElement DEF NamingOK, UsedOK
  <2> QED BY <1>2, <2>1 DEF NamingOK, UsedOK
<1>4. ImportsOK(t, goName, types)
  BY <1>2 DEF NamingOK, ImportsOK
<1>5. NamesOK(t, goName, packages, fields)
  <2>1. \A r \in DOMAIN t.names : r = role \/ (r \in DOMAIN s.names /\ r # role /\ t.names[r] = s.names[r])
    BY <1>2
  <2>2. \A r \in DOMAIN t.names : t.names[r] # goName /\ t.names[r] # Sql
    BY <1>1, <1>2, <2>1 DEF NamingOK, UsedOK, NamesOK
  <2>3. \A r \in DOMAIN t.names \cap DOMAIN Path :
          r \in packages /\ Path[r] \in DOMAIN t.imports /\ t.names[r] = t.imports[Path[r]]
    BY <1>2, <2>1 DEF NamingOK, NamesOK
  <2>4. \A r \in DOMAIN t.names \ DOMAIN Path : \A p \in DOMAIN t.imports : t.names[r] # t.imports[p]
    BY <1>1, <1>2, <2>1 DEF NamingOK, UsedOK, NamesOK
  <2>5. \A r, q \in DOMAIN t.names \ DOMAIN Path : t.names[r] = t.names[q] => r = q
    BY <1>1, <1>2, <2>1 DEF NamingOK, UsedOK, NamesOK
  <2>6. "partial" \in DOMAIN t.names => t.names["partial"] \notin fields
    BY <1>1, <1>2, <2>1 DEF NamingOK, NamesOK
  <2> QED BY <2>2, <2>3, <2>4, <2>5, <2>6 DEF NamesOK
<1> QED BY <1>2, <1>3, <1>4, <1>5 DEF NamingOK, t

(* So does a package: it gets the name its path is imported with already for a
   column's type, or a new one (addImport). *)
LEMMA ImportStep ==
  ASSUME NEW s, NEW goName, NEW types, NEW packages, NEW fields, NEW role \in DOMAIN Path, NEW base,
         NamingOK(s, goName, types, packages, fields), role \in packages
  PROVE  LET t == addImport(s, role, base, Path[role]) IN
         /\ NamingOK(t, goName, types, packages, fields)
         /\ DOMAIN t.names = DOMAIN s.names \cup {role}
<1> DEFINE path == Path[role]
           t == addImport(s, role, base, path)
           name == Free(base, s.used \cup {})
<1>0. path # "database/sql" /\ \A r \in DOMAIN Path : Path[r] = path => r = role
  BY Paths
<1> HIDE DEF path
<1>1. CASE path \in DOMAIN s.imports
  <2>1. /\ t = [names |-> t.names, imports |-> t.imports, used |-> t.used]
        /\ t.imports = s.imports /\ t.used = s.used
        /\ DOMAIN t.names = DOMAIN s.names \cup {role}
        /\ t.names[role] = s.imports[path]
        /\ \A r \in DOMAIN s.names : r # role => t.names[r] = s.names[r]
    BY <1>1 DEF addImport, Extended, NamingOK
  <2> HIDE DEF t
  <2>2. \A r \in DOMAIN t.names : r = role \/ (r \in DOMAIN s.names /\ r # role /\ t.names[r] = s.names[r])
    BY <2>1
  <2>3. UsedOK(t, goName)
    BY <1>1, <2>1, <2>2 DEF NamingOK, UsedOK
  <2>4. ImportsOK(t, goName, types)
    BY <2>1 DEF NamingOK, ImportsOK
  <2>5. NamesOK(t, goName, packages, fields)
    <3>1. \A r \in DOMAIN t.names : t.names[r] # goName /\ t.names[r] # Sql
      BY <1>0, <1>1, <2>1, <2>2 DEF NamingOK, ImportsOK, NamesOK
    <3>2. \A r \in DOMAIN t.names \cap DOMAIN Path :
            r \in packages /\ Path[r] \in DOMAIN t.imports /\ t.names[r] = t.imports[Path[r]]
      BY <1>1, <2>1, <2>2 DEF NamingOK, NamesOK, path
    <3>3. \A r \in DOMAIN t.names \ DOMAIN Path : r \in DOMAIN s.names \ DOMAIN Path /\ t.names[r] = s.names[r]
      BY <2>2
    <3>4. "partial" \in DOMAIN t.names => t.names["partial"] \notin fields
      BY <3>3, Paths DEF NamingOK, NamesOK
    <3> QED BY <2>1, <3>1, <3>2, <3>3, <3>4 DEF NamingOK, NamesOK
  <2> QED BY <2>1, <2>3, <2>4, <2>5 DEF NamingOK, t, path
<1>2. CASE path \notin DOMAIN s.imports
  <2>0. name \notin s.used
    <3>1. IsFiniteSet(s.used \cup {})
      BY DEF NamingOK, UsedOK
    <3> QED BY <3>1, FreeIsFree
  <2> HIDE DEF name
  <2>1. /\ t = [names |-> t.names, imports |-> t.imports, used |-> t.used]
        /\ t.used = s.used \cup {name}
        /\ DOMAIN t.names = DOMAIN s.names \cup {role}
        /\ t.names[role] = name
        /\ \A r \in DOMAIN s.names : r # role => t.names[r] = s.names[r]
        /\ DOMAIN t.imports = DOMAIN s.imports \cup {path}
        /\ t.imports[path] = name
        /\ \A p \in DOMAIN s.imports : t.imports[p] = s.imports[p]
    BY <1>2 DEF addImport, Allocate, Extended, NamingOK, name
  <2> HIDE DEF t
  <2>2. \A r \in DOMAIN t.names : r = role \/ (r \in DOMAIN s.names /\ r # role /\ t.names[r] = s.names[r])
    BY <2>1
  <2>3. \A p \in DOMAIN t.imports : p = path \/ (p \in DOMAIN s.imports /\ p # path /\ t.imports[p] = s.imports[p])
    BY <1>2, <2>1
  <2>4. UsedOK(t, goName)
    <3>1. IsFiniteSet(t.used)
      BY <2>1, FS_AddElement DEF NamingOK, UsedOK
    <3> QED BY <2>1, <2>2, <2>3, <3>1 DEF NamingOK, UsedOK
  <2>5. ImportsOK(t, goName, types)
    <3>1. \A p, q \in DOMAIN t.imports : t.imports[p] = t.imports[q] => p = q
      BY <2>0, <2>1, <2>3 DEF NamingOK, UsedOK, ImportsOK
    <3>2. \A p \in DOMAIN t.imports : t.imports[p] # goName /\ (p # "database/sql" => t.imports[p] # Sql)
      BY <2>0, <2>1, <2>3 DEF NamingOK, UsedOK, ImportsOK
    <3>3. \A u \in types : u.path \in DOMAIN t.imports /\ t.imports[u.path] = u.qualifier
      BY <2>1 DEF NamingOK, ImportsOK
    <3> QED BY <3>1, <3>2, <3>3 DEF ImportsOK
  <2>6. NamesOK(t, goName, packages, fields)
    <3>1. \A r \in DOMAIN t.names : t.names[r] # goName /\ t.names[r] # Sql
      BY <2>0, <2>1, <2>2 DEF NamingOK, UsedOK, NamesOK
    <3>2. \A r \in DOMAIN t.names \cap DOMAIN Path :
            r \in packages /\ Path[r] \in DOMAIN t.imports /\ t.names[r] = t.imports[Path[r]]
      BY <2>1, <2>2 DEF NamingOK, NamesOK, path
    <3>3. \A r \in DOMAIN t.names \ DOMAIN Path : r \in DOMAIN s.names \ DOMAIN Path /\ t.names[r] = s.names[r] /\ s.names[r] # name
      BY <2>0, <2>2 DEF NamingOK, UsedOK
    <3>4. "partial" \in DOMAIN t.names => t.names["partial"] \notin fields
      BY <3>3, Paths DEF NamingOK, NamesOK
    <3>5. \A r \in DOMAIN t.names \ DOMAIN Path : \A p \in DOMAIN t.imports : t.names[r] # t.imports[p]
      BY <2>1, <2>3, <3>3 DEF NamingOK, NamesOK
    <3> QED BY <3>1, <3>2, <3>3, <3>4, <3>5 DEF NamingOK, NamesOK
  <2> QED BY <2>1, <2>4, <2>5, <2>6 DEF NamingOK, t, path
<1> QED BY <1>1, <1>2

(* One step of the allocation. *)
LEMMA NamedStep ==
  ASSUME NEW s, NEW goName, NEW types, NEW packages, NEW fields, NEW role,
         NamingOK(s, goName, types, packages, fields), IsFiniteSet(fields)
  PROVE  LET t == Named(s, role, packages, fields) IN
         /\ NamingOK(t, goName, types, packages, fields)
         /\ DOMAIN s.names \subseteq DOMAIN t.names
         /\ role \in packages \cup {"partial"} => role \in DOMAIN t.names
<1> DEFINE base == IF role \in DOMAIN Base THEN Base[role] ELSE role
           avoid == IF role = "partial" THEN fields ELSE {}
<1>1. CASE role \notin DOMAIN Path
  <2>1. IsFiniteSet(avoid)
    BY FS_EmptySet
  <2>2. Named(s, role, packages, fields) = Allocate(s, role, base, avoid)
    BY <1>1 DEF Named
  <2> HIDE DEF base
  <2> QED BY <1>1, <2>1, <2>2, AllocateStep
<1>2. CASE role \in DOMAIN Path /\ role \in packages
  <2>1. Named(s, role, packages, fields) = addImport(s, role, base, Path[role])
    BY <1>2 DEF Named
  <2> HIDE DEF base
  <2> QED BY <1>2, <2>1, ImportStep
<1>3. CASE role \in DOMAIN Path /\ role \notin packages
  BY <1>3, Paths DEF Named
<1> QED BY <1>1, <1>2, <1>3

(* The states of the allocation, one after every role. *)
NamedUpto(start, packages, fields) ==
  LET named[k \in 0..Len(Roles)] ==
        IF k = 0 THEN start ELSE Named(named[k - 1], Roles[k], packages, fields)
  IN named

(* Every package and the flag of partial rows are among the roles. *)
LEMMA RolesCounted ==
  /\ Len(Roles) \in Nat
  /\ \A p \in DOMAIN Path \cup {"partial"} : \E k \in 1..Len(Roles) : Roles[k] = p
<1>1. ASSUME NEW n \in Nat, NEW X, NEW s \in [1..n -> X]
      PROVE  s \in Seq(X)
  OBVIOUS
<1>2. Len(Declared) = 12 /\ Declared = [i \in 1..12 |-> Declared[i]]
  BY DEF Declared
<1>3. Len(Locals) = 29 /\ Locals = [i \in 1..29 |-> Locals[i]]
  BY DEF Locals
<1> DEFINE X == {Declared[i] : i \in 1..12} \cup {Locals[i] : i \in 1..29}
<1>4. Declared \in Seq(X) /\ Locals \in Seq(X)
  <2>1. Declared \in [1..12 -> X] /\ Locals \in [1..29 -> X]
    BY <1>2, <1>3
  <2>2. 12 \in Nat /\ 29 \in Nat
    OBVIOUS
  <2> HIDE DEF X
  <2> QED BY <1>1, <2>1, <2>2
<1>5. Len(Roles) = 41 /\ \A k \in 1..12 : Roles[k] = Declared[k]
  <2> HIDE DEF X
  <2>1. Len(Declared) \in Nat /\ Len(Locals) \in Nat
    BY <1>2, <1>3
  <2>2. /\ Len(Declared \o Locals) = Len(Declared) + Len(Locals)
        /\ \A k \in 1 .. Len(Declared) + Len(Locals) : (Declared \o Locals)[k] =
             IF k <= Len(Declared) THEN Declared[k] ELSE Locals[k - Len(Declared)]
    BY <1>4, ConcatProperties
  <2> QED BY <1>2, <1>3, <2>2 DEF Roles
<1>6. /\ Declared[1] = "driver" /\ Declared[2] = "strconv" /\ Declared[3] = "errors" /\ Declared[4] = "fmt"
      /\ Declared[5] = "time" /\ Declared[6] = "strings" /\ Declared[7] = "mssql" /\ Declared[12] = "partial"
  BY DEF Declared
<1>7. ASSUME NEW p \in DOMAIN Path \cup {"partial"} PROVE \E k \in 1..12 : Declared[k] = p
  BY <1>6, Paths
<1> QED BY <1>5, <1>7

(* The states of the allocation follow from one another: there is a function that
   satisfies the recursion, by induction over the roles. *)
LEMMA NamedRecursion ==
  ASSUME NEW start, NEW packages, NEW fields
  PROVE  LET F == NamedUpto(start, packages, fields) IN
         /\ F[0] = start
         /\ \A k \in 1..Len(Roles) : F[k] = Named(F[k - 1], Roles[k], packages, fields)
         /\ AllNamed(start, packages, fields) = F[Len(Roles)]
<1> DEFINE n == Len(Roles)
           Next_(k, x) == Named(x, Roles[k], packages, fields)
           Upto(f, m) == /\ f = [k \in 0..m |-> f[k]]
                         /\ f[0] = start
                         /\ \A k \in 1..m : f[k] = Next_(k, f[k - 1])
           S == {m \in 0..n : \E f : Upto(f, m)}
           F == NamedUpto(start, packages, fields)
<1>1. n \in Nat
  BY RolesCounted
<1> HIDE DEF Next_, n
<1>2. 0 \in S
  <2>1. Upto([k \in 0..0 |-> start], 0)
    OBVIOUS
  <2> HIDE DEF Upto
  <2> QED BY <1>1, <2>1
<1>3. ASSUME NEW l \in 1..n, l - 1 \in S PROVE l \in S
  <2>1. PICK f : Upto(f, l - 1)
    BY <1>3
  <2> DEFINE g == [k \in 0..l |-> IF k = l THEN Next_(l, f[l - 1]) ELSE f[k]]
  <2>2. l \in Nat /\ l > 0 /\ l \in 0..n
    BY <1>1
  <2>3. g = [k \in 0..l |-> g[k]] /\ g[0] = start
    BY <2>1, <2>2
  <2>4. ASSUME NEW k \in 1..l PROVE g[k] = Next_(k, g[k - 1])
    <3>1. g[k - 1] = f[k - 1]
      BY <2>2
    <3>2. CASE k = l
      <4>1. g[k] = Next_(l, f[l - 1])
        BY <2>2, <3>2
      <4> QED BY <3>1, <3>2, <4>1
    <3>3. CASE k # l
      <4>1. k \in 1..(l - 1) /\ g[k] = f[k]
        BY <2>2, <3>3
      <4> QED BY <2>1, <3>1, <4>1
    <3> QED BY <3>2, <3>3
  <2>5. Upto(g, l)
    <3> HIDE DEF g
    <3> QED BY <2>3, <2>4
  <2> HIDE DEF g, Upto
  <2> QED BY <2>2, <2>5
<1>4. n \in S
  <2> HIDE DEF S
  <2>1. 0..n \subseteq S
    BY <1>1, <1>2, <1>3, BoundedInduction
  <2> QED BY <1>1, <2>1
<1>5. PICK f : Upto(f, n)
  BY <1>4
<1>6. \E f_ : f_ = [k \in 0..n |-> IF k = 0 THEN start ELSE Next_(k, f_[k - 1])]
  <2>1. \A k \in 0..n : f[k] = IF k = 0 THEN start ELSE Next_(k, f[k - 1])
    <3> TAKE k \in 0..n
    <3>1. CASE k = 0
      BY <1>5, <3>1
    <3>2. CASE k # 0
      <4>1. k \in 1..n
        BY <1>1, <3>2
      <4> QED BY <1>5, <3>2, <4>1
    <3> QED BY <3>1, <3>2
  <2>2. f = [k \in 0..n |-> IF k = 0 THEN start ELSE Next_(k, f[k - 1])]
    <3>1. f = [k \in 0..n |-> f[k]]
      BY <1>5
    <3> HIDE DEF Upto
    <3> QED BY <2>1, <3>1
  <2> QED BY <2>2
<1>7. F = [k \in 0..n |-> IF k = 0 THEN start ELSE Next_(k, F[k - 1])]
  BY <1>6 DEF NamedUpto, n, Next_
<1>8. F[0] = start /\ \A k \in 1..n : F[k] = Next_(k, F[k - 1])
  <2> HIDE DEF F
  <2> QED BY <1>1, <1>7
<1>9. AllNamed(start, packages, fields) = F[n]
  BY DEF AllNamed, NamedUpto, n
<1> QED BY <1>8, <1>9 DEF n, Next_

(* After the last role NamingOK holds, and the packages needed and the flag have
   a name. *)
LEMMA AllNamedOK ==
  ASSUME NEW start, NEW goName, NEW types, NEW packages \in SUBSET DOMAIN Path, NEW fields,
         NamingOK(start, goName, types, packages, fields), IsFiniteSet(fields)
  PROVE  LET t == AllNamed(start, packages, fields) IN
         /\ NamingOK(t, goName, types, packages, fields)
         /\ packages \cup {"partial"} \subseteq DOMAIN t.names
<1> DEFINE F == NamedUpto(start, packages, fields)
           n == Len(Roles)
           Good(k) == /\ NamingOK(F[k], goName, types, packages, fields)
                      /\ \A j \in 1..k : Roles[j] \in packages \cup {"partial"} => Roles[j] \in DOMAIN F[k].names
           S == {k \in 0..n : Good(k)}
<1>1. n \in Nat /\ \A p \in DOMAIN Path \cup {"partial"} : \E k \in 1..n : Roles[k] = p
  BY RolesCounted
<1>2. /\ F[0] = start
      /\ \A k \in 1..n : F[k] = Named(F[k - 1], Roles[k], packages, fields)
      /\ AllNamed(start, packages, fields) = F[n]
  BY NamedRecursion
<1> HIDE DEF F, n
<1>3. 0 \in S
  BY <1>1, <1>2
<1>4. ASSUME NEW k \in 1..n, k - 1 \in S PROVE k \in S
  <2>1. k \in 0..n /\ k \in Nat /\ \A j \in 1..k : j = k \/ j \in 1..(k - 1)
    BY <1>1
  <2>2. Good(k - 1)
    BY <1>4
  <2>3. /\ NamingOK(F[k], goName, types, packages, fields)
        /\ DOMAIN F[k - 1].names \subseteq DOMAIN F[k].names
        /\ Roles[k] \in packages \cup {"partial"} => Roles[k] \in DOMAIN F[k].names
    BY <1>2, <2>2, NamedStep
  <2>4. Good(k)
    BY <2>1, <2>2, <2>3
  <2> HIDE DEF Good
  <2> QED BY <2>1, <2>4
<1>5. n \in S
  <2> HIDE DEF S
  <2>1. 0..n \subseteq S
    BY <1>1, <1>3, <1>4, BoundedInduction
  <2> QED BY <1>1, <2>1
<1>6. Good(n)
  BY <1>5
<1>7. ASSUME NEW p \in packages \cup {"partial"} PROVE p \in DOMAIN F[n].names
  <2>1. PICK k \in 1..n : Roles[k] = p
    BY <1>1
  <2> QED BY <1>6, <2>1
<1> QED BY <1>2, <1>6, <1>7

ResolvedTypes(t) == {ResolveType(t.columns[i]) : i \in DOMAIN t.columns}

(* The validation (manifest.ValidateForRender and internal/render/validation.go)
   leaves no two qualifiers of one path, nor one qualifier of two paths, nor the
   model's name: the allocation starts from NamingOK. *)
LEMMA TakenOK ==
  ASSUME NEW t, Validate(t), NEW n \in Nat, DOMAIN t.columns = 1..n, NEW packages, NEW fields
  PROVE  LET d == BuildData(t) IN
         NamingOK(Taken(d), t.goName, TypeImports(ResolvedTypes(t)), packages, fields)
<1> DEFINE d == BuildData(t)
           s == Taken(d)
           types == TypeImports(ResolvedTypes(t))
           sql == Import("database/sql", Sql)
<1>1. /\ \A a, b \in types \cup {sql} : (a.path = b.path) <=> (a.qualifier = b.qualifier)
      /\ \A a \in types \cup {sql} : a.qualifier # t.goName
  BY DEF Validate, ResolvedTypes, Sql
<1>2. sql.path = "database/sql" /\ sql.qualifier = Sql
  BY DEF Import
<1>3. d.goName = t.goName /\ {d.columns[i].resolved : i \in DOMAIN d.columns} = ResolvedTypes(t)
  BY DEF BuildData, ResolvedTypes
<1>4. /\ s = [names |-> s.names, imports |-> s.imports, used |-> s.used]
      /\ s.names = [role \in {} |-> <<"", 0>>]
      /\ s.imports = [path \in {i.path : i \in types} |-> Qualifier(types, path)]
      /\ s.used = {t.goName, Sql} \cup {i.qualifier : i \in types}
  <2>1. s = [names |-> [role \in {} |-> <<"", 0>>],
             imports |-> [path \in {i.path : i \in types} |-> Qualifier(types, path)],
             used |-> {t.goName, Sql} \cup {i.qualifier : i \in types}]
    BY <1>3, Zenon DEF Taken, Sql
  <2> HIDE DEF s, types
  <2> QED BY <2>1
<1>5. IsFiniteSet(types)
  <2>1. IsFiniteSet(1..n)
    <3>1. 1 \in Int /\ n \in Int
      OBVIOUS
    <3> QED BY <3>1, FS_Interval
  <2>2. IsFiniteSet(ResolvedTypes(t))
    <3> DEFINE f == [i \in 1..n |-> ResolveType(t.columns[i])]
    <3>1. ResolvedTypes(t) = {f[i] : i \in 1..n}
      BY DEF ResolvedTypes
    <3>2. f \in Surjection(1..n, ResolvedTypes(t))
      BY <3>1 DEF Surjection
    <3> HIDE DEF f
    <3> QED BY <2>1, <3>2, FS_Surjection
  <2> DEFINE R == {u \in ResolvedTypes(t) : u.path # ""}
             g == [u \in R |-> Import(u.path, u.qualifier)]
  <2>3. IsFiniteSet(R)
    BY <2>2, FS_Subset
  <2>4. g \in Surjection(R, types)
    BY DEF TypeImports, Surjection
  <2> HIDE DEF R, g, types
  <2> QED BY <2>3, <2>4, FS_Surjection
<1> HIDE DEF d, s, types, sql
<1>6. ASSUME NEW u \in types PROVE u.path \in DOMAIN s.imports /\ s.imports[u.path] = u.qualifier
  <2> DEFINE c == CHOOSE i \in types : i.path = u.path
  <2>1. c \in types /\ c.path = u.path
    OBVIOUS
  <2> HIDE DEF c
  <2>2. c.qualifier = u.qualifier
    BY <1>1, <2>1
  <2>3. Qualifier(types, u.path) = u.qualifier
    BY <2>2 DEF Qualifier, c
  <2> QED BY <1>4, <2>3
<1>7. \A p \in DOMAIN s.imports : \E u \in types : p = u.path /\ s.imports[p] = u.qualifier
  BY <1>4, <1>6
<1>8. UsedOK(s, t.goName)
  <2>1. IsFiniteSet({i.qualifier : i \in types})
    <3> DEFINE Q == {i.qualifier : i \in types}
               g == [i \in types |-> i.qualifier]
    <3>1. g \in Surjection(types, Q)
      BY DEF Surjection
    <3> HIDE DEF Q, g
    <3>2. IsFiniteSet(Q)
      BY <1>5, <3>1, FS_Surjection
    <3> QED BY <3>2 DEF Q
  <2>2. IsFiniteSet(s.used)
    <3>1. s.used = ({i.qualifier : i \in types} \cup {Sql}) \cup {t.goName}
      BY <1>4
    <3>2. IsFiniteSet({i.qualifier : i \in types} \cup {Sql})
      BY <2>1, FS_AddElement
    <3>3. IsFiniteSet(({i.qualifier : i \in types} \cup {Sql}) \cup {t.goName})
      BY <3>2, FS_AddElement
    <3> QED BY <3>1, <3>3
  <2>3. \A p \in DOMAIN s.imports : s.imports[p] \in s.used
    BY <1>4, <1>7
  <2> QED BY <1>4, <2>2, <2>3 DEF UsedOK
<1>9. ImportsOK(s, t.goName, types)
  <2>1. \A p, q \in DOMAIN s.imports : s.imports[p] = s.imports[q] => p = q
    BY <1>1, <1>7
  <2>2. \A p \in DOMAIN s.imports : s.imports[p] # t.goName /\ (p # "database/sql" => s.imports[p] # Sql)
    BY <1>1, <1>2, <1>7
  <2> QED BY <1>6, <2>1, <2>2 DEF ImportsOK
<1>10. NamesOK(s, t.goName, packages, fields)
  BY <1>4 DEF NamesOK
<1> QED BY <1>4, <1>8, <1>9, <1>10 DEF NamingOK, d, s, types

PackageNames == {"driver", "strconv", "errors", "fmt", "time", "strings", "mssql"}

(* The packages configureRuntime imports are those the template refers to. *)
LEMMA ImportsAreReferences ==
  ASSUME NEW d, NEW config,
         d.write \subseteq DOMAIN d.columns, d.key \subseteq DOMAIN d.columns
  PROVE  LET needs == Needs(d, config) IN
         /\ Packages(needs) \subseteq PackageNames
         /\ \A data_ : data_.needs = needs /\ data_.base = d.base /\ data_.key = d.key /\ data_.update = d.update
              => References(data_) = Packages(needs)
<1> DEFINE needs == Needs(d, config)
           arguments == IF d.base THEN {d.columns[i] : i \in d.write \cup d.key} ELSE {}
           Kind(i) == IF config.scanSQLServerUUID /\ d.columns[i].dataType = "uuid" THEN "uuid"
                      ELSE IF config.scanBinary /\ IsBinaryBytes(d.columns[i]) THEN "binary"
                      ELSE ScanKind(d.columns[i])
           kinds == {Kind(i) : i \in DOMAIN d.columns} \ {""}
<1>1. /\ needs.scans = kinds
      /\ needs.uuid <=> \E c \in arguments : IsUUIDString(c)
      /\ needs.rejectNull <=> RejectNullUpdateKey(d, config)
      /\ needs.lastInsertID <=> d.base /\ d.identity # {} /\ config.insert = "last-insert-id"
      /\ needs.unsigned <=> UnsignedLastInsertID(d, config)
      /\ needs.mssql <=> config.scanSQLServerUUID /\ "uuid" \in kinds
  BY DEF Needs
<1>2. needs.uuid => "uuid" \in needs.scans
  <2> SUFFICES ASSUME needs.uuid PROVE "uuid" \in kinds
    BY <1>1
  <2>1. PICK i \in DOMAIN d.columns : IsUUIDString(d.columns[i])
    BY <1>1
  <2>2. Kind(i) = "uuid"
    BY <2>1 DEF IsUUIDString, IsBinaryBytes, ScanKind
  <2> QED BY <2>2
<1> HIDE DEF needs, arguments, kinds
<1>3. Packages(needs) \subseteq PackageNames
  BY DEF Packages, PackageNames
<1>4. ASSUME NEW data_, data_.needs = needs, data_.base = d.base, data_.key = d.key, data_.update = d.update
      PROVE  References(data_) = Packages(needs)
  <2>1. needs.unsigned => needs.lastInsertID
    BY <1>1 DEF UnsignedLastInsertID
  <2>2. needs.rejectNull => d.base /\ d.key # {} /\ d.update # {}
    BY <1>1 DEF RejectNullUpdateKey
  <2>3. needs.mssql => "uuid" \in needs.scans
    BY <1>1
  <2> QED BY <1>2, <1>4, <2>1, <2>2, <2>3 DEF References, Packages
<1> QED BY <1>3, <1>4 DEF needs

(* A rendered package has identifiers and imports that satisfy NamingOK, with
   names for the packages its code refers to. *)
LEMMA RenderedNaming ==
  ASSUME PackageInv, phase = "rendered"
  PROVE  \E s : /\ s.names = data.names /\ s.imports = data.imports
                /\ NamingOK(s, data.goName, TypeImports({Field(i) : i \in Columns}), References(data),
                            {table.columns[i].goName : i \in Columns})
                /\ References(data) \cup {"partial"} \subseteq DOMAIN s.names
                /\ References(data) \subseteq PackageNames
<1> DEFINE d == BuildData(table)
           packages == Packages(Needs(d, Options))
           fields == FieldNames(d)
           s == AllNamed(Taken(d), packages, fields)
           types == TypeImports(ResolvedTypes(table))
           n == Len(table.columns)
<1>1. n \in Nat /\ Columns = 1..n
  <2>1. PICK input_ \in Inputs : table.columns = input_.table.columns
    BY DEF PackageInv, InputInv
  <2>2. table.columns \in Seq(Range(table.columns))
    BY <2>1, GeneratedPackageAssumption
  <2> QED BY <2>2 DEF Columns
<1>2. /\ DOMAIN d.columns = Columns
      /\ \A i \in Columns : d.columns[i].goName = table.columns[i].goName
      /\ \A i \in Columns : d.columns[i].resolved = ResolveType(table.columns[i])
      /\ d.write \subseteq Columns /\ d.key \subseteq Columns
  BY DEF BuildData, Columns, primaryKeyNames
<1>3. /\ data.names = s.names /\ data.imports = s.imports /\ data.goName = table.goName
      /\ data.columns = d.columns /\ data.needs = Needs(d, Options)
      /\ data.base = d.base /\ data.key = d.key /\ data.update = d.update
  <2>1. /\ data.base = (table.type = "BASE TABLE") /\ data.key = KeyPositions
        /\ data.update = {i \in Columns : IsWritableColumn(table.columns[i])} \ KeyPositions
        /\ data.names = s.names /\ data.imports = s.imports /\ data.goName = table.goName
        /\ data.columns = d.columns /\ data.needs = Needs(d, Options)
    BY DataFields DEF PackageInv
  <2>2. /\ d.base = (table.type = "BASE TABLE") /\ d.key = KeyPositions
        /\ d.update = {i \in Columns : IsWritableColumn(table.columns[i])} \ KeyPositions
    BY DEF BuildData, KeyPositions, primaryKeyNames, Columns
  <2> QED BY <2>1, <2>2
<1>4. References(data) = packages /\ packages \subseteq PackageNames /\ PackageNames = DOMAIN Path
  <2>1. /\ Packages(Needs(d, Options)) \subseteq PackageNames
        /\ \A data_ : data_.needs = Needs(d, Options) /\ data_.base = d.base /\ data_.key = d.key
                      /\ data_.update = d.update
              => References(data_) = Packages(Needs(d, Options))
    BY <1>2, ImportsAreReferences
  <2> HIDE DEF d
  <2> QED BY <1>3, <2>1, Paths DEF PackageNames
<1>5. /\ fields = {table.columns[i].goName : i \in Columns}
      /\ types = TypeImports({Field(i) : i \in Columns})
  <2>1. fields = {table.columns[i].goName : i \in Columns}
    BY <1>2 DEF FieldNames
  <2>2. \A i \in Columns : Field(i) = ResolveType(table.columns[i])
    BY <1>2, <1>3 DEF Field
  <2>3. ResolvedTypes(table) = {Field(i) : i \in Columns}
    BY <2>2 DEF ResolvedTypes, Columns
  <2> QED BY <2>1, <2>3
<1>6. IsFiniteSet(fields)
  <2> DEFINE f == [i \in 1..n |-> table.columns[i].goName]
  <2>1. f \in Surjection(1..n, fields)
    BY <1>1, <1>5 DEF Surjection
  <2>2. IsFiniteSet(1..n)
    <3>1. 1 \in Int /\ n \in Int
      BY <1>1
    <3> HIDE DEF n
    <3> QED BY <3>1, FS_Interval
  <2> HIDE DEF f, n, fields
  <2> QED BY <2>1, <2>2, FS_Surjection
<1>7. NamingOK(Taken(d), table.goName, types, packages, fields)
  <2>1. Validate(table) /\ DOMAIN table.columns = 1..n
    BY <1>1 DEF PackageInv, DataInv, Columns
  <2> HIDE DEF n, packages, fields
  <2> QED BY <1>1, <2>1, TakenOK
<1>8. /\ NamingOK(s, table.goName, types, packages, fields)
      /\ packages \cup {"partial"} \subseteq DOMAIN s.names
  <2> HIDE DEF packages, fields, types, d
  <2> QED BY <1>4, <1>6, <1>7, AllNamedOK
<1> HIDE DEF s, types, packages, fields, d
<1> QED BY <1>3, <1>4, <1>5, <1>8

(* No identifier or import of a rendered package collides with another, with the
   model, with its fields or with database/sql, and the packages imported are
   those the code refers to, for all names and types that the validation accepts
   (configureRuntime and addImport). *)
THEOREM PackagesCompile == Spec => []PackageCompiles
<1>1. ASSUME PackageInv, phase = "rendered" PROVE PackageCompiles
  <2> DEFINE types == TypeImports({Field(i) : i \in Columns})
             fields == {table.columns[i].goName : i \in Columns}
  <2>1. PICK s : /\ s.names = data.names /\ s.imports = data.imports
                 /\ NamingOK(s, data.goName, types, References(data), fields)
                 /\ References(data) \cup {"partial"} \subseteq DOMAIN s.names
                 /\ References(data) \subseteq PackageNames
    BY <1>1, RenderedNaming
  <2> HIDE DEF types, fields
  <2>2. ImportsOK(s, data.goName, types) /\ NamesOK(s, data.goName, References(data), fields)
    BY <2>1 DEF NamingOK
  <2>3. \A m, n \in DOMAIN data.names : m # n => data.names[m] # data.names[n]
    <3> SUFFICES ASSUME NEW m \in DOMAIN data.names, NEW n \in DOMAIN data.names, m # n
                 PROVE  data.names[m] # data.names[n]
      OBVIOUS
    <3>1. CASE m \in DOMAIN Path /\ n \in DOMAIN Path
      BY <2>1, <2>2, <3>1, Paths DEF NamesOK, ImportsOK
    <3>2. CASE m \notin DOMAIN Path /\ n \notin DOMAIN Path
      BY <2>1, <2>2, <3>2 DEF NamesOK
    <3>3. CASE (m \in DOMAIN Path) # (n \in DOMAIN Path)
      BY <2>1, <2>2, <3>3 DEF NamesOK
    <3> QED BY <3>1, <3>2, <3>3
  <2>4. \A n \in DOMAIN data.names \ PackageNames : data.names[n] \notin Range(data.imports)
    BY <2>1, <2>2, Paths DEF NamesOK, PackageNames, Range
  <2>5. Range(data.names) \cap {data.goName, <<"sql", 0>>} = {}
    BY <2>1, <2>2 DEF NamesOK, Sql, Range
  <2>6. IsInjective(data.imports) /\ data.goName \notin Range(data.imports)
    BY <2>1, <2>2 DEF ImportsOK, IsInjective, Range
  <2>7. \A t \in types : data.imports[t.path] = t.qualifier
    BY <2>1, <2>2 DEF ImportsOK
  <2>8. data.names["partial"] \notin fields
    BY <2>1, <2>2 DEF NamesOK
  <2>9. PackageNames \cap DOMAIN data.names = References(data)
    BY <2>1, <2>2, Paths DEF NamesOK, PackageNames
  <2> QED BY <2>3, <2>4, <2>5, <2>6, <2>7, <2>8, <2>9 DEF PackageCompiles, PackageNames, types, fields
<1>2. PackageInv => PackageCompiles
  BY <1>1 DEF PackageCompiles
<1> QED BY <1>2, PackageSafe, PTL

-----------------------------------------------------------------------------
(* The name of a package. *)

(* What the names of the inputs are made of, and what is added to them. *)
Tokens ==
  {"_", "hash"} \cup UNION {Range(n) : n \in UNION {i.names \cup i.fileNames : i \in Inputs}}
Name == Seq(Tokens)

(* An element more. *)
LEMMA AppendElements ==
  ASSUME NEW v \in Name, NEW t \in Tokens
  PROVE  /\ Append(v, t) \in Name /\ Len(Append(v, t)) = Len(v) + 1
         /\ \A i \in 1..Len(v) : Append(v, t)[i] = v[i]
         /\ Append(v, t)[Len(v) + 1] = t
BY AppendProperties DEF Name

(* f is where the first dot of v is, or the end of v. *)
IsFirstDot(v, f) ==
  /\ f \in 1..(Len(v) + 1)
  /\ \A i \in 1..(f - 1) : v[i] # "."
  /\ f <= Len(v) => v[f] = "."

(* FirstDot is where the first dot is, or the end. *)
LEMMA FirstDotFound ==
  ASSUME NEW v \in Name
  PROVE  IsFirstDot(v, FirstDot(v))
<1> DEFINE S == {i \in DOMAIN v : v[i] = "."} \cup {Len(v) + 1}
<1>1. Len(v) \in Nat /\ DOMAIN v = 1..Len(v)
  BY DEF Name
<1>2. S \in SUBSET Nat /\ S # {}
  BY <1>1
<1> HIDE DEF S
<1>3. Min(S) \in S /\ \A i \in S : Min(S) <= i
  BY <1>2, MinNatural
<1> DEFINE f == FirstDot(v)
<1>4. f \in S /\ \A i \in S : f <= i
  BY <1>3 DEF FirstDot, S
<1> HIDE DEF f
<1>5. f \in 1..(Len(v) + 1) /\ (f <= Len(v) => v[f] = ".")
  BY <1>1, <1>4 DEF S
<1>6. ASSUME NEW i \in 1..(f - 1) PROVE v[i] # "."
  <2>1. i \in DOMAIN v /\ ~(f <= i)
    BY <1>1, <1>5
  <2> QED BY <1>4, <2>1 DEF S
<1> QED BY <1>5, <1>6 DEF IsFirstDot, f

(* There is one first dot. *)
LEMMA FirstDotIs ==
  ASSUME NEW v \in Name, NEW f, IsFirstDot(v, f)
  PROVE  FirstDot(v) = f
<1>1. IsFirstDot(v, FirstDot(v)) /\ Len(v) \in Nat
  BY FirstDotFound DEF Name
<1>2. f \in Nat /\ FirstDot(v) \in Nat
  BY <1>1 DEF IsFirstDot
<1>3. CASE f < FirstDot(v)
  BY <1>1, <1>2, <1>3 DEF IsFirstDot
<1>4. CASE FirstDot(v) < f
  BY <1>1, <1>2, <1>4 DEF IsFirstDot
<1> QED BY <1>2, <1>3, <1>4

(* The elements of the two parts splitFirstDot makes. *)
LEMMA StemElements ==
  ASSUME NEW v \in Name
  PROVE  /\ Stem(v) \in Name /\ Len(Stem(v)) = FirstDot(v) - 1
         /\ \A i \in 1..(FirstDot(v) - 1) : Stem(v)[i] = v[i]
         /\ Suffix(v) \in Name /\ Len(Suffix(v)) = Len(v) + 1 - FirstDot(v)
         /\ \A i \in 1..(Len(v) + 1 - FirstDot(v)) : Suffix(v)[i] = v[FirstDot(v) + i - 1]
<1> DEFINE f == FirstDot(v)
           n == Len(v)
<1>1. f \in 1..(n + 1) /\ n \in Nat
  BY FirstDotFound DEF IsFirstDot, Name
<1> HIDE DEF f
<1>2. SubSeq(v, 1, f - 1) \in Name /\ Len(SubSeq(v, 1, f - 1)) = f - 1 /\ \A i \in 1..(f - 1) : SubSeq(v, 1, f - 1)[i] = v[i]
  BY <1>1 DEF Name
<1>3. SubSeq(v, f, n) \in Name /\ Len(SubSeq(v, f, n)) = n + 1 - f /\ \A i \in 1..(n + 1 - f) : SubSeq(v, f, n)[i] = v[f + i - 1]
  BY <1>1 DEF Name
<1> QED BY <1>2, <1>3 DEF f, Stem, Suffix

(* stem + "_" + suffix has an underscore in the place of the first dot. *)
LEMMA PartedElements ==
  ASSUME NEW v \in Name
  PROVE  /\ Parted(v) \in Name /\ Len(Parted(v)) = Len(v) + 1
         /\ \A i \in 1..(FirstDot(v) - 1) : Parted(v)[i] = v[i]
         /\ Parted(v)[FirstDot(v)] = "_"
         /\ \A i \in FirstDot(v)..Len(v) : Parted(v)[i + 1] = v[i]
<1> DEFINE f == FirstDot(v)
           n == Len(v)
           a == Append(Stem(v), "_")
           b == Suffix(v)
<1>1. f \in 1..(n + 1) /\ n \in Nat
  BY FirstDotFound DEF IsFirstDot, Name
<1>2. /\ a \in Name /\ Len(a) = f /\ a[f] = "_"
      /\ \A i \in 1..(f - 1) : a[i] = v[i]
  <2> DEFINE s == Stem(v)
  <2>1. s \in Name /\ Len(s) = f - 1 /\ \A i \in 1..(f - 1) : s[i] = v[i]
    BY StemElements
  <2>2. "_" \in Tokens
    BY DEF Tokens
  <2> HIDE DEF s
  <2>3. /\ Append(s, "_") \in Name /\ Len(Append(s, "_")) = Len(s) + 1 /\ Append(s, "_")[Len(s) + 1] = "_"
        /\ \A i \in 1..Len(s) : Append(s, "_")[i] = s[i]
    BY <2>1, <2>2, AppendElements
  <2>4. Len(s) + 1 = f
    BY <1>1, <2>1
  <2> QED BY <2>1, <2>3, <2>4 DEF s
<1>3. b \in Name /\ Len(b) = n + 1 - f /\ \A i \in 1..(n + 1 - f) : b[i] = v[f + i - 1]
  BY StemElements
<1> HIDE DEF f, n, a, b
<1>4. a \in Seq(Tokens) /\ b \in Seq(Tokens)
  BY <1>2, <1>3 DEF Name
<1>5. /\ a \o b \in Seq(Tokens) /\ Len(a \o b) = Len(a) + Len(b)
      /\ \A i \in 1..(Len(a) + Len(b)) : (a \o b)[i] = IF i <= Len(a) THEN a[i] ELSE b[i - Len(a)]
  BY <1>4, ConcatProperties
<1>6. Len(a) = f /\ Len(b) = n + 1 - f
  BY <1>2, <1>3
<1>7. Len(a \o b) = n + 1
  <2>1. Len(a \o b) = Len(a) + Len(b)
    BY <1>5
  <2> QED BY <1>1, <1>6, <2>1
<1>8. ASSUME NEW i \in 1..f PROVE (a \o b)[i] = a[i]
  <2>1. i \in 1..(Len(a) + Len(b)) /\ i <= Len(a)
    BY <1>1, <1>6
  <2> QED BY <1>5, <2>1
<1>9. ASSUME NEW i \in f..n PROVE (a \o b)[i + 1] = v[i]
  <2>1. /\ i + 1 \in 1..(Len(a) + Len(b)) /\ ~(i + 1 <= Len(a))
        /\ i + 1 - Len(a) \in 1..(n + 1 - f) /\ f + (i + 1 - Len(a)) - 1 = i
    BY <1>1, <1>6
  <2>2. (a \o b)[i + 1] = b[i + 1 - Len(a)]
    BY <1>5, <2>1
  <2>3. b[i + 1 - Len(a)] = v[f + (i + 1 - Len(a)) - 1]
    BY <1>3, <2>1
  <2> QED BY <2>1, <2>2, <2>3
<1>10. f \in 1..f /\ \A i \in 1..(f - 1) : i \in 1..f
  BY <1>1
<1>11. (a \o b)[f] = "_" /\ \A i \in 1..(f - 1) : (a \o b)[i] = v[i]
  BY <1>2, <1>8, <1>10
<1> QED BY <1>5, <1>7, <1>9, <1>11 DEF Parted, a, b, f, n, Name

(* The tests of a name whose first dot is at f, by position: a Windows device, a
   short name, an ending, a platform at the end of the stem, a file the Go tools
   ignore, and a special directory. *)
Reserved(v, f) == f = 2 /\ v[1] \in Devices
Short(v, f) == \E t \in 1..(f - 2) : v[t] = "~" /\ \A i \in (t + 1)..(f - 1) : v[i] \in Digits
Ends(v, n, word) == n > 1 /\ v[n - 1] = "_" /\ v[n] = word
StemIgnored(v, f) ==
  \E platform \in Platforms : Ends(v, IF Ends(v, f - 1, "test") THEN f - 3 ELSE f - 1, platform)
Ignored(v, f) == Ends(v, Len(v), "test") \/ StemIgnored(v, f)
Special(v) == Len(v) = 1 /\ v[1] \in SpecialDirectories

(* The tests of a name are those of its positions. *)
LEMMA ByPosition ==
  ASSUME NEW v \in Name
  PROVE  /\ isReservedWindowsName(v) <=> Reserved(v, FirstDot(v))
         /\ hasWindowsShortNameSuffix(v) <=> Short(v, FirstDot(v))
         /\ isIgnoredOrConditionalGoSource(v) <=> Ignored(v, FirstDot(v))
         /\ HasSuffix(v, "test") <=> Ends(v, Len(v), "test")
         /\ isGoSpecialDirectory(v) <=> Len(v) = 1 /\ v[1] \in SpecialDirectories
<1> DEFINE f == FirstDot(v)
           n == Len(v)
           s == Stem(v)
<1>1. f \in 1..(n + 1) /\ n \in Nat
  BY FirstDotFound DEF IsFirstDot, Name
<1>2. s \in Name /\ Len(s) = f - 1 /\ \A i \in 1..(f - 1) : s[i] = v[i]
  BY StemElements
<1> HIDE DEF f, n, s
<1>3. isReservedWindowsName(v) <=> Reserved(v, f)
  BY <1>1, <1>2 DEF isReservedWindowsName, Reserved, s
<1>4. hasWindowsShortNameSuffix(v) <=> Short(v, f)
  <2>1. Len(s) - 1 = f - 2 /\ \A t \in 1..(f - 2) : t \in 1..(f - 1) /\ (t + 1)..(f - 1) \subseteq 1..(f - 1)
    BY <1>1, <1>2
  <2> QED BY <1>2, <2>1 DEF hasWindowsShortNameSuffix, Short, s
<1>5. ASSUME NEW w \in Name, NEW word PROVE HasSuffix(w, word) <=> Ends(w, Len(w), word)
  BY DEF HasSuffix, Ends, Last
<1>6. ASSUME NEW k \in 0..(f - 1), NEW w \in Name, NEW word, Len(w) = k, \A i \in 1..k : w[i] = v[i]
      PROVE  HasSuffix(w, word) <=> Ends(v, k, word)
  <2>1. HasSuffix(w, word) <=> Ends(w, k, word)
    BY <1>5, <1>6
  <2>2. k > 1 => k - 1 \in 1..k /\ k \in 1..k
    BY <1>1
  <2>3. k > 1 => w[k - 1] = v[k - 1] /\ w[k] = v[k]
    BY <1>6, <2>2
  <2>4. Ends(w, k, word) <=> Ends(v, k, word)
    BY <2>3 DEF Ends
  <2> QED BY <2>1, <2>4
<1>7. isIgnoredOrConditionalGoSource(v) <=> Ignored(v, f)
  <2> DEFINE base == IF HasSuffix(s, "test") THEN SubSeq(s, 1, Len(s) - 2) ELSE s
             k == IF Ends(v, f - 1, "test") THEN f - 3 ELSE f - 1
  <2>1. HasSuffix(s, "test") <=> Ends(v, f - 1, "test")
    BY <1>1, <1>2, <1>6
  <2>2. k \in 0..(f - 1) /\ base \in Name /\ Len(base) = k /\ \A i \in 1..k : base[i] = v[i]
    <3>1. CASE Ends(v, f - 1, "test")
      <4>1. f - 3 \in Nat /\ Len(s) - 2 = f - 3
        <5>1. f - 1 > 1
          BY <3>1 DEF Ends
        <5> QED BY <1>1, <1>2, <5>1
      <4>2. SubSeq(s, 1, f - 3) \in Name /\ Len(SubSeq(s, 1, f - 3)) = f - 3 /\ \A i \in 1..(f - 3) : SubSeq(s, 1, f - 3)[i] = s[i]
        BY <1>1, <1>2, <4>1 DEF Name
      <4> QED BY <1>1, <1>2, <2>1, <3>1, <4>1, <4>2
    <3>2. CASE ~Ends(v, f - 1, "test")
      BY <1>1, <1>2, <2>1, <3>2
    <3> QED BY <3>1, <3>2
  <2>3. \A platform : HasSuffix(base, platform) <=> Ends(v, k, platform)
    <3> HIDE DEF base, k
    <3> QED BY <1>6, <2>2
  <2>4. HasSuffix(v, "test") <=> Ends(v, Len(v), "test")
    BY <1>5
  <2> HIDE DEF base, k
  <2>5. isIgnoredOrConditionalGoSource(v) <=> HasSuffix(v, "test") \/ \E platform \in Platforms : HasSuffix(base, platform)
    BY DEF isIgnoredOrConditionalGoSource, base, s
  <2> QED BY <2>3, <2>4, <2>5 DEF Ignored, StemIgnored, k
<1> QED BY <1>3, <1>4, <1>5, <1>7 DEF f, isGoSpecialDirectory

(* A name of valid characters that starts with a letter, digit, tilde or plus and
   has no dot at the end or after a dot. *)
Plain(v) ==
  /\ v \in Name /\ Len(v) >= 1
  /\ v[1] \notin {".", "_", "-"} /\ v[Len(v)] # "."
  /\ \A i \in 1..Len(v) : v[i] # "invalid"
  /\ \A i \in 2..Len(v) : v[i] = "." => v[i - 1] # "."

(* The first dot of a plain name is neither its first element nor its last. *)
LEMMA PlainDot ==
  ASSUME NEW v, Plain(v)
  PROVE  /\ Len(v) \in Nat /\ IsFirstDot(v, FirstDot(v))
         /\ FirstDot(v) \in 2..(Len(v) + 1) /\ FirstDot(v) # Len(v)
<1> DEFINE n == Len(v)
           f == FirstDot(v)
<1>1. v \in Name /\ n >= 1 /\ v[1] # "." /\ v[n] # "."
  BY DEF Plain
<1>2. n \in Nat
  BY <1>1 DEF Name
<1>3. IsFirstDot(v, f)
  BY <1>1, FirstDotFound
<1> HIDE DEF f
<1>4. f \in 1..(n + 1) /\ (f <= n => v[f] = ".")
  BY <1>3 DEF IsFirstDot
<1> HIDE DEF n
<1>5. f # 1
  <2> SUFFICES ASSUME f = 1 PROVE FALSE
    OBVIOUS
  <2>1. 1 <= n
    BY <1>1
  <2>2. v[1] = "."
    BY <1>4, <2>1
  <2> QED BY <1>1, <2>2
<1>6. f # n
  <2> SUFFICES ASSUME f = n PROVE FALSE
    OBVIOUS
  <2>1. f <= n
    BY <1>2
  <2> QED BY <1>1, <1>4, <2>1
<1>7. f \in 2..(n + 1)
  BY <1>2, <1>4, <1>5
<1> QED BY <1>2, <1>3, <1>6, <1>7 DEF f, n

(* An underscore before the first dot leaves a name plain, and moves the dot. *)
LEMMA PartedStep ==
  ASSUME NEW v, Plain(v)
  PROVE  /\ Plain(Parted(v))
         /\ FirstDot(Parted(v)) = FirstDot(v) + 1
<1> DEFINE n == Len(v)
           f == FirstDot(v)
           p == Parted(v)
<1>1. n \in Nat /\ f \in 2..(n + 1) /\ IsFirstDot(v, f)
  BY PlainDot
<1>2. /\ p \in Name /\ Len(p) = n + 1
      /\ \A i \in 1..(f - 1) : p[i] = v[i]
      /\ p[f] = "_"
      /\ \A i \in f..n : p[i + 1] = v[i]
  BY PartedElements DEF Plain
<1> HIDE DEF n, f, p
<1>3. ASSUME NEW j \in 1..(n + 1)
      PROVE  \/ j < f /\ p[j] = v[j]
             \/ j = f /\ p[j] = "_"
             \/ j > f /\ j - 1 \in f..n /\ p[j] = v[j - 1]
  <2>1. CASE j < f
    <3>1. j \in 1..(f - 1)
      BY <1>1, <2>1
    <3> QED BY <1>2, <2>1, <3>1
  <2>2. CASE j > f
    <3>1. j - 1 \in f..n /\ (j - 1) + 1 = j
      BY <1>1, <2>2
    <3>2. p[(j - 1) + 1] = v[j - 1]
      BY <1>2, <3>1
    <3> QED BY <2>2, <3>1, <3>2
  <2>3. CASE j = f
    BY <1>2, <2>3
  <2>4. j < f \/ j = f \/ j > f
    BY <1>1
  <2> QED BY <2>1, <2>2, <2>3, <2>4
<1>4. \A i \in 1..(f - 1) : v[i] # "."
  BY <1>1 DEF IsFirstDot
<1>5. IsFirstDot(p, f + 1)
  <2>1. f + 1 \in 1..(n + 1 + 1)
    BY <1>1
  <2>2. ASSUME NEW i \in 1..f PROVE p[i] # "."
    <3>1. i \in 1..(n + 1) /\ ~(i > f) /\ (i < f => i \in 1..(f - 1))
      BY <1>1
    <3> QED BY <1>3, <1>4, <3>1
  <2>3. ASSUME f + 1 <= n + 1 PROVE p[f + 1] = "."
    <3>1. f <= n /\ f \in f..n
      BY <1>1, <2>3
    <3>2. p[f + 1] = v[f]
      BY <1>2, <3>1
    <3>3. v[f] = "."
      BY <1>1, <3>1 DEF IsFirstDot, n
    <3> QED BY <3>2, <3>3
  <2>4. (f + 1) - 1 = f
    BY <1>1
  <2> QED BY <1>2, <2>1, <2>2, <2>3, <2>4 DEF IsFirstDot
<1>6. Plain(p)
  <2>1. p[1] = v[1] /\ Len(p) >= 1
    <3>1. 1 \in 1..(f - 1) /\ n + 1 >= 1
      BY <1>1
    <3>2. Len(p) = n + 1
      BY <1>2
    <3> QED BY <1>2, <3>1, <3>2
  <2>2. p[Len(p)] # "."
    <3>1. CASE f = n + 1
      BY <1>2, <3>1
    <3>2. CASE f # n + 1
      <4>1. n \in f..n
        BY <1>1, <3>2
      <4>2. p[n + 1] = v[n]
        BY <1>2, <4>1
      <4> QED BY <1>2, <4>2 DEF Plain, n
    <3> QED BY <3>1, <3>2
  <2>3. ASSUME NEW j \in 1..(n + 1) PROVE p[j] # "invalid"
    <3>1. (j < f => j \in 1..n) /\ (f..n \subseteq 1..n)
      BY <1>1
    <3>2. \A i \in 1..n : v[i] # "invalid"
      BY DEF Plain, n
    <3> QED BY <1>3, <3>1, <3>2
  <2>4. ASSUME NEW j \in 2..(n + 1), p[j] = "." PROVE p[j - 1] # "."
    <3>1. j \in 1..(n + 1) /\ j - 1 \in 1..(n + 1)
      BY <1>1
    <3>2. ~(j < f)
      <4> SUFFICES ASSUME j < f PROVE FALSE
        OBVIOUS
      <4>1. j \in 1..(f - 1)
        BY <1>1
      <4>2. p[j] = v[j]
        BY <1>2, <4>1
      <4> QED BY <1>4, <2>4, <4>1, <4>2
    <3>3. j > f /\ v[j - 1] = "."
      BY <1>3, <2>4, <3>1, <3>2
    <3>4. CASE j - 1 = f
      BY <1>2, <3>4
    <3>5. CASE j - 1 # f
      <4>1. j - 1 > f /\ j - 1 \in 2..n /\ ~(j - 1 < f)
        BY <1>1, <3>3, <3>5
      <4>2. p[j - 1] = v[(j - 1) - 1]
        BY <1>3, <3>1, <4>1
      <4>3. v[(j - 1) - 1] # "."
        BY <3>3, <4>1 DEF Plain, n
      <4> QED BY <4>2, <4>3
    <3> QED BY <3>4, <3>5
  <2>5. v[1] \notin {".", "_", "-"}
    BY DEF Plain
  <2> QED BY <1>2, <2>1, <2>2, <2>3, <2>4, <2>5 DEF Plain
<1>7. FirstDot(p) = f + 1
  BY <1>2, <1>5, FirstDotIs
<1> QED BY <1>6, <1>7 DEF p, f

(* A character at the end leaves a name plain, and the first dot where it was. *)
LEMMA AppendStep ==
  ASSUME NEW v, Plain(v), NEW t \in Tokens, t \notin {".", "invalid"}
  PROVE  /\ Plain(Append(v, t))
         /\ FirstDot(Append(v, t)) = IF FirstDot(v) <= Len(v) THEN FirstDot(v) ELSE Len(v) + 2
<1> DEFINE n == Len(v)
           f == FirstDot(v)
           p == Append(v, t)
<1>1. n \in Nat /\ f \in 2..(n + 1) /\ IsFirstDot(v, f)
  BY PlainDot
<1>2. /\ p \in Name /\ Len(p) = n + 1
      /\ \A i \in 1..n : p[i] = v[i]
      /\ p[n + 1] = t
  BY AppendElements DEF Plain
<1>0. n >= 1
  BY DEF Plain
<1> HIDE DEF n, f, p
<1>3. Plain(p)
  <2>1. p[1] = v[1] /\ Len(p) >= 1
    <3>1. 1 \in 1..n /\ n + 1 >= 1
      BY <1>0, <1>1
    <3> QED BY <1>2, <3>1
  <2>2. ASSUME NEW j \in 1..(n + 1) PROVE p[j] # "invalid"
    <3>1. j = n + 1 \/ j \in 1..n
      BY <1>1
    <3>2. \A i \in 1..n : v[i] # "invalid"
      BY DEF Plain, n
    <3> QED BY <1>2, <3>1, <3>2
  <2>3. ASSUME NEW j \in 2..(n + 1), p[j] = "." PROVE p[j - 1] # "."
    <3>1. j # n + 1
      BY <1>2, <2>3
    <3>2. j \in 2..n /\ j \in 1..n /\ j - 1 \in 1..n
      BY <1>1, <3>1
    <3>3. v[j] = "." => v[j - 1] # "."
      BY <3>2 DEF Plain, n
    <3> QED BY <1>2, <2>3, <3>2, <3>3
  <2>4. v[1] \notin {".", "_", "-"}
    BY DEF Plain
  <2> QED BY <1>2, <2>1, <2>2, <2>3, <2>4 DEF Plain
<1>4. CASE f <= n
  <2>1. IsFirstDot(p, f)
    <3>1. f \in 1..(n + 1 + 1) /\ f \in 1..n /\ f <= n + 1 /\ \A i \in 1..(f - 1) : i \in 1..n
      BY <1>1, <1>4
    <3>2. v[f] = "." /\ \A i \in 1..(f - 1) : v[i] # "."
      BY <1>1, <1>4 DEF IsFirstDot, n
    <3> QED BY <1>2, <3>1, <3>2 DEF IsFirstDot
  <2> QED BY <1>2, <1>3, <1>4, <2>1, FirstDotIs DEF p, f, n
<1>5. CASE ~(f <= n)
  <2>1. f = n + 1
    BY <1>1, <1>5
  <2>2. IsFirstDot(p, n + 2)
    <3>1. n + 2 \in 1..(n + 1 + 1) /\ ~(n + 2 <= n + 1) /\ (n + 2) - 1 = n + 1 /\ f - 1 = n
          /\ \A i \in 1..(n + 1) : i = n + 1 \/ i \in 1..n
      BY <1>1, <2>1
    <3>2. \A i \in 1..n : v[i] # "."
      BY <1>1, <3>1 DEF IsFirstDot
    <3> QED BY <1>2, <3>1, <3>2 DEF IsFirstDot
  <2>3. FirstDot(p) = n + 2
    BY <1>2, <2>2, FirstDotIs
  <2> QED BY <1>3, <1>5, <2>3 DEF p, f, n
<1> QED BY <1>4, <1>5

(* What is tested of the stem depends on the stem alone. *)
LEMMA SameStem ==
  ASSUME NEW v, NEW w, NEW f \in Nat, f >= 2, \A i \in 1..(f - 1) : w[i] = v[i]
  PROVE  /\ Reserved(w, f) <=> Reserved(v, f)
         /\ Short(w, f) <=> Short(v, f)
         /\ StemIgnored(w, f) <=> StemIgnored(v, f)
<1>1. Reserved(w, f) <=> Reserved(v, f)
  <2>1. 1 \in 1..(f - 1)
    OBVIOUS
  <2> QED BY <2>1 DEF Reserved
<1>2. Short(w, f) <=> Short(v, f)
  <2>1. \A t \in 1..(f - 2) : t \in 1..(f - 1) /\ (t + 1)..(f - 1) \subseteq 1..(f - 1)
    OBVIOUS
  <2> QED BY <2>1 DEF Short
<1>3. ASSUME NEW k \in Int, k <= f - 1, NEW word PROVE Ends(w, k, word) <=> Ends(v, k, word)
  <2>1. k > 1 => k \in 1..(f - 1) /\ k - 1 \in 1..(f - 1)
    BY <1>3
  <2>2. k > 1 => w[k] = v[k] /\ w[k - 1] = v[k - 1]
    BY <2>1
  <2> QED BY <2>2 DEF Ends
<1>4. f - 1 \in Int /\ f - 3 \in Int /\ f - 1 <= f - 1 /\ f - 3 <= f - 1
  OBVIOUS
<1>5. StemIgnored(w, f) <=> StemIgnored(v, f)
  <2> DEFINE k == IF Ends(v, f - 1, "test") THEN f - 3 ELSE f - 1
  <2>1. Ends(w, f - 1, "test") <=> Ends(v, f - 1, "test")
    BY <1>3, <1>4
  <2>2. \A platform : Ends(w, k, platform) <=> Ends(v, k, platform)
    <3>1. k \in Int /\ k <= f - 1
      BY <1>4
    <3> HIDE DEF k
    <3> QED BY <1>3, <3>1
  <2>3. StemIgnored(v, f) <=> \E platform \in Platforms : Ends(v, k, platform)
    BY DEF StemIgnored
  <2>4. StemIgnored(w, f) <=> \E platform \in Platforms : Ends(w, k, platform)
    BY <2>1 DEF StemIgnored
  <2> HIDE DEF k
  <2> QED BY <2>2, <2>3, <2>4
<1> QED BY <1>1, <1>2, <1>5

(* The last position of a stem that does not end at its first element. *)
LEMMA LastOfStem ==
  ASSUME NEW f \in Nat, f >= 3
  PROVE  f # 2 /\ \A t \in 1..(f - 2) : f - 1 \in (t + 1)..(f - 1)
OBVIOUS

(* A stem that ends in an underscore is not special in any way. *)
LEMMA UnderscoreParts ==
  ASSUME NEW v, NEW f \in Nat, f >= 3, v[f - 1] = "_"
  PROVE  ~Reserved(v, f) /\ ~Short(v, f) /\ ~StemIgnored(v, f)
<1>1. ~Reserved(v, f)
  BY LastOfStem DEF Reserved
<1>2. ~Short(v, f)
  <2> SUFFICES ASSUME NEW t \in 1..(f - 2), \A i \in (t + 1)..(f - 1) : v[i] \in Digits
               PROVE  FALSE
    BY DEF Short
  <2>1. f - 1 \in (t + 1)..(f - 1)
    BY LastOfStem
  <2> QED BY <2>1 DEF Digits
<1>3. ~Ends(v, f - 1, "test") /\ \A platform \in Platforms : ~Ends(v, f - 1, platform)
  BY DEF Ends, Platforms
<1>4. ~StemIgnored(v, f)
  BY <1>3 DEF StemIgnored
<1> QED BY <1>1, <1>2, <1>4

(* stem + "_" + suffix is not special, and ends as the name did. *)
LEMMA PartedFixes ==
  ASSUME NEW v, Plain(v)
  PROVE  LET p == Parted(v) IN
         /\ Plain(p)
         /\ ~Reserved(p, FirstDot(p)) /\ ~Short(p, FirstDot(p))
         /\ ~Special(p) /\ ~StemIgnored(p, FirstDot(p))
         /\ ~Ends(v, Len(v), "test") => ~Ends(p, Len(p), "test")
<1> DEFINE n == Len(v)
           f == FirstDot(v)
           p == Parted(v)
<1>1. n \in Nat /\ f \in 2..(n + 1) /\ f # n
  BY PlainDot
<1>2. Plain(p) /\ FirstDot(p) = f + 1
  BY PartedStep
<1>3. /\ Len(p) = n + 1
      /\ p[f] = "_"
      /\ \A i \in f..n : p[i + 1] = v[i]
  BY PartedElements DEF Plain
<1> HIDE DEF n, f, p
<1>4. Len(p) # 1
  <2>1. n + 1 # 1
    BY <1>1
  <2> QED BY <1>3, <2>1
<1>5. f + 1 \in Nat /\ f + 1 >= 3 /\ (f + 1) - 1 = f
  BY <1>1
<1>6. ~Reserved(p, f + 1) /\ ~Short(p, f + 1) /\ ~StemIgnored(p, f + 1)
  BY <1>3, <1>5, UnderscoreParts
<1>7. ASSUME ~Ends(v, n, "test") PROVE ~Ends(p, n + 1, "test")
  <2>1. CASE f = n + 1
    BY <1>3, <2>1 DEF Ends
  <2>2. CASE f # n + 1
    <3>1. n \in f..n /\ n - 1 \in f..n /\ (n - 1) + 1 = n /\ (n + 1) - 1 = n /\ n > 1
      BY <1>1, <2>2
    <3>2. p[n + 1] = v[n] /\ p[(n - 1) + 1] = v[n - 1]
      BY <1>3, <3>1
    <3> QED BY <1>7, <3>1, <3>2 DEF Ends
  <2> QED BY <2>1, <2>2
<1> QED BY <1>2, <1>3, <1>4, <1>6, <1>7 DEF p, f, n, Special

(* value + "_" is no directory and no test, and no device and no short name
   unless the value was one. *)
LEMMA AppendFixes ==
  ASSUME NEW v, Plain(v)
  PROVE  LET a == Append(v, "_") IN
         /\ Plain(a)
         /\ ~Reserved(v, FirstDot(v)) => ~Reserved(a, FirstDot(a))
         /\ ~Short(v, FirstDot(v)) => ~Short(a, FirstDot(a))
         /\ ~Special(a) /\ ~Ends(a, Len(a), "test")
<1> DEFINE n == Len(v)
           f == FirstDot(v)
           a == Append(v, "_")
<1>0. "_" \in Tokens /\ "_" \notin {".", "invalid"}
  BY DEF Tokens
<1>1. n \in Nat /\ f \in 2..(n + 1)
  BY PlainDot
<1>2. Plain(a) /\ FirstDot(a) = IF f <= n THEN f ELSE n + 2
  BY <1>0, AppendStep
<1>3. /\ Len(a) = n + 1 /\ a[n + 1] = "_"
      /\ \A i \in 1..n : a[i] = v[i]
  BY <1>0, AppendElements DEF Plain
<1> HIDE DEF n, f, a
<1>4. Len(a) # 1
  <2>1. n + 1 # 1
    BY <1>1
  <2> QED BY <1>3, <2>1
<1>5. ~Ends(a, n + 1, "test")
  BY <1>3 DEF Ends
<1>6. CASE f <= n
  <2>1. f \in Nat /\ f >= 2 /\ 1..(f - 1) \subseteq 1..n
    BY <1>1, <1>6
  <2>2. /\ Reserved(a, f) <=> Reserved(v, f)
        /\ Short(a, f) <=> Short(v, f)
    BY <1>3, <2>1, SameStem
  <2> QED BY <1>2, <1>3, <1>4, <1>5, <1>6, <2>2 DEF a, f, n, Special
<1>7. CASE ~(f <= n)
  <2>1. n + 2 \in Nat /\ n + 2 >= 3 /\ (n + 2) - 1 = n + 1
    BY <1>1, <1>7
  <2>2. ~Reserved(a, n + 2) /\ ~Short(a, n + 2)
    BY <1>3, <2>1, UnderscoreParts
  <2> QED BY <1>2, <1>3, <1>4, <1>5, <1>7, <2>2 DEF a, f, n, Special
<1> QED BY <1>6, <1>7

(* A plain name that no operating system and no directory of Go treats specially. *)
Portable(v) == Plain(v) /\ ~Reserved(v, FirstDot(v)) /\ ~Short(v, FirstDot(v)) /\ ~Special(v)

(* The three fixes of sanitizeGoFileComponent, in their order: none undoes
   what an earlier one did. *)
LEMMA PortableNames ==
  ASSUME NEW v, Plain(v)
  PROVE  LET named == makeNonWindowsShortName(makeNonReservedWindowsName(v)) IN
         Portable(IF isGoSpecialDirectory(named) THEN Append(named, "_") ELSE named)
<1> DEFINE r == makeNonReservedWindowsName(v)
           s == makeNonWindowsShortName(r)
           d == IF isGoSpecialDirectory(s) THEN Append(s, "_") ELSE s
<1>1. Plain(r) /\ ~Reserved(r, FirstDot(r))
  BY PartedFixes, ByPosition DEF makeNonReservedWindowsName, Plain
<1> HIDE DEF r
<1>2. Plain(s) /\ ~Reserved(s, FirstDot(s)) /\ ~Short(s, FirstDot(s))
  BY <1>1, PartedFixes, ByPosition DEF makeNonWindowsShortName, Plain
<1> HIDE DEF s
<1>3. Portable(d)
  <2>1. isGoSpecialDirectory(s) <=> Special(s)
    BY <1>2, ByPosition DEF Plain, Special
  <2> QED BY <1>2, <2>1, AppendFixes DEF Portable
<1> QED BY <1>3 DEF s, r

(* A turn of the loop undoes none of the three fixes. *)
LEMMA TurnStep ==
  ASSUME NEW v, Portable(v)
  PROVE  Portable(Turn(v))
<1>1. CASE ~isIgnoredOrConditionalGoSource(v)
  BY <1>1 DEF Turn
<1>2. CASE isIgnoredOrConditionalGoSource(v)
  <2>1. Turn(v) \in {Append(v, "_"), Parted(v)}
    BY <1>2 DEF Turn, neutralizeGoSourceName
  <2> QED BY <2>1, AppendFixes, PartedFixes DEF Portable
<1> QED BY <1>1, <1>2

(* Two turns of the loop are enough: the first may part a test at the end of
   the name from it, the second the end of the stem, and then it ends. *)
LEMMA TwoTurns ==
  ASSUME NEW v, Plain(v)
  PROVE  ~Ignored(Neutralized(v), FirstDot(Neutralized(v)))
<1>1. ASSUME NEW w, Plain(w)
      PROVE  Turn(w) = IF Ends(w, Len(w), "test") THEN Append(w, "_")
                       ELSE IF StemIgnored(w, FirstDot(w)) THEN Parted(w) ELSE w
  <2>1. /\ isIgnoredOrConditionalGoSource(w) <=> Ends(w, Len(w), "test") \/ StemIgnored(w, FirstDot(w))
        /\ HasSuffix(w, "test") <=> Ends(w, Len(w), "test")
    BY <1>1, ByPosition DEF Ignored, Plain
  <2> QED BY <2>1 DEF Turn, neutralizeGoSourceName
<1>2. ASSUME NEW w, Plain(w), ~Ends(w, Len(w), "test")
      PROVE  Plain(Turn(w)) /\ ~Ignored(Turn(w), FirstDot(Turn(w)))
  <2>1. CASE StemIgnored(w, FirstDot(w))
    <3>1. Turn(w) = Parted(w)
      BY <1>1, <1>2, <2>1
    <3> QED BY <1>2, <3>1, PartedFixes DEF Ignored
  <2>2. CASE ~StemIgnored(w, FirstDot(w))
    <3>1. Turn(w) = w
      BY <1>1, <1>2, <2>2
    <3> QED BY <1>2, <2>2, <3>1 DEF Ignored
  <2> QED BY <2>1, <2>2
<1>3. CASE Ends(v, Len(v), "test")
  <2>1. Turn(v) = Append(v, "_")
    BY <1>1, <1>3
  <2>2. Plain(Turn(v)) /\ ~Ends(Turn(v), Len(Turn(v)), "test")
    BY <2>1, AppendFixes
  <2> QED BY <1>2, <2>2 DEF Neutralized
<1>4. CASE ~Ends(v, Len(v), "test")
  <2> DEFINE w == Turn(v)
  <2>1. Plain(w) /\ ~Ends(w, Len(w), "test") /\ ~Ignored(w, FirstDot(w))
    BY <1>2, <1>4 DEF Ignored
  <2> HIDE DEF w
  <2>2. ~Ignored(Turn(w), FirstDot(Turn(w)))
    BY <1>2, <2>1
  <2> QED BY <2>2 DEF Neutralized, w
<1> QED BY <1>3, <1>4

(* validateGoFileComponent accepts the portable names of the length allowed
   that are an ordinary source file. *)
LEMMA ValidMeans ==
  ASSUME NEW v \in Name
  PROVE  validateGoFileComponent(v) <=>
           Portable(v) /\ Len(v) <= MaxGoFileStem /\ ~Ignored(v, FirstDot(v))
<1> DEFINE n == Len(v)
<1>1. n \in Nat /\ DOMAIN v = 1..n /\ (v # <<>> <=> n >= 1)
  BY DEF Name
<1>2. (\A i \in DOMAIN v : IsGoImportPathToken(v[i]) /\ (i > 1 /\ v[i] = "." => v[i - 1] # "."))
      <=> /\ \A i \in 1..n : v[i] # "invalid"
          /\ \A i \in 2..n : v[i] = "." => v[i - 1] # "."
  <2>1. \A i \in 1..n : (i > 1 <=> i \in 2..n)
    BY <1>1
  <2>2. 2..n \subseteq 1..n
    BY <1>1
  <2> HIDE DEF n
  <2> QED BY <1>1, <2>1, <2>2, Zenon DEF IsGoImportPathToken
<1>3. n >= 1 => Head(v) = v[1] /\ Last(v) = v[n]
  BY <1>1 DEF Last, Name
<1>4. /\ isReservedWindowsName(v) <=> Reserved(v, FirstDot(v))
      /\ hasWindowsShortNameSuffix(v) <=> Short(v, FirstDot(v))
      /\ isIgnoredOrConditionalGoSource(v) <=> Ignored(v, FirstDot(v))
      /\ isGoSpecialDirectory(v) <=> Special(v)
  BY ByPosition DEF Special
<1> HIDE DEF n
<1> QED BY <1>1, <1>2, <1>3, <1>4 DEF validateGoFileComponent, Portable, Plain, n

(* The elements of a name cut short. *)
LEMMA TruncatedElements ==
  ASSUME NEW v \in Name, Len(v) > MaxGoFileStem
  PROVE  LET h == truncateASCIIWithHash(v)
             m == MaxGoFileStem - 2 IN
         /\ h \in Name /\ Len(h) = m + 2
         /\ \A i \in 1..m : h[i] = v[i]
         /\ h[m + 1] = "_" /\ h[m + 2] = "hash"
<1> DEFINE n == Len(v)
           m == MaxGoFileStem - 2
           a == SubSeq(v, 1, m)
           b == <<"_", "hash">>
<1>1. n \in Nat /\ m \in Nat /\ m < n
  BY MaxGoFileStemAssumption DEF Name
<1> HIDE DEF m
<1>2. a \in Seq(Tokens) /\ Len(a) = m /\ \A i \in 1..m : a[i] = v[i]
  BY <1>1 DEF Name
<1>3. b \in Seq(Tokens) /\ Len(b) = 2 /\ b[1] = "_" /\ b[2] = "hash"
  BY DEF Tokens
<1> HIDE DEF a, b, n
<1>4. /\ a \o b \in Seq(Tokens) /\ Len(a \o b) = Len(a) + Len(b)
      /\ \A i \in 1..(Len(a) + Len(b)) : (a \o b)[i] = IF i <= Len(a) THEN a[i] ELSE b[i - Len(a)]
  BY <1>2, <1>3, ConcatProperties
<1>0. Len(a) = m /\ Len(b) = 2
  BY <1>2, <1>3
<1>5. Len(a \o b) = m + 2
  BY <1>0, <1>4
<1>6. ASSUME NEW i \in 1..m PROVE (a \o b)[i] = v[i]
  <2>1. i \in 1..(Len(a) + Len(b)) /\ i <= Len(a)
    BY <1>0, <1>1
  <2> QED BY <1>2, <1>4, <2>1
<1>7. ASSUME NEW k \in {1, 2} PROVE (a \o b)[m + k] = b[k]
  <2> DEFINE j == m + k
  <2>1. j \in 1..(Len(a) + Len(b)) /\ ~(j <= Len(a)) /\ j - Len(a) = k
    BY <1>0, <1>1
  <2> HIDE DEF j
  <2>2. (a \o b)[j] = b[j - Len(a)]
    BY <1>4, <2>1
  <2>3. b[j - Len(a)] = b[k]
    BY <2>1
  <2> QED BY <2>2, <2>3 DEF j
<1> QED BY <1>3, <1>4, <1>5, <1>6, <1>7 DEF truncateASCIIWithHash, a, b, m, Name

(* A name cut short stays valid, wherever it is cut: before the first dot, at
   it or after it. *)
LEMMA Truncated ==
  ASSUME NEW v, Portable(v), ~Ignored(v, FirstDot(v)), Len(v) > MaxGoFileStem
  PROVE  validateGoFileComponent(truncateASCIIWithHash(v))
<1> DEFINE n == Len(v)
           m == MaxGoFileStem - 2
           f == FirstDot(v)
           h == truncateASCIIWithHash(v)
<1>1. /\ n \in Nat /\ m \in Nat /\ m >= 1 /\ m < n /\ m + 2 = MaxGoFileStem
      /\ f \in 2..(n + 1) /\ IsFirstDot(v, f)
  BY MaxGoFileStemAssumption, PlainDot DEF Portable
<1>2. /\ h \in Name /\ Len(h) = m + 2
      /\ \A i \in 1..m : h[i] = v[i]
      /\ h[m + 1] = "_" /\ h[m + 2] = "hash"
  BY TruncatedElements DEF Portable, Plain
<1> HIDE DEF n, m, f, h
<1>3. \A i \in 1..(m + 2) : i \in 1..m \/ i = m + 1 \/ i = m + 2
  BY <1>1
<1>4. Plain(h)
  <2>1. h[1] = v[1] /\ v[1] \notin {".", "_", "-"}
    <3>1. 1 \in 1..m
      BY <1>1
    <3> QED BY <1>2, <3>1 DEF Portable, Plain
  <2>2. ASSUME NEW j \in 1..(m + 2) PROVE h[j] # "invalid"
    <3>1. 1..m \subseteq 1..n
      BY <1>1
    <3>2. \A i \in 1..n : v[i] # "invalid"
      BY DEF Portable, Plain, n
    <3> QED BY <1>2, <1>3, <3>1, <3>2
  <2>3. ASSUME NEW j \in 2..(m + 2), h[j] = "." PROVE h[j - 1] # "."
    <3>1. j # m + 1 /\ j # m + 2
      BY <1>2, <2>3
    <3>2. j \in 1..m /\ j \in 2..n /\ j - 1 \in 1..m
      BY <1>1, <3>1
    <3>3. v[j] = "." => v[j - 1] # "."
      BY <3>2 DEF Portable, Plain, n
    <3> QED BY <1>2, <2>3, <3>2, <3>3
  <2>4. m + 2 >= 1
    BY <1>1
  <2> QED BY <1>2, <2>1, <2>2, <2>3, <2>4 DEF Plain
<1>5. ~Special(h)
  <2>1. m + 2 # 1
    BY <1>1
  <2> QED BY <1>2, <2>1 DEF Special
<1>6. ~Ends(h, m + 2, "test") /\ \A platform \in Platforms : ~Ends(h, m + 2, platform)
  BY <1>2 DEF Ends, Platforms
<1>7. CASE f <= m
  <2>1. f \in Nat /\ f >= 2 /\ f \in 1..(m + 2 + 1) /\ f \in 1..m /\ f <= n /\ 1..(f - 1) \subseteq 1..m
    BY <1>1, <1>7
  <2>2. \A i \in 1..(f - 1) : h[i] = v[i]
    BY <1>2, <2>1
  <2>3. v[f] = "." /\ \A i \in 1..(f - 1) : v[i] # "."
    BY <1>1, <2>1 DEF IsFirstDot, n
  <2>4. IsFirstDot(h, f)
    BY <1>2, <2>1, <2>2, <2>3 DEF IsFirstDot
  <2>5. FirstDot(h) = f
    BY <1>2, <2>4, FirstDotIs
  <2>6. ~Reserved(h, f) /\ ~Short(h, f) /\ ~StemIgnored(h, f)
    <3>1. ~Reserved(v, f) /\ ~Short(v, f) /\ ~StemIgnored(v, f)
      BY DEF Portable, Ignored, f
    <3> QED BY <2>1, <2>2, <3>1, SameStem
  <2>7. Portable(h) /\ ~Ignored(h, f) /\ Len(h) <= MaxGoFileStem
    <3>1. Len(h) <= MaxGoFileStem
      <4>1. Len(h) = m + 2
        BY <1>2
      <4> QED BY <1>1, <4>1, MaxGoFileStemAssumption
    <3> QED BY <1>2, <1>4, <1>5, <1>6, <2>5, <2>6, <3>1 DEF Portable, Ignored
  <2> QED BY <1>2, <2>5, <2>7, ValidMeans DEF h
<1>8. CASE ~(f <= m)
  <2>1. /\ m + 3 \in 1..(m + 2 + 1) /\ ~(m + 3 <= m + 2) /\ (m + 3) - 1 = m + 2 /\ m + 3 # 2
        /\ (m + 3) - 2 = m + 1 /\ \A t \in 1..(m + 1) : m + 2 \in (t + 1)..(m + 2)
    BY <1>1
  <2>2. \A i \in 1..(m + 2) : h[i] # "."
    <3>1. \A i \in 1..m : v[i] # "."
      <4>1. 1..m \subseteq 1..(f - 1)
        BY <1>1, <1>8
      <4> QED BY <1>1, <4>1 DEF IsFirstDot
    <3> QED BY <1>2, <1>3, <3>1
  <2>3. IsFirstDot(h, m + 3)
    BY <1>2, <2>1, <2>2 DEF IsFirstDot
  <2>4. FirstDot(h) = m + 3
    BY <1>2, <2>3, FirstDotIs
  <2>5. ~Reserved(h, m + 3)
    BY <2>1 DEF Reserved
  <2>6. ~Short(h, m + 3)
    <3> SUFFICES ASSUME NEW t \in 1..((m + 3) - 2), \A i \in (t + 1)..((m + 3) - 1) : h[i] \in Digits
                 PROVE  FALSE
      BY DEF Short
    <3>1. m + 2 \in (t + 1)..((m + 3) - 1)
      BY <2>1
    <3> QED BY <1>2, <3>1 DEF Digits
  <2>7. ~Ignored(h, m + 3)
    BY <1>2, <1>6, <2>1 DEF Ignored, StemIgnored
  <2>8. Len(h) <= MaxGoFileStem
    <3>1. Len(h) = m + 2
      BY <1>2
    <3> QED BY <1>1, <3>1, MaxGoFileStemAssumption
  <2>9. Portable(h)
    BY <1>4, <1>5, <2>4, <2>5, <2>6 DEF Portable
  <2> QED BY <1>2, <2>4, <2>7, <2>8, <2>9, ValidMeans DEF h
<1> QED BY <1>7, <1>8

(* What has been kept so far: valid characters, and no dot at the start or after
   a dot. *)
KeptOK(o) ==
  /\ o \in Name
  /\ \A i \in 1..Len(o) : o[i] # "invalid"
  /\ Len(o) >= 1 => o[1] # "."
  /\ \A i \in 2..Len(o) : o[i] = "." => o[i - 1] # "."

(* The loop body of sanitizeGoFileComponent keeps the names it may keep, and
   every character but a dot. *)
LEMMA KeepStep ==
  ASSUME NEW o, KeptOK(o), NEW t \in Tokens
  PROVE  /\ KeptOK(Keep(o, t))
         /\ Len(Keep(o, t)) >= Len(o)
         /\ \A i \in 1..Len(o) : Keep(o, t)[i] = o[i]
         /\ t \notin {"invalid", "."} => \E j \in 1..Len(Keep(o, t)) : Keep(o, t)[j] = t
<1> DEFINE n == Len(o)
           p == Append(o, t)
<1>1. n \in Nat /\ o \in Name /\ (o = <<>> <=> n = 0)
  BY DEF KeptOK, Name
<1>2. /\ p \in Name /\ Len(p) = n + 1
      /\ \A i \in 1..n : p[i] = o[i]
      /\ p[n + 1] = t
  BY <1>1, AppendElements
<1>3. CASE Keep(o, t) = o
  <2>1. ASSUME t \notin {"invalid", "."} PROVE FALSE
    <3>1. p = o
      BY <1>3, <2>1 DEF Keep, IsGoImportPathToken
    <3> HIDE DEF n, p
    <3>2. n = n + 1
      BY <1>2, <3>1 DEF n
    <3> QED BY <1>1, <3>2
  <2> QED BY <1>1, <1>3, <2>1
<1>4. CASE Keep(o, t) # o
  <2>1. Keep(o, t) = p /\ t # "invalid" /\ (t = "." => n # 0 /\ o[n] # ".")
    BY <1>1, <1>4 DEF Keep, IsGoImportPathToken, Last
  <2> HIDE DEF n, p
  <2>2. KeptOK(p)
    <3>1. ASSUME NEW i \in 1..(n + 1) PROVE p[i] # "invalid"
      <4>1. i = n + 1 \/ i \in 1..n
        BY <1>1
      <4>2. \A k \in 1..n : o[k] # "invalid"
        BY DEF KeptOK, n
      <4> QED BY <1>2, <2>1, <4>1, <4>2
    <3>2. p[1] # "."
      <4>1. CASE n = 0
        <5>1. n + 1 = 1
          BY <4>1
        <5> QED BY <1>2, <2>1, <4>1, <5>1
      <4>2. CASE n # 0
        <5>1. n >= 1 /\ 1 \in 1..n
          BY <1>1, <4>2
        <5> QED BY <1>2, <5>1 DEF KeptOK, n
      <4> QED BY <4>1, <4>2
    <3>3. ASSUME NEW i \in 2..(n + 1), p[i] = "." PROVE p[i - 1] # "."
      <4>1. CASE i = n + 1
        <5>1. i - 1 = n /\ n \in 1..n
          BY <1>1, <4>1
        <5> QED BY <1>2, <2>1, <3>3, <4>1, <5>1
      <4>2. CASE i # n + 1
        <5>1. i \in 2..n /\ i \in 1..n /\ i - 1 \in 1..n
          BY <1>1, <4>2
        <5>2. o[i] = "." => o[i - 1] # "."
          BY <5>1 DEF KeptOK, n
        <5> QED BY <1>2, <3>3, <5>1, <5>2
      <4> QED BY <4>1, <4>2
    <3> QED BY <1>2, <3>1, <3>2, <3>3 DEF KeptOK
  <2>3. n + 1 >= n /\ n + 1 \in 1..(n + 1)
    BY <1>1
  <2> QED BY <1>2, <2>1, <2>2, <2>3 DEF n
<1> QED BY <1>3, <1>4

(* Kept takes its steps one after the other. *)
LEMMA KeptRecursion ==
  ASSUME NEW v \in Name
  PROVE  \E f : /\ f \in [0..Len(v) -> Name] /\ f[0] = <<>>
                /\ \A i \in 1..Len(v) : f[i] = Keep(f[i - 1], v[i])
                /\ Kept(v) = f[Len(v)]
<1> DEFINE n == Len(v)
           G == CHOOSE g : g = [i \in 0..n |-> IF i = 0 THEN <<>> ELSE Keep(g[i - 1], v[i])]
           Step(i) == [o \in Name |-> Keep(o, v[i])]
           step == [i \in 1..n |-> Step(i)]
<1>1. n \in Nat /\ <<>> \in Name /\ \A i \in 1..n : v[i] \in Tokens
  BY DEF Name
<1> HIDE DEF n
<1>2. ASSUME NEW o \in Name, NEW t \in Tokens PROVE Keep(o, t) \in Name
  BY <1>2, AppendElements DEF Keep
<1>3. step \in [1..n -> [Name -> Name]]
  <2>1. \A i \in 1..n : Step(i) \in [Name -> Name]
    BY <1>1, <1>2
  <2> HIDE DEF Step
  <2> QED BY <2>1
<1>4. PICK f : Iterates(f, Name, <<>>, n, step)
  <2> HIDE DEF step
  <2> QED BY <1>1, <1>3, Iteration
<1>5. /\ f \in [0..n -> Name] /\ f[0] = <<>>
      /\ \A i \in 1..n : f[i] = Keep(f[i - 1], v[i])
  <2>1. f \in [0..n -> Name] /\ f[0] = <<>> /\ \A i \in 1..n : f[i] = step[i][f[i - 1]]
    BY <1>4 DEF Iterates
  <2>2. \A i \in 1..n : f[i - 1] \in Name
    <3>1. \A i \in 1..n : i - 1 \in 0..n
      BY <1>1
    <3> QED BY <2>1, <3>1
  <2>3. \A i \in 1..n : step[i][f[i - 1]] = Keep(f[i - 1], v[i])
    BY <2>2
  <2> QED BY <2>1, <2>3
<1>6. f = [i \in 0..n |-> IF i = 0 THEN <<>> ELSE Keep(f[i - 1], v[i])]
  <2>1. \A i \in 0..n : f[i] = IF i = 0 THEN <<>> ELSE Keep(f[i - 1], v[i])
    <3>1. \A i \in 0..n : i = 0 \/ i \in 1..n
      BY <1>1
    <3> QED BY <1>5, <3>1
  <2> QED BY <1>5, <2>1
<1>7. G = [i \in 0..n |-> IF i = 0 THEN <<>> ELSE Keep(G[i - 1], v[i])]
  BY <1>6
<1> HIDE DEF G
<1>8. G[0] = <<>> /\ \A i \in 1..n : G[i] = Keep(G[i - 1], v[i])
  <2>1. 0 \in 0..n /\ \A i \in 1..n : i \in 0..n /\ i # 0
    BY <1>1
  <2> QED BY <1>7, <2>1
<1>9. \A i \in 0..n : G[i] = f[i]
  <2> DEFINE S == {i \in 0..n : G[i] = f[i]}
  <2>1. 0 \in S
    BY <1>1, <1>5, <1>8
  <2>2. ASSUME NEW k \in 1..n, k - 1 \in S PROVE k \in S
    <3>1. k \in 0..n
      BY <1>1
    <3> QED BY <1>5, <1>8, <2>2, <3>1
  <2> HIDE DEF S
  <2>3. 0..n \subseteq S
    BY <1>1, <2>1, <2>2, BoundedInduction
  <2> QED BY <2>3 DEF S
<1>10. Kept(v) = G[n]
  BY DEF Kept, G, n
<1>11. Kept(v) = f[n]
  BY <1>1, <1>9, <1>10
<1> QED BY <1>5, <1>11 DEF n

(* What is kept of a name: every valid character but some dots, and all of a
   plain name. *)
LEMMA KeptElements ==
  ASSUME NEW v \in Name
  PROVE  /\ KeptOK(Kept(v))
         /\ \A i \in 1..Len(v) : v[i] \notin {"invalid", "."} =>
              \E j \in 1..Len(Kept(v)) : Kept(v)[j] = v[i]
         /\ Plain(v) => Kept(v) = v
<1> DEFINE n == Len(v)
<1>1. n \in Nat /\ \A i \in 1..n : v[i] \in Tokens
  BY DEF Name
<1>2. PICK f : /\ f \in [0..n -> Name] /\ f[0] = <<>>
               /\ \A i \in 1..n : f[i] = Keep(f[i - 1], v[i])
               /\ Kept(v) = f[n]
  BY KeptRecursion
<1> HIDE DEF n
<1> DEFINE Holds(o, t) == \E j \in 1..Len(o) : o[j] = t
           Good(k) == /\ KeptOK(f[k])
                      /\ \A i \in 1..k : v[i] \notin {"invalid", "."} => Holds(f[k], v[i])
           Same(k) == Len(f[k]) = k /\ \A i \in 1..k : f[k][i] = v[i]
           S == {k \in 0..n : Good(k)}
           T == {k \in 0..n : Same(k)}
<1>3. 0 \in S
  <2>1. KeptOK(<<>>)
    BY DEF KeptOK, Name
  <2> QED BY <1>1, <1>2, <2>1
<1>4. ASSUME NEW k \in 1..n, k - 1 \in S PROVE k \in S
  <2>1. k \in 0..n /\ v[k] \in Tokens /\ \A i \in 1..k : i = k \/ i \in 1..(k - 1)
    BY <1>1
  <2>2. Good(k - 1) /\ f[k] = Keep(f[k - 1], v[k])
    BY <1>2, <1>4
  <2> DEFINE o == f[k - 1]
  <2>0. KeptOK(o)
    BY <2>2
  <2> HIDE DEF o
  <2>3. /\ KeptOK(Keep(o, v[k])) /\ Len(Keep(o, v[k])) >= Len(o)
        /\ \A i \in 1..Len(o) : Keep(o, v[k])[i] = o[i]
        /\ v[k] \notin {"invalid", "."} => Holds(Keep(o, v[k]), v[k])
    <3> DEFINE t == v[k]
    <3>1. t \in Tokens
      BY <2>1
    <3> HIDE DEF t
    <3>2. /\ KeptOK(Keep(o, t)) /\ Len(Keep(o, t)) >= Len(o)
          /\ \A i \in 1..Len(o) : Keep(o, t)[i] = o[i]
          /\ t \notin {"invalid", "."} => Holds(Keep(o, t), t)
      BY <2>0, <3>1, KeepStep
    <3> QED BY <3>2 DEF t
  <2>4. \A t : Holds(o, t) => Holds(Keep(o, v[k]), t)
    <3>1. Len(o) \in Nat /\ Len(Keep(o, v[k])) \in Nat
      BY <2>2, <2>3 DEF KeptOK, Name, o
    <3>2. 1..Len(o) \subseteq 1..Len(Keep(o, v[k]))
      BY <2>3, <3>1
    <3> QED BY <2>3, <3>2
  <2> HIDE DEF Holds
  <2>5. Good(k)
    BY <2>1, <2>2, <2>3, <2>4 DEF o
  <2> HIDE DEF Good
  <2> QED BY <2>1, <2>5
<1>5. n \in S
  <2> HIDE DEF S
  <2>1. 0..n \subseteq S
    BY <1>1, <1>3, <1>4, BoundedInduction
  <2> QED BY <1>1, <2>1
<1>6. Good(n)
  BY <1>5
<1>7. ASSUME Plain(v) PROVE Kept(v) = v
  <2>1. 0 \in T
    <3>1. Len(f[0]) = 0
      BY <1>2
    <3> QED BY <1>1, <3>1
  <2>2. ASSUME NEW k \in 1..n, k - 1 \in T PROVE k \in T
    <3> DEFINE o == f[k - 1]
    <3>1. k \in 0..n /\ k - 1 \in Nat /\ k - 1 \in 0..n /\ (k - 1) + 1 = k /\ \A i \in 1..k : i = k \/ i \in 1..(k - 1)
      BY <1>1
    <3>2. Len(o) = k - 1 /\ (\A i \in 1..(k - 1) : o[i] = v[i]) /\ o \in Name
      BY <1>2, <2>2, <3>1
    <3>3. f[k] = Keep(o, v[k])
      BY <1>2
    <3> HIDE DEF o
    <3>4. v[k] # "invalid" /\ (v[k] = "." => k # 1 /\ v[k - 1] # ".")
      <4>1. v[k] # "invalid" /\ v[1] # "."
        BY <1>7 DEF Plain, n
      <4>2. k # 1 => k \in 2..n
        OBVIOUS
      <4>3. k # 1 /\ v[k] = "." => v[k - 1] # "."
        BY <1>7, <4>2 DEF Plain, n
      <4> QED BY <4>1, <4>3
    <3>5. v[k] = "." => o # <<>> /\ Last(o) # "."
      <4> SUFFICES ASSUME v[k] = "." PROVE o # <<>> /\ Last(o) # "."
        OBVIOUS
      <4>1. k # 1 /\ v[k - 1] # "."
        BY <3>4
      <4>2. k - 1 \in 1..(k - 1) /\ k - 1 # 0
        BY <3>1, <4>1
      <4>3. o[k - 1] = v[k - 1]
        BY <3>2, <4>2
      <4>4. Last(o) = o[k - 1]
        BY <3>2 DEF Last
      <4>5. o # <<>>
        <5>1. Len(o) # 0
          BY <3>2, <4>2
        <5> QED BY <5>1
      <4> QED BY <4>1, <4>3, <4>4, <4>5
    <3>6. f[k] = Append(o, v[k])
      BY <3>3, <3>4, <3>5 DEF Keep, IsGoImportPathToken
    <3>7. /\ Len(f[k]) = Len(o) + 1 /\ f[k][Len(o) + 1] = v[k]
          /\ \A i \in 1..Len(o) : f[k][i] = o[i]
      BY <1>1, <3>2, <3>6, AppendElements
    <3>8. Len(o) = k - 1 /\ Len(o) + 1 = k
      BY <3>1, <3>2
    <3>9. Same(k)
      BY <3>1, <3>2, <3>7, <3>8
    <3> HIDE DEF Same
    <3> QED BY <3>1, <3>9
  <2> HIDE DEF T
  <2>3. 0..n \subseteq T
    BY <1>1, <2>1, <2>2, BoundedInduction
  <2>4. n \in T
    BY <1>1, <2>3
  <2>5. Same(n) /\ f[n] \in Seq(Tokens) /\ v \in Seq(Tokens)
    BY <1>1, <1>2, <2>4 DEF T, Name
  <2>6. f[n] = v
    BY <2>5, SeqEqual DEF n
  <2> QED BY <1>2, <2>6
<1> QED BY <1>2, <1>6, <1>7 DEF n

(* Max of FiniteSetsExt, of numbers up to a bound. *)
LEMMA MaxUpto ==
  ASSUME NEW n \in Nat, NEW S \in SUBSET (0..n), S # {}
  PROVE  Max(S) \in S /\ \A i \in S : i <= Max(S)
<1> DEFINE T == {n - i : i \in S}
<1>1. T \in SUBSET Nat /\ T # {}
  <2>1. \A i \in 0..n : n - i \in Nat
    OBVIOUS
  <2>2. \A i \in S : n - i \in Nat
    BY <2>1
  <2>3. PICK i \in S : TRUE
    OBVIOUS
  <2>4. n - i \in T
    BY <2>3
  <2>5. \A k \in T : k \in Nat
    BY <2>2
  <2> QED BY <2>4, <2>5
<1> HIDE DEF T
<1>2. PICK m \in T : \A k \in T : m <= k
  BY <1>1, LeastNatural
<1>3. PICK x \in S : m = n - x
  BY <1>2 DEF T
<1>4. \A i \in S : x >= i
  <2> TAKE i \in S
  <2>1. n - i \in T
    BY DEF T
  <2>2. n - x <= n - i
    BY <1>2, <1>3, <2>1
  <2> QED BY <2>2
<1>5. Max(S) \in S /\ \A i \in S : Max(S) >= i
  BY <1>4 DEF Max
<1> QED BY <1>5

(* A plain name is not empty. *)
LEMMA PlainLength ==
  ASSUME NEW v, Plain(v)
  PROVE  v \in Name /\ Len(v) \in Nat /\ Len(v) >= 1 /\ v # <<>>
<1>1. v \in Name /\ Len(v) >= 1
  BY DEF Plain
<1> QED BY <1>1 DEF Name

(* Trimmed leaves a plain name, or nothing when there is no character a name
   can start with. *)
LEMMA TrimmedPlain ==
  ASSUME NEW k, KeptOK(k)
  PROVE  /\ \/ Plain(Trimmed(k))
            \/ Trimmed(k) = <<>> /\ \A i \in 1..Len(k) : k[i] \in {".", "_", "-"}
         /\ Plain(k) => Trimmed(k) = k
<1> DEFINE n == Len(k)
           A == {i \in DOMAIN k : k[i] \notin {".", "_", "-"}} \cup {n + 1}
           B == {i \in DOMAIN k : k[i] # "."} \cup {0}
           a == Min(A)
           b == Max(B)
<1>1. n \in Nat /\ DOMAIN k = 1..n /\ k \in Name
  BY DEF KeptOK, Name
<1> HIDE DEF n
<1>2. A \in SUBSET Nat /\ A # {} /\ B \in SUBSET (0..n) /\ B # {}
  <2>1. A \subseteq (1..n) \cup {n + 1} /\ n + 1 \in A
    BY <1>1
  <2>2. B \subseteq (1..n) \cup {0} /\ 0 \in B
    BY <1>1
  <2> HIDE DEF A, B
  <2>3. (1..n) \cup {n + 1} \subseteq Nat /\ (1..n) \cup {0} \subseteq 0..n
    BY <1>1
  <2> QED BY <2>1, <2>2, <2>3
<1> HIDE DEF A, B
<1>3. a \in A /\ \A i \in A : a <= i
  BY <1>2, MinNatural
<1>4. b \in B /\ \A i \in B : i <= b
  BY <1>1, <1>2, MaxUpto
<1>5. Trimmed(k) = SubSeq(k, a, b)
  BY DEF Trimmed, A, B, n
<1> HIDE DEF a, b
<1>6. a \in 1..(n + 1) /\ b \in 0..n
  <2>1. a \in (1..n) \cup {n + 1} /\ b \in (1..n) \cup {0}
    BY <1>1, <1>3, <1>4 DEF A, B
  <2> QED BY <1>1, <2>1
<1>7. a <= n => k[a] \notin {".", "_", "-"}
  <2> SUFFICES ASSUME a <= n PROVE k[a] \notin {".", "_", "-"}
    OBVIOUS
  <2>1. a # n + 1
    BY <1>1, <1>6
  <2> QED BY <1>3, <2>1 DEF A
<1>8. ASSUME NEW i \in 1..n, i < a PROVE k[i] \in {".", "_", "-"}
  <2>1. ~(a <= i)
    BY <1>6, <1>8
  <2> QED BY <1>1, <1>3, <2>1 DEF A
<1>9. b >= 1 => k[b] # "."
  BY <1>1, <1>4, <1>6 DEF B
<1>10. CASE a = n + 1
  <2>1. \A i \in 1..n : k[i] \in {".", "_", "-"}
    <3>1. \A i \in 1..n : i < a
      BY <1>1, <1>10
    <3> QED BY <1>8, <3>1
  <2>2. b < a
    BY <1>1, <1>6, <1>10
  <2>3. SubSeq(k, a, b) = <<>>
    BY <1>1, <1>6, <2>2 DEF Name
  <2>4. ~Plain(k)
    <3>1. n >= 1 => 1 \in 1..n
      BY <1>1
    <3> QED BY <2>1, <3>1 DEF Plain, n
  <2> QED BY <1>5, <2>1, <2>3, <2>4 DEF n
<1>11. CASE a # n + 1
  <2>1. a \in 1..n /\ a <= n
    BY <1>1, <1>6, <1>11
  <2>2. a <= b
    <3>1. a \in B
      BY <1>1, <1>7, <2>1 DEF B
    <3> QED BY <1>4, <3>1
  <2> DEFINE t == SubSeq(k, a, b)
             m == b - a + 1
  <2>3. t \in Name /\ Len(t) = m /\ \A i \in 1..m : t[i] = k[a + i - 1]
    BY <1>1, <1>6, <2>1, <2>2 DEF Name
  <2> HIDE DEF t
  <2>4. Plain(t)
    <3>1. m \in Nat /\ m >= 1 /\ 1 \in 1..m /\ m \in 1..m /\ a + m - 1 = b /\ a + 1 - 1 = a /\ b >= 1
          /\ \A i \in 1..m : a + i - 1 \in 1..n
      BY <1>1, <1>6, <2>1, <2>2
    <3> HIDE DEF m
    <3>2. t[1] = k[a] /\ t[m] = k[b]
      BY <2>3, <3>1
    <3>3. \A i \in 1..m : t[i] # "invalid"
      BY <2>3, <3>1 DEF KeptOK, n
    <3>4. ASSUME NEW i \in 2..m, t[i] = "." PROVE t[i - 1] # "."
      <4> DEFINE j == a + i - 1
      <4>1. i \in 1..m /\ i - 1 \in 1..m /\ j \in 2..n /\ a + (i - 1) - 1 = j - 1
        BY <1>1, <1>6, <2>1, <3>1
      <4>2. t[i] = k[j]
        BY <2>3, <4>1
      <4>3. t[i - 1] = k[a + (i - 1) - 1]
        BY <2>3, <4>1
      <4> HIDE DEF j
      <4>4. k[j] = "." => k[j - 1] # "."
        BY <4>1 DEF KeptOK, n
      <4> QED BY <3>4, <4>1, <4>2, <4>3, <4>4
    <3> QED BY <1>7, <1>9, <2>1, <2>3, <3>1, <3>2, <3>3, <3>4 DEF Plain
  <2>5. ASSUME Plain(k) PROVE t = k
    <3>1. a = 1
      <4>1. 1 \in A
        <5>1. 1 \in DOMAIN k
          BY <1>1, <2>1
        <5> QED BY <2>5, <5>1 DEF Plain, A
      <4>2. a <= 1
        BY <1>3, <4>1
      <4> QED BY <1>6, <4>2
    <3>2. b = n
      <4>1. n \in B
        <5>1. n \in DOMAIN k
          BY <1>1, <2>1
        <5> QED BY <2>5, <5>1 DEF Plain, B, n
      <4>2. n <= b
        BY <1>4, <4>1
      <4> QED BY <1>1, <1>6, <4>2
    <3>3. m = n /\ \A i \in 1..n : a + i - 1 = i
      BY <1>1, <3>1, <3>2
    <3> HIDE DEF m
    <3>4. Len(t) = n /\ \A i \in 1..n : t[i] = k[i]
      BY <2>3, <3>3
    <3>5. t \in Seq(Tokens) /\ k \in Seq(Tokens)
      BY <1>1, <2>3 DEF Name
    <3> QED BY <3>4, <3>5, SeqEqual DEF n
  <2> QED BY <1>5, <2>4, <2>5 DEF t
<1> QED BY <1>10, <1>11

(* A valid name is kept as it is. *)
LEMMA ValidKept ==
  ASSUME NEW v \in Name, validateGoFileComponent(v)
  PROVE  sanitizeGoFileComponent(v) = v
<1>1. Portable(v) /\ Len(v) <= MaxGoFileStem /\ ~Ignored(v, FirstDot(v))
  BY ValidMeans
<1>2. Plain(v) /\ Len(v) \in Nat
  BY <1>1, PlainLength DEF Portable
<1>3. Trimmed(Kept(v)) = v
  BY <1>2, KeptElements, TrimmedPlain
<1>4. makeNonReservedWindowsName(v) = v /\ makeNonWindowsShortName(v) = v /\ ~isGoSpecialDirectory(v)
  BY <1>1, ByPosition DEF makeNonReservedWindowsName, makeNonWindowsShortName, Portable, Special
<1>5. Neutralized(v) = v
  <2>1. Turn(v) = v
    BY <1>1, ByPosition DEF Turn
  <2> QED BY <2>1 DEF Neutralized
<1>6. ~(Len(v) > MaxGoFileStem)
  BY <1>1, <1>2, MaxGoFileStemAssumption
<1>7. v # <<>>
  BY <1>2, PlainLength
<1> QED BY <1>3, <1>4, <1>5, <1>6, <1>7 DEF sanitizeGoFileComponent

(* A derived name is valid, and is refused only when nothing may stand in it. *)
LEMMA DerivedName ==
  ASSUME NEW v \in Name
  PROVE  LET d == sanitizeGoFileComponent(v) IN
         /\ d # Refused => validateGoFileComponent(d)
         /\ d = Refused => Range(v) \subseteq {"invalid", ".", "_", "-"}
<1> DEFINE d == sanitizeGoFileComponent(v)
           t == Trimmed(Kept(v))
           named == makeNonWindowsShortName(makeNonReservedWindowsName(t))
           special == IF isGoSpecialDirectory(named) THEN Append(named, "_") ELSE named
           apart == Neutralized(special)
           short == IF Len(apart) > MaxGoFileStem THEN truncateASCIIWithHash(apart) ELSE apart
<1>1. d = IF t # <<>> /\ validateGoFileComponent(short) THEN short ELSE Refused
  BY DEF sanitizeGoFileComponent
<1> HIDE DEF d
<1>2. CASE Plain(t)
  <2>1. Portable(special)
    <3> HIDE DEF t
    <3> QED BY <1>2, PortableNames
  <2> HIDE DEF special
  <2>2. Portable(apart) /\ ~Ignored(apart, FirstDot(apart))
    BY <2>1, TurnStep, TwoTurns DEF Neutralized, Portable
  <2> HIDE DEF apart
  <2>3. validateGoFileComponent(short)
    <3>1. CASE Len(apart) > MaxGoFileStem
      BY <2>2, <3>1, Truncated
    <3>2. CASE ~(Len(apart) > MaxGoFileStem)
      <4>1. apart \in Name /\ Len(apart) \in Nat
        BY <2>2, PlainLength DEF Portable
      <4>2. Len(apart) <= MaxGoFileStem
        BY <3>2, <4>1, MaxGoFileStemAssumption
      <4> QED BY <2>2, <3>2, <4>1, <4>2, ValidMeans
    <3> QED BY <3>1, <3>2
  <2>4. short # Refused
    BY <2>3 DEF validateGoFileComponent, Refused
  <2>5. t # <<>>
    <3> HIDE DEF t
    <3> QED BY <1>2, PlainLength
  <2> HIDE DEF short, t
  <2> QED BY <1>1, <2>3, <2>4, <2>5 DEF d
<1>3. CASE ~Plain(t)
  <2>1. t = <<>> /\ \A i \in 1..Len(Kept(v)) : Kept(v)[i] \in {".", "_", "-"}
    BY <1>3, KeptElements, TrimmedPlain
  <2>2. ASSUME NEW i \in 1..Len(v) PROVE v[i] \in {"invalid", ".", "_", "-"}
    BY <2>1, KeptElements
  <2>3. Range(v) \subseteq {"invalid", ".", "_", "-"}
    <3>1. DOMAIN v = 1..Len(v)
      BY DEF Name
    <3> QED BY <2>2, <3>1 DEF Range
  <2> HIDE DEF t, short
  <2> QED BY <1>1, <2>1, <2>3 DEF d
<1> QED BY <1>2, <1>3

(* The invariant: the name is the one derived from the table. *)
NameInv ==
  /\ table.name \in Name /\ table.fileName \in Name
  /\ phase # "manifest" => fileName = EffectiveFileName(table.fileName, table.name)

(* The names of the inputs are sequences of tokens. *)
LEMMA NamesAreTokens ==
  ASSUME NEW i \in Inputs, NEW n \in i.names \cup i.fileNames
  PROVE  n \in Name
<1>1. Range(n) \subseteq Tokens
  <2>1. i.names \cup i.fileNames \in {j.names \cup j.fileNames : j \in Inputs}
    OBVIOUS
  <2>2. n \in UNION {j.names \cup j.fileNames : j \in Inputs}
    BY <2>1
  <2>3. Range(n) \in {Range(w) : w \in UNION {j.names \cup j.fileNames : j \in Inputs}}
    BY <2>2
  <2> QED BY <2>3 DEF Tokens
<1>2. n \in Seq(Range(n))
  BY GeneratedPackageAssumption
<1>3. n \in [1..Len(n) -> Range(n)] /\ Len(n) \in Nat
  BY <1>2
<1> HIDE DEF Range
<1>4. n \in [1..Len(n) -> Tokens]
  BY <1>1, <1>3
<1> QED BY <1>3, <1>4 DEF Name

(* The name derived for a table is always one validateGoFileComponent accepts,
   a valid name is kept as it is, and a name is refused only when nothing of it
   may stand in an import path, for names and limits of every length: no fix of
   sanitizeGoFileComponent undoes another, and neither does the hash. *)
THEOREM FileNamesAreValid == Spec => []FileNameIsValid
<1>1. Init => NameInv
  <2> SUFFICES ASSUME Init PROVE NameInv
    OBVIOUS
  <2>1. PICK i \in Inputs : \E type, goName, columns : \E n \in i.names, f \in i.fileNames :
          table = [type |-> type, goName |-> goName, columns |-> columns, name |-> n, fileName |-> f]
    <3>1. PICK i \in Inputs : \E n \in i.names, f \in i.fileNames :
            table = [type |-> i.table.type, goName |-> i.table.goName, columns |-> i.table.columns,
                     name |-> n, fileName |-> f]
      BY Zenon DEF Init
    <3> QED BY <3>1
  <2>2. table.name \in i.names /\ table.fileName \in i.fileNames
    BY <2>1
  <2>3. table.name \in Name /\ table.fileName \in Name
    <3>1. table.name \in i.names \cup i.fileNames /\ table.fileName \in i.names \cup i.fileNames
      BY <2>2
    <3> HIDE DEF Name
    <3> QED BY <3>1, NamesAreTokens
  <2>4. phase = "manifest"
    BY DEF Init
  <2> QED BY <2>3, <2>4 DEF NameInv
<1>2. NameInv /\ [Next]_vars => NameInv'
  <2> SUFFICES ASSUME NameInv, [Next]_vars PROVE NameInv'
    OBVIOUS
  <2>1. CASE Render
    BY <2>1 DEF Render, NameInv
  <2>2. CASE UNCHANGED input
    BY <2>2 DEF input, NameInv
  <2>3. [Next]_vars => Render \/ UNCHANGED input
    BY DEF Next, vars, input, Answer, SelectAll, SelectCols, Literal, Assign, Insert, InsertRow, InsertFails,
       Update, Delete, OtherInsert
  <2> QED BY <2>1, <2>2, <2>3
<1>3. NameInv => FileNameIsValid
  <2> SUFFICES ASSUME NameInv, phase # "manifest"
               PROVE  /\ fileName # Refused => validateGoFileComponent(fileName)
                      /\ table.fileName = <<>> =>
                           /\ validateGoFileComponent(table.name) => fileName = table.name
                           /\ fileName = Refused => Range(table.name) \subseteq {"invalid", ".", "_", "-"}
    BY DEF FileNameIsValid
  <2>1. fileName = EffectiveFileName(table.fileName, table.name) /\ table.name \in Name
    BY DEF NameInv
  <2>2. CASE table.fileName = <<>>
    <3>1. fileName = sanitizeGoFileComponent(table.name)
      BY <2>1, <2>2 DEF EffectiveFileName
    <3> QED BY <2>1, <3>1, DerivedName, ValidKept
  <2>3. CASE table.fileName # <<>>
    <3>1. fileName \in {table.fileName, Refused} /\ (fileName # Refused => validateGoFileComponent(fileName))
      BY <2>1, <2>3 DEF EffectiveFileName
    <3> QED BY <2>3, <3>1
  <2> QED BY <2>2, <2>3
<1> QED BY <1>1, <1>2, <1>3, PTL DEF Spec
=============================================================================
