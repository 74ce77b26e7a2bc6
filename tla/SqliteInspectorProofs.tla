----------------------- MODULE SqliteInspectorProofs ------------------------
(***************************************************************************)
(* Proofs about SqliteInspector, checked by TLAPS: whatever other          *)
(* processes do to the schema, and however often, an object that they do   *)
(* not touch is shown once and as it is, and what is shown of any other is *)
(* of moments in the order in which the code looks.                        *)
(*                                                                         *)
(* The invariant follows an object from the moment it is listed, over the  *)
(* moment its columns are read, to the one its indexes are read; moments   *)
(* are only added, so that what was true of some stays true.               *)
(***************************************************************************)
EXTENDS SqliteInspector, TLAPS

(* The definition of an object or a table at moment i.                     *)
DefAt(x, i) == moments[i][x.schema][x.name]
RowsAt(x, j) == XInfo(DefAt(x, j))

(* What was listed at moment i (inspectObjects).                           *)
ListedAt(object, i) ==
  /\ object.schema \in Databases /\ object.name \in Names \ Internal
  /\ Visible(DefAt(object, i))
  /\ object.type = TableType(DefAt(object, i).kind)
  /\ object.withoutRowID = ~DefAt(object, i).rowid

OfMoments(t, i, j, k) ==
  /\ i <= j /\ j <= k
  /\ t.schema \in Databases /\ t.name \in Names \ Internal
  /\ ShowsLooks(t, DefAt(t, i), DefAt(t, j), DefAt(t, k))

MomentsInv ==
  /\ schema \in Schemas
  /\ moments \in Seq(Schemas)
  /\ Len(moments) > 0
  /\ moments[Len(moments)] = schema

StepInv ==
  /\ step \in {"version", "databases", "objects", "columns", "index", "end"}
  /\ step \in {"columns", "index", "end"} => unlisted = {}
  /\ step = "end" => objects = {}
  /\ outcome = "returned" => step = "end"

ObjectsInv == \A object \in objects : \E i \in DOMAIN moments : ListedAt(object, i)

CurrentInv ==
  step = "index" =>
    \E i, j \in DOMAIN moments :
      /\ i <= j
      /\ ListedAt(current.object, i)
      /\ MayBeRowID(current.object, RowsAt(current.object, j))
      /\ current.columns = Columns(RowsAt(current.object, j))

TablesInv == \A t \in tables : \E i, j, k \in DOMAIN moments : OfMoments(t, i, j, k)

(* An object is still to be listed, or to be read, or is read.             *)
Kept(db, n) ==
  \/ step \in {"version", "databases"}
  \/ db \in unlisted
  \/ \E x \in objects \cup tables : x.schema = db /\ x.name = n
  \/ step = "index" /\ current.object.schema = db /\ current.object.name = n

AllTheTime(db, n) == \A i \in DOMAIN moments : Visible(moments[i][db][n])

KeptInv == \A db \in Databases, n \in Names \ Internal : AllTheTime(db, n) => Kept(db, n)

(* No object is listed, read or shown twice.                               *)
Same(x, y) == x.schema = y.schema /\ x.name = y.name

OnceInv ==
  /\ step \in {"version", "databases"} => objects = {} /\ tables = {}
  /\ \A x \in objects \cup tables : x.schema \notin unlisted
  /\ \A x, y \in objects : Same(x, y) => x = y
  /\ \A x, y \in tables : Same(x, y) => x = y
  /\ \A x \in objects, t \in tables : ~Same(x, t)
  /\ step = "index" => \A x \in objects \cup tables : ~Same(x, current.object)

IInv == MomentsInv /\ StepInv /\ ObjectsInv /\ CurrentInv /\ TablesInv /\ KeptInv /\ OnceInv

-----------------------------------------------------------------------------
(* Moments. *)

(* The last moment is now.                                                 *)
LEMMA Now ==
  ASSUME MomentsInv
  PROVE  /\ Len(moments) \in Nat /\ DOMAIN moments = 1 .. Len(moments)
         /\ Len(moments) \in DOMAIN moments /\ moments[Len(moments)] = schema
         /\ \A i \in DOMAIN moments : i \in Nat /\ i <= Len(moments)
BY DEF MomentsInv

(* What is there now is a definition that SQLite knows, or nothing.        *)
LEMMA Defined ==
  ASSUME MomentsInv, NEW db \in Databases, NEW n \in Names, NEW i \in DOMAIN moments
  PROVE  moments[i][db][n] \in Definitions \cup {None}
BY DEF MomentsInv, Schemas

(* Moments are only added.                                                 *)
PastKept == \A i \in DOMAIN moments : i \in DOMAIN moments' /\ moments'[i] = moments[i]

(* What is known of a moment stays known.                                  *)
LEMMA KnownStays ==
  ASSUME PastKept
  PROVE  /\ \A x : \A i \in DOMAIN moments : ListedAt(x, i) => ListedAt(x, i)'
         /\ \A x : \A i \in DOMAIN moments : RowsAt(x, i)' = RowsAt(x, i)
         /\ \A t : \A i, j, k \in DOMAIN moments : OfMoments(t, i, j, k) => OfMoments(t, i, j, k)'
<1>0. \A x : \A i \in DOMAIN moments : DefAt(x, i)' = DefAt(x, i)
  BY DEF PastKept, DefAt
<1>1. \A x : \A i \in DOMAIN moments : ListedAt(x, i)' = ListedAt(x, i)
  BY <1>0 DEF ListedAt
<1>2. \A x : \A i \in DOMAIN moments : RowsAt(x, i)' = RowsAt(x, i)
  BY <1>0 DEF RowsAt
<1>3. ASSUME NEW t, NEW i \in DOMAIN moments, NEW j \in DOMAIN moments, NEW k \in DOMAIN moments,
             OfMoments(t, i, j, k)
      PROVE  OfMoments(t, i, j, k)'
  BY <1>0, <1>3 DEF OfMoments
<1> QED BY <1>1, <1>2, <1>3

(* So the invariants of what is not touched are kept.                      *)
LEMMA ObjectsStay ==
  ASSUME PastKept, ObjectsInv, objects' \subseteq objects
  PROVE  ObjectsInv'
<1> SUFFICES ASSUME NEW object \in objects' PROVE \E i \in DOMAIN moments' : ListedAt(object, i)'
  BY DEF ObjectsInv
<1>1. PICK i \in DOMAIN moments : ListedAt(object, i)
  BY DEF ObjectsInv
<1>2. i \in DOMAIN moments' /\ ListedAt(object, i)'
  BY <1>1, KnownStays DEF PastKept
<1> QED BY <1>2

LEMMA TablesStay ==
  ASSUME PastKept, TablesInv, NEW t \in tables
  PROVE  \E i, j, k \in DOMAIN moments' : OfMoments(t, i, j, k)'
<1>1. PICK i, j, k \in DOMAIN moments : OfMoments(t, i, j, k)
  BY DEF TablesInv
<1>2. /\ i \in DOMAIN moments' /\ j \in DOMAIN moments' /\ k \in DOMAIN moments'
      /\ OfMoments(t, i, j, k)'
  BY <1>1, KnownStays DEF PastKept
<1> QED BY <1>2

LEMMA CurrentStays ==
  ASSUME PastKept, CurrentInv, UNCHANGED current, step' = "index" => step = "index"
  PROVE  CurrentInv'
<1> SUFFICES ASSUME step' = "index"
             PROVE  \E i, j \in DOMAIN moments' :
                      /\ i <= j
                      /\ ListedAt(current.object, i)'
                      /\ MayBeRowID(current.object, RowsAt(current.object, j)')
                      /\ current.columns = Columns(RowsAt(current.object, j)')
  BY DEF CurrentInv
<1>1. PICK i, j \in DOMAIN moments :
        /\ i <= j
        /\ ListedAt(current.object, i)
        /\ MayBeRowID(current.object, RowsAt(current.object, j))
        /\ current.columns = Columns(RowsAt(current.object, j))
  BY DEF CurrentInv
<1>2. i \in DOMAIN moments' /\ j \in DOMAIN moments'
  BY DEF PastKept
<1>3. ListedAt(current.object, i)' /\ RowsAt(current.object, j)' = RowsAt(current.object, j)
  BY <1>1, KnownStays
<1> QED BY <1>1, <1>2, <1>3

(* What was visible all the time was so before the last change.            *)
LEMMA KeptStays ==
  ASSUME PastKept, KeptInv,
         \A db \in Databases, n \in Names \ Internal : Kept(db, n) /\ AllTheTime(db, n)' => Kept(db, n)'
  PROVE  KeptInv'
BY DEF PastKept, KeptInv, AllTheTime

-----------------------------------------------------------------------------
(* Types. *)

(* The rules, one by one. *)
LEMMA Rules ==
  /\ DOMAIN TypeRules = 1 .. 15
  /\ TypeRules[1] = [has |-> {"=", "=ANY"}, type |-> "any"]
  /\ TypeRules[2] = [has |-> {"JSON"}, type |-> "json"]
  /\ TypeRules[3] = [has |-> {"UUID"}, type |-> "uuid"]
  /\ TypeRules[4] = [has |-> {"BIGINT"}, type |-> "bigint"]
  /\ TypeRules[5] = [has |-> {"SMALLINT"}, type |-> "smallint"]
  /\ TypeRules[6] = [has |-> {"TINYINT"}, type |-> "tinyint"]
  /\ TypeRules[7] = [has |-> {"INT"}, type |-> "integer"]
  /\ TypeRules[8] = [has |-> {"CHAR", "CLOB", "TEXT"}, type |-> "string"]
  /\ TypeRules[9] = [has |-> {"BLOB"}, type |-> "binary"]
  /\ TypeRules[10] = [has |-> {"REAL", "FLOA", "DOUB"}, type |-> "double"]
  /\ TypeRules[11] = [has |-> {"BOOL"}, type |-> "boolean"]
  /\ TypeRules[12] = [has |-> {"DATETIME", "TIMESTAMP"}, type |-> "datetime"]
  /\ TypeRules[13] = [has |-> {"=DATE"}, type |-> "date"]
  /\ TypeRules[14] = [has |-> {"=TIME"}, type |-> "time"]
  /\ TypeRules[15] = [has |-> {"DEC", "NUM"}, type |-> "decimal"]
BY DEF TypeRules

(* A set of rules that is not empty has a first one. *)
LEMMA FirstRule ==
  ASSUME NEW S, S \subseteq 1 .. 15, S # {}
  PROVE  Min(S) \in S /\ \A k \in 1 .. 15 : k < Min(S) => k \notin S
<1>1. ASSUME \A x \in S : \E y \in S : y < x PROVE FALSE
  <2>0. S \subseteq Int
    OBVIOUS
  <2>1. \A x \in 1 .. 5 : x \notin S
    BY <1>1
  <2>2. \A x \in 6 .. 10 : x \notin S
    BY <1>1, <2>1
  <2>3. \A x \in 11 .. 15 : x \notin S
    BY <1>1, <2>1, <2>2
  <2>4. \A x \in S : x \in 1 .. 5 \/ x \in 6 .. 10 \/ x \in 11 .. 15
    OBVIOUS
  <2> QED BY <2>1, <2>2, <2>3, <2>4
<1>2. \E x \in S : \A y \in S : x <= y
  <2>1. PICK x \in S : \A y \in S : ~(y < x)
    BY <1>1
  <2>2. \A y \in S : x <= y
    BY <2>1
  <2> QED BY <2>2
<1>3. Min(S) \in S /\ \A y \in S : Min(S) <= y
  BY <1>2 DEF Min
<1>4. Min(S) \in Int
  <2>1. \A x \in S : x \in Int
    OBVIOUS
  <2> QED BY <1>3, <2>1
<1>5. ASSUME NEW k \in 1 .. 15, k < Min(S), k \in S PROVE FALSE
  BY <1>3, <1>4, <1>5
<1> QED BY <1>3, <1>5

(* The type of a declared text holds the values of its affinity. *)
LEMMA TypeHolds ==
  ASSUME NEW declared,
         declared \cap {"BIGINT", "SMALLINT", "TINYINT"} # {} => "INT" \in declared,
         \A text \in {"=", "=ANY", "=DATE", "=TIME"} : text \in declared => declared = {text},
         declared \cap {"JSON", "UUID"} = {}
  PROVE  canonicalDataType(declared) \in Holds[Affinity(declared)]
<1> DEFINE matching == {k \in DOMAIN TypeRules : TypeRules[k].has \cap declared # {}}
           first == Min(matching)
<1>1. CASE matching = {}
  <2>1. declared \cap {"INT", "CHAR", "CLOB", "TEXT", "BLOB", "=", "REAL", "FLOA", "DOUB"} = {}
    BY <1>1, Rules
  <2>2. Affinity(declared) = "NUMERIC"
    BY <2>1 DEF Affinity
  <2>3. canonicalDataType(declared) = "native"
    BY <1>1 DEF canonicalDataType
  <2> QED BY <2>2, <2>3 DEF Holds
<1>2. CASE matching # {}
  <2>1. /\ first \in matching /\ first \in 1 .. 15
        /\ \A k \in 1 .. 15 : k < first => TypeRules[k].has \cap declared = {}
    <3>1. matching \subseteq 1 .. 15 /\ DOMAIN TypeRules = 1 .. 15
      BY Rules
    <3>2. first \in matching /\ \A k \in 1 .. 15 : k < first => k \notin matching
      BY <1>2, <3>1, FirstRule
    <3> QED BY <3>1, <3>2
  <2>2. canonicalDataType(declared) = TypeRules[first].type
    BY <1>2 DEF canonicalDataType
  <2>3. TypeRules[first].has \cap declared # {}
    BY <2>1
  <2> HIDE DEF first, matching
  <2>4. CASE first = 1
    <3>1. "=" \in declared \/ "=ANY" \in declared
      BY <2>3, <2>4, Rules
    <3>2. declared = {"="} \/ declared = {"=ANY"}
      BY <3>1
    <3>3. Affinity(declared) \in {"BLOB", "NUMERIC"}
      BY <3>2 DEF Affinity
    <3> QED BY <2>2, <2>4, <3>3, Rules DEF Holds
  <2>5. CASE first \in 2 .. 3
    BY <2>3, <2>5, Rules
  <2>6. CASE first \in 4 .. 7
    <3>1. "INT" \in declared
      BY <2>3, <2>6, Rules
    <3>2. Affinity(declared) = "INTEGER"
      BY <3>1 DEF Affinity
    <3> QED BY <2>2, <2>6, <3>2, Rules DEF Holds
  <2>7. ASSUME first \in 8 .. 15 PROVE "INT" \notin declared /\ "=" \notin declared
    <3>1. TypeRules[7].has \cap declared = {} /\ TypeRules[1].has \cap declared = {}
      BY <2>1, <2>7
    <3> QED BY <3>1, Rules
  <2>8. ASSUME first \in 9 .. 15 PROVE declared \cap {"CHAR", "CLOB", "TEXT"} = {}
    <3>1. TypeRules[8].has \cap declared = {}
      BY <2>1, <2>8
    <3> QED BY <3>1, Rules
  <2>9. ASSUME first \in 10 .. 15 PROVE "BLOB" \notin declared
    <3>1. TypeRules[9].has \cap declared = {}
      BY <2>1, <2>9
    <3> QED BY <3>1, Rules
  <2>10. ASSUME first \in 11 .. 15 PROVE declared \cap {"REAL", "FLOA", "DOUB"} = {}
    <3>1. TypeRules[10].has \cap declared = {}
      BY <2>1, <2>10
    <3> QED BY <3>1, Rules
  <2>11. CASE first = 8
    <3>1. Affinity(declared) = "TEXT"
      BY <2>3, <2>7, <2>11, Rules DEF Affinity
    <3> QED BY <2>2, <2>11, <3>1, Rules DEF Holds
  <2>12. CASE first = 9
    <3>1. Affinity(declared) = "BLOB"
      BY <2>3, <2>7, <2>8, <2>12, Rules DEF Affinity
    <3> QED BY <2>2, <2>12, <3>1, Rules DEF Holds
  <2>13. CASE first = 10
    <3>1. Affinity(declared) = "REAL"
      BY <2>3, <2>7, <2>8, <2>9, <2>13, Rules DEF Affinity
    <3> QED BY <2>2, <2>13, <3>1, Rules DEF Holds
  <2>14. CASE first \in 11 .. 15
    <3>1. Affinity(declared) = "NUMERIC"
      BY <2>7, <2>8, <2>9, <2>10, <2>14 DEF Affinity
    <3> QED BY <2>2, <2>14, <3>1, Rules DEF Holds
  <2> QED BY <2>1, <2>4, <2>5, <2>6, <2>11, <2>12, <2>13, <2>14
<1> QED BY <1>1, <1>2

-----------------------------------------------------------------------------
(* Columns. *)

(* Columns of a table whose key is the rowid, and of one whose key is not. *)
LEMMA ColumnFields ==
  ASSUME NEW rows, NEW c \in Columns(rows)
  PROVE  /\ c.ordinal \in Shown(rows)
         /\ c.name = rows[c.ordinal].name /\ c.key = rows[c.ordinal].key
         /\ c.default = rows[c.ordinal].default
         /\ c.type = canonicalDataType(rows[c.ordinal].declared)
<1>1. PICK k \in Shown(rows) : c = Column(rows[k], k)
  BY DEF Columns
<1> QED BY <1>1 DEF Column

LEMMA ColumnFlags ==
  ASSUME NEW rows, NEW c \in Columns(rows)
  PROVE  /\ c.generated = (rows[c.ordinal].hidden \in {2, 3})
         /\ c.nullable = ~rows[c.ordinal].notNull
         /\ c.identity = FALSE
<1>1. PICK k \in Shown(rows) : c = Column(rows[k], k)
  BY DEF Columns
<1> QED BY <1>1 DEF Column

LEMMA MarkedFields ==
  ASSUME NEW rows, NEW m \in WithIdentity(Columns(rows))
  PROVE  /\ m.ordinal \in Shown(rows)
         /\ m.name = rows[m.ordinal].name /\ m.key = rows[m.ordinal].key
         /\ m.generated = (rows[m.ordinal].hidden \in {2, 3})
         /\ m.default = rows[m.ordinal].default
         /\ m.type = canonicalDataType(rows[m.ordinal].declared)
         /\ m.nullable = (~rows[m.ordinal].notNull /\ ~m.identity)
         /\ m.identity = (rows[m.ordinal].key > 0)
<1>1. PICK c \in Columns(rows) :
        m = IF c.key > 0 THEN [c EXCEPT !.identity = TRUE, !.nullable = FALSE] ELSE c
  BY DEF WithIdentity
<1>2. PICK k \in Shown(rows) : c = Column(rows[k], k)
  BY DEF Columns
<1>3. c \in [name : {rows[k].name}, ordinal : {k}, nullable : BOOLEAN,
             type : {canonicalDataType(rows[k].declared)}, key : {rows[k].key},
             generated : BOOLEAN, default : {rows[k].default}, identity : BOOLEAN]
  BY <1>2 DEF Column
<1>4. CASE c.key > 0
  <2>1. m = [c EXCEPT !.identity = TRUE, !.nullable = FALSE]
    BY <1>1, <1>4
  <2>2. /\ m.ordinal = c.ordinal /\ m.name = c.name /\ m.key = c.key
        /\ m.generated = c.generated /\ m.default = c.default /\ m.type = c.type
        /\ m.nullable = FALSE /\ m.identity = TRUE
    BY <1>3, <2>1
  <2>3. c.key = rows[c.ordinal].key /\ rows[c.ordinal].key > 0
    BY <1>4, ColumnFields
  <2>4. m.nullable = (~rows[m.ordinal].notNull /\ ~m.identity)
    BY <2>2, Zenon
  <2>5. m.identity = (rows[m.ordinal].key > 0)
    BY <2>2, <2>3, Zenon
  <2>6. /\ m.ordinal \in Shown(rows)
        /\ m.name = rows[m.ordinal].name /\ m.key = rows[m.ordinal].key
        /\ m.default = rows[m.ordinal].default
        /\ m.type = canonicalDataType(rows[m.ordinal].declared)
    BY <2>2, ColumnFields
  <2>7. m.generated = (rows[m.ordinal].hidden \in {2, 3})
    BY <2>2, ColumnFlags, Zenon
  <2> QED BY <2>4, <2>5, <2>6, <2>7
<1>5. CASE ~(c.key > 0)
  <2>1. m = c
    BY <1>1, <1>5
  <2>2. /\ m.ordinal \in Shown(rows)
        /\ m.name = rows[m.ordinal].name /\ m.key = rows[m.ordinal].key
        /\ m.default = rows[m.ordinal].default
        /\ m.type = canonicalDataType(rows[m.ordinal].declared)
    BY <2>1, ColumnFields
  <2>3. ~(rows[m.ordinal].key > 0)
    BY <1>5, <2>1, <2>2
  <2>4. /\ m.generated = (rows[m.ordinal].hidden \in {2, 3})
        /\ m.nullable = ~rows[m.ordinal].notNull /\ m.identity = FALSE
    BY <2>1, ColumnFlags, Zenon
  <2>5. m.nullable = (~rows[m.ordinal].notNull /\ ~m.identity)
    BY <2>4, Zenon
  <2>6. m.identity = (rows[m.ordinal].key > 0)
    <3>1. (rows[m.ordinal].key > 0) = FALSE
      BY <2>3
    <3> QED BY <2>4, <3>1, Zenon
  <2> QED BY <2>2, <2>4, <2>5, <2>6
<1> QED BY <1>4, <1>5

(* Every row that is shown has its column.                                 *)
LEMMA AllShown ==
  ASSUME NEW rows
  PROVE  /\ {c.ordinal : c \in Columns(rows)} = Shown(rows)
         /\ {m.ordinal : m \in WithIdentity(Columns(rows))} = Shown(rows)
<1>1. ASSUME NEW k \in Shown(rows) PROVE \E c \in Columns(rows) : c.ordinal = k
  <2>1. Column(rows[k], k) \in Columns(rows)
    BY DEF Columns
  <2>2. Column(rows[k], k).ordinal = k
    BY DEF Column
  <2> QED BY <2>1, <2>2
<1>2. \A k \in Shown(rows) : \E m \in WithIdentity(Columns(rows)) : m.ordinal = k
  <2> SUFFICES ASSUME NEW k \in Shown(rows)
               PROVE  \E m \in WithIdentity(Columns(rows)) : m.ordinal = k
    OBVIOUS
  <2>1. PICK c \in Columns(rows) : c.ordinal = k
    BY <1>1
  <2>2. CASE c.key > 0
    <3>1. [c EXCEPT !.identity = TRUE, !.nullable = FALSE] \in WithIdentity(Columns(rows))
      BY <2>2 DEF WithIdentity
    <3>2. PICK k1 \in Shown(rows) : c = Column(rows[k1], k1)
      BY DEF Columns
    <3>3. [c EXCEPT !.identity = TRUE, !.nullable = FALSE].ordinal = c.ordinal
      BY <3>2 DEF Column
    <3> QED BY <2>1, <3>1, <3>3
  <2>3. CASE ~(c.key > 0)
    BY <2>1, <2>3 DEF WithIdentity
  <2> QED BY <2>2, <2>3
<1>3. \A c \in Columns(rows) : c.ordinal \in Shown(rows)
  BY ColumnFields
<1>4. \A m \in WithIdentity(Columns(rows)) : m.ordinal \in Shown(rows)
  BY MarkedFields
<1> QED BY <1>1, <1>2, <1>3, <1>4

-----------------------------------------------------------------------------
(* Tables. *)

(* What is made of an object whose definition was a when it was listed, b   *)
(* when its columns were read and d when its indexes were.                  *)
LEMMA Looks ==
  ASSUME NEW a, Visible(a), NEW b \in Definitions \cup {None}, NEW d,
         NEW object, object.type = TableType(a.kind), object.withoutRowID = ~a.rowid,
         NEW t, t.type = object.type,
         t.columns = IF MayBeRowID(object, XInfo(b)) /\ ~ListsKeyIndex(d)
                     THEN WithIdentity(Columns(XInfo(b))) ELSE Columns(XInfo(b))
  PROVE  ShowsLooks(t, a, b, d)
<1> DEFINE rows == XInfo(b)
           marked == MayBeRowID(object, rows) /\ ~ListsKeyIndex(d)
           Sound(columns) ==
             \A k \in DOMAIN columns :
               /\ columns[k].hidden \in 0 .. 3
               /\ columns[k].hidden = 1 => ~(columns[k].key > 0)
               /\ columns[k].declared \cap {"BIGINT", "SMALLINT", "TINYINT"} # {}
                    => "INT" \in columns[k].declared
               /\ \A text \in {"=", "=ANY", "=DATE", "=TIME"} :
                    text \in columns[k].declared => columns[k].declared = {text}
<1>1. t.columns = IF marked THEN WithIdentity(Columns(rows)) ELSE Columns(rows)
  OBVIOUS
<1>2. Sound(rows)
  <2>1. CASE b \in Definitions
    <3>1. ASSUME NEW k \in DOMAIN b.columns
          PROVE  /\ b.columns[k].hidden \in 0 .. 3
                 /\ b.columns[k].hidden = 1 => b.kind = "virtual"
                 /\ b.columns[k].key > 0 => b.kind \in {"table", "shadow"}
                 /\ b.columns[k].declared \cap {"BIGINT", "SMALLINT", "TINYINT"} # {}
                      => "INT" \in b.columns[k].declared
                 /\ \A text \in {"=", "=ANY", "=DATE", "=TIME"} :
                      text \in b.columns[k].declared => b.columns[k].declared = {text}
      BY <2>1, DefinitionsAssumption, Zenon
    <3>2. ASSUME NEW k \in DOMAIN b.columns, b.columns[k].hidden = 1
          PROVE  ~(b.columns[k].key > 0)
      BY <3>1, <3>2
    <3>3. Sound(b.columns)
      BY <3>1, <3>2, Zenon
    <3>4. rows = b.columns
      BY <2>1, NamesAssumption DEF XInfo
    <3> HIDE DEF Sound, rows
    <3> QED BY <3>3, <3>4
  <2>2. CASE b = None
    BY <2>2 DEF XInfo
  <2> QED BY <2>1, <2>2
<1>3. ASSUME NEW k \in Shown(rows), rows[k].key > 0
      PROVE  marked = (/\ a.rowid
                       /\ KeyOf(rows) = {k}
                       /\ "=INTEGER" \in rows[k].declared
                       /\ ~ListsKeyIndex(d))
  <2>1. KeyOf(rows) \cap Shown(rows) = KeyOf(rows) /\ k \in KeyOf(rows)
    BY <1>2, <1>3 DEF Shown, KeyOf
  <2> HIDE DEF rows
  <2>2. MayBeRowID(object, rows)
          <=> a.rowid /\ KeyOf(rows) = {k} /\ "=INTEGER" \in rows[k].declared
    BY <1>3, <2>1 DEF MayBeRowID
  <2> QED BY <2>2
<1>4. {c.ordinal : c \in t.columns} = {k \in DOMAIN rows : rows[k].hidden # 1}
  BY <1>1, AllShown DEF Shown
<1>5. ASSUME NEW c \in t.columns
      PROVE  /\ c.name = rows[c.ordinal].name /\ c.key = rows[c.ordinal].key
             /\ c.generated = (rows[c.ordinal].hidden # 0)
             /\ c.default = rows[c.ordinal].default
             /\ rows[c.ordinal].declared \cap {"JSON", "UUID"} # {}
                  \/ c.type \in Holds[Affinity(rows[c.ordinal].declared)]
             /\ c.identity = (/\ a.rowid
                              /\ KeyOf(rows) = {c.ordinal}
                              /\ "=INTEGER" \in rows[c.ordinal].declared
                              /\ ~ListsKeyIndex(d))
             /\ c.nullable = (~rows[c.ordinal].notNull /\ ~c.identity)
  <2>1. /\ c.ordinal \in Shown(rows)
        /\ c.name = rows[c.ordinal].name /\ c.key = rows[c.ordinal].key
        /\ c.generated = (rows[c.ordinal].hidden \in {2, 3})
        /\ c.default = rows[c.ordinal].default
        /\ c.type = canonicalDataType(rows[c.ordinal].declared)
        /\ c.nullable = (~rows[c.ordinal].notNull /\ ~c.identity)
        /\ c.identity = (rows[c.ordinal].key > 0 /\ marked)
    <3> HIDE DEF rows, marked
    <3>1. CASE marked
      BY <1>1, <1>5, <3>1, MarkedFields
    <3>2. CASE ~marked
      <4>1. c \in Columns(rows)
        BY <1>1, <1>5, <3>2
      <4>2. /\ c.ordinal \in Shown(rows)
            /\ c.name = rows[c.ordinal].name /\ c.key = rows[c.ordinal].key
            /\ c.default = rows[c.ordinal].default
            /\ c.type = canonicalDataType(rows[c.ordinal].declared)
        BY <4>1, ColumnFields
      <4>3. /\ c.generated = (rows[c.ordinal].hidden \in {2, 3})
            /\ c.nullable = ~rows[c.ordinal].notNull /\ c.identity = FALSE
        BY <4>1, ColumnFlags, Zenon
      <4>4. c.nullable = (~rows[c.ordinal].notNull /\ ~c.identity)
        BY <4>3, Zenon
      <4>5. c.identity = (rows[c.ordinal].key > 0 /\ marked)
        BY <3>2, <4>3, Zenon
      <4> QED BY <4>2, <4>3, <4>4, <4>5
    <3> QED BY <3>1, <3>2
  <2> DEFINE row == rows[c.ordinal]
  <2>2. c.ordinal \in DOMAIN rows /\ row.hidden # 1 /\ row.hidden \in 0 .. 3
    BY <1>2, <2>1 DEF Shown
  <2>3. c.generated = (row.hidden # 0)
    BY <2>1, <2>2
  <2>4. row.declared \cap {"JSON", "UUID"} # {} \/ c.type \in Holds[Affinity(row.declared)]
    <3>1. /\ row.declared \cap {"BIGINT", "SMALLINT", "TINYINT"} # {} => "INT" \in row.declared
          /\ \A text \in {"=", "=ANY", "=DATE", "=TIME"} : text \in row.declared => row.declared = {text}
      BY <1>2, <2>2
    <3> HIDE DEF row
    <3>2. row.declared \cap {"JSON", "UUID"} = {}
            => canonicalDataType(row.declared) \in Holds[Affinity(row.declared)]
      BY <3>1, TypeHolds
    <3> QED BY <2>1, <3>2 DEF row
  <2>5. c.identity = (/\ a.rowid /\ KeyOf(rows) = {c.ordinal}
                      /\ "=INTEGER" \in row.declared /\ ~ListsKeyIndex(d))
    <3>1. CASE row.key > 0
      <4> HIDE DEF marked, rows
      <4> QED BY <1>3, <2>1, <3>1
    <3>2. CASE ~(row.key > 0)
      <4>1. KeyOf(rows) # {c.ordinal}
        BY <3>2 DEF KeyOf
      <4> HIDE DEF marked, rows
      <4> QED BY <2>1, <3>2, <4>1
    <3> QED BY <3>1, <3>2
  <2> QED BY <2>1, <2>3, <2>4, <2>5
<1>6. t.type = IF a.kind = "view" THEN "VIEW" ELSE "BASE TABLE"
  BY DEF TableType
<1> HIDE DEF marked, Sound
<1> QED BY <1>4, <1>5, <1>6, Zenon DEF ShowsLooks

(* The object that was listed at i, and a table made of it.                 *)
LEMMA LooksAt ==
  ASSUME MomentsInv, NEW object, NEW t,
         t.schema = object.schema, t.name = object.name, t.type = object.type,
         NEW i \in DOMAIN moments, ListedAt(object, i),
         NEW j \in DOMAIN moments, NEW k \in DOMAIN moments, i <= j, j <= k,
         t.columns = IF MayBeRowID(object, RowsAt(object, j)) /\ ~ListsKeyIndex(DefAt(object, k))
                     THEN WithIdentity(Columns(RowsAt(object, j))) ELSE Columns(RowsAt(object, j))
  PROVE  OfMoments(t, i, j, k)
<1>1. /\ DefAt(t, i) = DefAt(object, i)
      /\ DefAt(t, j) = DefAt(object, j)
      /\ DefAt(t, k) = DefAt(object, k)
  BY DEF DefAt
<1>2. DefAt(object, j) \in Definitions \cup {None}
  BY Defined DEF DefAt, ListedAt
<1>3. ShowsLooks(t, DefAt(object, i), DefAt(object, j), DefAt(object, k))
  BY <1>2, Looks DEF ListedAt, RowsAt
<1> QED BY <1>1, <1>3 DEF OfMoments, ListedAt

(* A table whose columns are read now, and whose indexes do not matter.     *)
LEMMA TableRead ==
  ASSUME MomentsInv, ObjectsInv, NEW object \in objects, ~MayBeRowID(object, Rows(object)),
         NEW t, t = Table(object, Columns(Rows(object)))
  PROVE  \E i, j, k \in DOMAIN moments : OfMoments(t, i, j, k)
<1>1. PICK i \in DOMAIN moments : ListedAt(object, i)
  BY DEF ObjectsInv
<1>2. i <= Len(moments) /\ Len(moments) <= Len(moments) /\ Len(moments) \in DOMAIN moments
  BY Now
<1>3. RowsAt(object, Len(moments)) = Rows(object)
  BY Now DEF RowsAt, DefAt, Rows
<1>4. /\ t.schema = object.schema /\ t.name = object.name /\ t.type = object.type
      /\ t.columns = Columns(Rows(object))
  BY DEF Table
<1> DEFINE now == Len(moments)
<1>5. /\ now \in DOMAIN moments /\ i <= now /\ now <= now
      /\ RowsAt(object, now) = Rows(object)
  BY <1>2, <1>3
<1> HIDE DEF now
<1>6. OfMoments(t, i, now, now)
  BY <1>1, <1>4, <1>5, LooksAt
<1> QED BY <1>5, <1>6

(* A table whose indexes are read now.                                      *)
LEMMA TableIndexed ==
  ASSUME MomentsInv, CurrentInv, step = "index", NEW t,
         t = Table(current.object, IF hasPrimaryKeyIndex(current.object) THEN current.columns
                                   ELSE WithIdentity(current.columns))
  PROVE  \E i, j, k \in DOMAIN moments : OfMoments(t, i, j, k)
<1> DEFINE now == Len(moments)
           object == current.object
<1>1. PICK i, j \in DOMAIN moments :
        /\ i <= j
        /\ ListedAt(object, i)
        /\ MayBeRowID(object, RowsAt(object, j))
        /\ current.columns = Columns(RowsAt(object, j))
  BY DEF CurrentInv
<1>2. j <= now /\ now \in DOMAIN moments /\ moments[now] = schema
  BY Now
<1>3. hasPrimaryKeyIndex(object) = ListsKeyIndex(DefAt(object, now))
  BY <1>2 DEF hasPrimaryKeyIndex, DefAt
<1>4. /\ t.schema = object.schema /\ t.name = object.name /\ t.type = object.type
      /\ t.columns = IF hasPrimaryKeyIndex(object) THEN current.columns
                     ELSE WithIdentity(current.columns)
  BY DEF Table
<1> HIDE DEF now, object
<1>5. t.columns = IF MayBeRowID(object, RowsAt(object, j)) /\ ~ListsKeyIndex(DefAt(object, now))
                  THEN WithIdentity(Columns(RowsAt(object, j))) ELSE Columns(RowsAt(object, j))
  BY <1>1, <1>3, <1>4
<1>6. OfMoments(t, i, j, now)
  BY <1>1, <1>2, <1>4, <1>5, LooksAt
<1> QED BY <1>2, <1>6

-----------------------------------------------------------------------------
(* Steps. *)

(* A step of the inspector: the schema and its past stay.                  *)
LEMMA SameSchema ==
  ASSUME MomentsInv, UNCHANGED <<schema, moments>>
  PROVE  /\ MomentsInv' /\ PastKept
         /\ \A db, n : AllTheTime(db, n)' = AllTheTime(db, n)
BY DEF MomentsInv, PastKept, AllTheTime

(* The steps before the objects, the end, and an interruption.             *)
LEMMA FrameStep ==
  ASSUME IInv, CheckVersion \/ inspectDatabases \/ Finish \/ Interrupted \/ UNCHANGED vars
  PROVE  IInv'
<1> USE DEF IInv
<1>1. UNCHANGED <<schema, moments, objects, current, tables>>
  BY DEF CheckVersion, inspectDatabases, Finish, Interrupted, locals, vars
<1>2. MomentsInv' /\ PastKept
  BY <1>1, SameSchema
<1>3. step' = "index" => step = "index"
  BY DEF CheckVersion, inspectDatabases, Finish, Interrupted, locals, vars, At
<1>4. ObjectsInv' /\ CurrentInv'
  BY <1>1, <1>2, <1>3, ObjectsStay, CurrentStays
<1>5. TablesInv'
  BY <1>1, <1>2, TablesStay DEF TablesInv
<1>6. StepInv'
  BY DEF StepInv, CheckVersion, inspectDatabases, Finish, Interrupted, locals, vars, At
<1>7. ASSUME NEW db \in Databases, NEW n \in Names \ Internal, Kept(db, n) PROVE Kept(db, n)'
  BY <1>1, <1>7 DEF Kept, CheckVersion, inspectDatabases, Finish, Interrupted, locals, vars, At
<1>8. KeptInv'
  BY <1>2, <1>7, KeptStays
<1>9. OnceInv'
  <2>1. step' \in {"version", "databases"} => step \in {"version", "databases"}
    BY DEF CheckVersion, inspectDatabases, Finish, Interrupted, locals, vars, At
  <2>2. unlisted' = unlisted \/ (objects = {} /\ tables = {})
    <3>1. CASE inspectDatabases
      BY <3>1 DEF OnceInv, inspectDatabases, At
    <3>2. CASE CheckVersion \/ Finish \/ Interrupted \/ UNCHANGED vars
      BY <3>2 DEF CheckVersion, Finish, Interrupted, locals, vars
    <3> QED BY <3>1, <3>2
  <2>3. \A x \in objects' \cup tables' : x.schema \notin unlisted'
    BY <1>1, <2>2 DEF OnceInv
  <2>4. step' = "index" => \A x \in objects \cup tables : ~Same(x, current.object)
    BY <1>3 DEF OnceInv
  <2>5. step' = "index" => \A x \in objects' \cup tables' : ~Same(x, current.object)'
    BY <1>1, <2>4 DEF Same
  <2> QED BY <1>1, <2>1, <2>3, <2>5 DEF OnceInv
<1> QED BY <1>2, <1>4, <1>5, <1>6, <1>8, <1>9

(* The objects of a database are listed.                                   *)
LEMMA ListStep ==
  ASSUME IInv, NEW b \in Databases, inspectObjects(b)
  PROVE  IInv'
<1> USE DEF IInv
<1> DEFINE new == {Object(b, n) : n \in {n \in Names \ Internal : Listed(schema[b][n])}}
<1>1. /\ UNCHANGED <<schema, moments, current, tables>>
      /\ objects' = objects \cup new
      /\ unlisted' = unlisted \ {b}
      /\ step = "objects" /\ step' \in {"objects", "columns"}
  BY DEF inspectObjects, At
<1>2. MomentsInv' /\ PastKept
  BY <1>1, SameSchema
<1>3. ASSUME NEW object \in objects' PROVE \E i \in DOMAIN moments' : ListedAt(object, i)'
  <2>1. CASE object \in objects
    <3>1. PICK i \in DOMAIN moments : ListedAt(object, i)
      BY <2>1 DEF ObjectsInv
    <3>2. i \in DOMAIN moments' /\ ListedAt(object, i)'
      BY <1>2, <3>1, KnownStays DEF PastKept
    <3> QED BY <3>2
  <2>2. CASE object \in new
    <3>1. PICK n \in Names \ Internal : object = Object(b, n) /\ Listed(schema[b][n])
      BY <2>2
    <3>2. /\ object.schema = b /\ object.name = n /\ object.type = TableType(schema[b][n].kind)
          /\ object.withoutRowID = ~schema[b][n].rowid
      BY <3>1 DEF Object
    <3>3. Visible(schema[b][n])
      BY <3>1 DEF Listed, Visible
    <3>4. Len(moments) \in DOMAIN moments /\ moments[Len(moments)] = schema
      BY Now
    <3>5. ListedAt(object, Len(moments))
      BY <3>2, <3>3, <3>4 DEF ListedAt, DefAt
    <3>6. Len(moments) \in DOMAIN moments' /\ ListedAt(object, Len(moments))'
      BY <1>1, <3>4, <3>5 DEF ListedAt, DefAt
    <3> QED BY <3>6
  <2> QED BY <1>1, <2>1, <2>2
<1>4. ObjectsInv'
  BY <1>3 DEF ObjectsInv
<1>5. CurrentInv'
  BY <1>1 DEF CurrentInv
<1>6. TablesInv'
  BY <1>1, <1>2, TablesStay DEF TablesInv
<1>7. StepInv'
  BY DEF StepInv, inspectObjects, At
<1>8. ASSUME NEW db \in Databases, NEW n \in Names \ Internal, Kept(db, n), AllTheTime(db, n)'
      PROVE  Kept(db, n)'
  <2>1. CASE db = b
    <3>1. Visible(schema[b][n])
      BY <1>1, <1>8, <2>1, Now DEF AllTheTime
    <3>2. schema[b][n] \in Definitions \cup {None}
      BY Now, Defined
    <3>3. Listed(schema[b][n])
      BY <3>1, <3>2, DefinitionsAssumption DEF Listed, Visible
    <3>4. Object(b, n) \in objects' /\ Object(b, n).schema = db /\ Object(b, n).name = n
      BY <1>1, <2>1, <3>3 DEF Object
    <3> QED BY <3>4 DEF Kept
  <2>2. CASE db # b
    <3> HIDE DEF new
    <3> QED BY <1>1, <1>8, <2>2 DEF Kept
  <2> QED BY <2>1, <2>2
<1>9. KeptInv'
  BY <1>2, <1>8, KeptStays
<1>10. OnceInv'
  <2>1. b \in unlisted
    BY DEF inspectObjects
  <2>2. ASSUME NEW x \in new PROVE x.schema = b
    BY DEF Object
  <2>3. ASSUME NEW x \in new, NEW y \in new, Same(x, y) PROVE x = y
    <3>1. PICK n \in Names \ Internal : x = Object(b, n)
      OBVIOUS
    <3>2. PICK m \in Names \ Internal : y = Object(b, m)
      OBVIOUS
    <3>3. n = m
      BY <2>3, <3>1, <3>2 DEF Object, Same
    <3> QED BY <3>1, <3>2, <3>3
  <2>4. ASSUME NEW x \in new, NEW y \in objects \cup tables PROVE ~Same(x, y) /\ ~Same(y, x)
    <3>1. y.schema \notin unlisted
      BY DEF OnceInv
    <3> QED BY <2>1, <2>2, <3>1 DEF Same
  <2> HIDE DEF new
  <2>5. \A x \in objects' \cup tables' : x.schema \notin unlisted'
    BY <1>1, <2>2 DEF OnceInv
  <2>6. \A x, y \in objects' : Same(x, y) => x = y
    BY <1>1, <2>3, <2>4 DEF OnceInv
  <2>7. \A x \in objects', t \in tables' : ~Same(x, t)
    BY <1>1, <2>4 DEF OnceInv
  <2> QED BY <1>1, <2>5, <2>6, <2>7 DEF OnceInv
<1> QED BY <1>2, <1>4, <1>5, <1>6, <1>7, <1>9, <1>10

(* The columns of an object are read.                                      *)
LEMMA ColumnsStep ==
  ASSUME IInv, NEW object \in objects, inspectColumns(object),
         NEW t, t = Table(object, Columns(Rows(object)))
  PROVE  IInv'
<1> USE DEF IInv
<1>1. /\ UNCHANGED <<schema, moments, unlisted, outcome>>
      /\ objects' = objects \ {object}
      /\ step = "columns" /\ outcome = "reading"
  BY DEF inspectColumns, At
<1>2. \/ /\ MayBeRowID(object, Rows(object)) /\ step' = "index"
         /\ current' = [object |-> object, columns |-> Columns(Rows(object))]
         /\ UNCHANGED tables
      \/ /\ ~MayBeRowID(object, Rows(object)) /\ tables' = tables \cup {t}
         /\ UNCHANGED <<step, current>>
  BY DEF inspectColumns
<1>3. MomentsInv' /\ PastKept
  BY <1>1, SameSchema
<1>4. ObjectsInv'
  BY <1>1, <1>3, ObjectsStay
<1>5. StepInv'
  BY <1>1, <1>2 DEF StepInv
<1>6. CurrentInv'
  <2>1. CASE step' = "index"
    <3>1. MayBeRowID(object, Rows(object)) /\ current'.object = object
          /\ current'.columns = Columns(Rows(object))
      BY <1>1, <1>2, <2>1
    <3>2. PICK i \in DOMAIN moments : ListedAt(object, i)
      BY DEF ObjectsInv
    <3>3. i <= Len(moments) /\ Len(moments) \in DOMAIN moments /\ moments[Len(moments)] = schema
      BY Now
    <3>4. RowsAt(object, Len(moments)) = Rows(object)
      BY <3>3 DEF RowsAt, DefAt, Rows
    <3>5. /\ i \in DOMAIN moments' /\ Len(moments) \in DOMAIN moments' /\ ListedAt(object, i)'
          /\ RowsAt(object, Len(moments))' = Rows(object)
      BY <1>1, <1>3, <3>2, <3>3, <3>4, KnownStays DEF PastKept
    <3>6. /\ ListedAt(current.object, i)' /\ RowsAt(current.object, Len(moments))' = Rows(object)
      BY <3>1, <3>5 DEF ListedAt, RowsAt, DefAt
    <3>7. \E i_1, j_1 \in DOMAIN moments' :
            /\ i_1 <= j_1
            /\ ListedAt(current.object, i_1)'
            /\ MayBeRowID(current'.object, RowsAt(current.object, j_1)')
            /\ current'.columns = Columns(RowsAt(current.object, j_1)')
      BY <3>1, <3>3, <3>5, <3>6
    <3> QED BY <3>7 DEF CurrentInv
  <2>2. CASE step' # "index"
    BY <2>2 DEF CurrentInv
  <2> QED BY <2>1, <2>2
<1>7. TablesInv'
  <2>1. CASE MayBeRowID(object, Rows(object))
    BY <1>2, <1>3, <2>1, TablesStay DEF TablesInv
  <2>2. CASE ~MayBeRowID(object, Rows(object))
    <3>1. \E i, j, k \in DOMAIN moments : OfMoments(t, i, j, k)
      BY <2>2, TableRead
    <3>2. PICK i, j, k \in DOMAIN moments : OfMoments(t, i, j, k)
      BY <3>1
    <3>3. /\ i \in DOMAIN moments' /\ j \in DOMAIN moments' /\ k \in DOMAIN moments'
          /\ OfMoments(t, i, j, k)'
      BY <1>3, <3>2, KnownStays DEF PastKept
    <3> QED BY <1>2, <1>3, <3>3, TablesStay DEF TablesInv
  <2> QED BY <2>1, <2>2
<1>8. ASSUME NEW db \in Databases, NEW n \in Names \ Internal, Kept(db, n) PROVE Kept(db, n)'
  <2>1. t.schema = object.schema /\ t.name = object.name
    BY DEF Table
  <2> QED BY <1>1, <1>2, <1>8, <2>1 DEF Kept
<1>9. KeptInv'
  BY <1>3, <1>8, KeptStays
<1>10. OnceInv'
  <2>1. ASSUME NEW x PROVE Same(x, t) = Same(x, object) /\ Same(t, x) = Same(object, x)
    BY DEF Same, Table
  <2>2. t.schema \notin unlisted
    BY DEF OnceInv, Table
  <2>3. \A x \in objects' \cup tables : ~Same(x, object)
    <3>1. \A x \in tables : ~Same(object, x)
      BY DEF OnceInv
    <3>2. \A x : Same(x, object) = Same(object, x)
      BY DEF Same
    <3> QED BY <1>1, <3>1, <3>2 DEF OnceInv
  <2>4. step' \in {"columns", "index"}
    BY <1>1, <1>2
  <2>5. \A x, y : Same(x, y) = Same(y, x)
    BY DEF Same
  <2>6. CASE tables' = tables
    <3>1. step' = "index" => \A x \in objects' \cup tables' : ~Same(x, current'.object)
      BY <1>1, <1>2, <2>3, <2>6
    <3>2. step' = "index" => \A x \in objects' \cup tables' : ~Same(x, current.object)'
      BY <3>1 DEF Same
    <3> QED BY <1>1, <2>4, <2>6, <3>2 DEF OnceInv
  <2>7. CASE tables' = tables \cup {t} /\ step' = "columns"
    <3>1. \A x \in objects' \cup tables' : x.schema \notin unlisted'
      BY <1>1, <2>2, <2>7 DEF OnceInv
    <3>2. \A x, y \in tables' : Same(x, y) => x = y
      BY <2>1, <2>3, <2>5, <2>7 DEF OnceInv
    <3>3. \A x \in objects', u \in tables' : ~Same(x, u)
      BY <1>1, <2>1, <2>3, <2>7 DEF OnceInv
    <3> QED BY <1>1, <2>7, <3>1, <3>2, <3>3 DEF OnceInv
  <2> QED BY <1>1, <1>2, <2>6, <2>7
<1> QED BY <1>3, <1>4, <1>5, <1>6, <1>7, <1>9, <1>10

(* The indexes of a table are read.                                        *)
LEMMA IndexStep ==
  ASSUME IInv, inspectIndexes, NEW t,
         t = Table(current.object, IF hasPrimaryKeyIndex(current.object) THEN current.columns
                                   ELSE WithIdentity(current.columns))
  PROVE  IInv'
<1> USE DEF IInv
<1>1. /\ UNCHANGED <<schema, moments, unlisted, objects, outcome>>
      /\ step = "index" /\ step' = "columns" /\ outcome = "reading"
      /\ tables' = tables \cup {t}
  BY DEF inspectIndexes, At
<1>2. MomentsInv' /\ PastKept
  BY <1>1, SameSchema
<1>3. ObjectsInv' /\ CurrentInv' /\ StepInv'
  BY <1>1, <1>2, ObjectsStay DEF CurrentInv, StepInv
<1>4. TablesInv'
  <2>1. \E i, j, k \in DOMAIN moments : OfMoments(t, i, j, k)
    BY <1>1, TableIndexed
  <2>2. PICK i, j, k \in DOMAIN moments : OfMoments(t, i, j, k)
    BY <2>1
  <2>3. /\ i \in DOMAIN moments' /\ j \in DOMAIN moments' /\ k \in DOMAIN moments'
        /\ OfMoments(t, i, j, k)'
    BY <1>2, <2>2, KnownStays DEF PastKept
  <2> QED BY <1>1, <1>2, <2>3, TablesStay DEF TablesInv
<1>5. ASSUME NEW db \in Databases, NEW n \in Names \ Internal, Kept(db, n) PROVE Kept(db, n)'
  <2>1. t.schema = current.object.schema /\ t.name = current.object.name
    BY DEF Table
  <2> QED BY <1>1, <1>5, <2>1 DEF Kept
<1>6. KeptInv'
  BY <1>2, <1>5, KeptStays
<1>7. OnceInv'
  <2> DEFINE object == current.object
  <2>1. ASSUME NEW x PROVE Same(x, t) = Same(x, object) /\ Same(t, x) = Same(object, x)
    BY DEF Same, Table
  <2>2. unlisted' = {}
    BY <1>1 DEF StepInv
  <2>3. \A x \in objects \cup tables : ~Same(x, object)
    BY <1>1 DEF OnceInv
  <2>4. \A x, y : Same(x, y) = Same(y, x)
    BY DEF Same
  <2> HIDE DEF object
  <2>5. \A x, y \in tables' : Same(x, y) => x = y
    BY <1>1, <2>1, <2>3, <2>4 DEF OnceInv
  <2>6. \A x \in objects', u \in tables' : ~Same(x, u)
    BY <1>1, <2>1, <2>3 DEF OnceInv
  <2> QED BY <1>1, <2>2, <2>5, <2>6 DEF OnceInv
<1> QED BY <1>2, <1>3, <1>4, <1>6, <1>7

(* Another process changes the schema: a moment more.                      *)
LEMMA ChangeStep ==
  ASSUME IInv, NEW db \in Databases, NEW n \in Names \ Internal, NEW def \in Created \cup {None},
         Change(db, n, def)
  PROVE  IInv'
<1> USE DEF IInv
<1>1. /\ schema' = [schema EXCEPT ![db][n] = def]
      /\ moments' = Append(moments, schema')
      /\ UNCHANGED <<step, unlisted, objects, current, tables, outcome>>
  BY DEF Change, locals
<1>2. schema' \in Schemas
  <2>1. def \in Definitions \cup {None} /\ schema \in Schemas
    BY NamesAssumption DEF MomentsInv
  <2>2. [schema[db] EXCEPT ![n] = def] \in [Names -> Definitions \cup {None}]
    BY <2>1 DEF Schemas
  <2>3. schema' = [schema EXCEPT ![db] = [schema[db] EXCEPT ![n] = def]]
    BY <1>1, <2>1 DEF Schemas
  <2> QED BY <2>1, <2>2, <2>3 DEF Schemas
<1>3. MomentsInv'
  <2> DEFINE now == schema'
  <2>1. /\ moments \in Seq(Schemas) /\ now \in Schemas /\ moments' = Append(moments, now)
    BY <1>1, <1>2 DEF MomentsInv
  <2> HIDE DEF now
  <2>2. moments' \in Seq(Schemas) /\ Len(moments') > 0 /\ moments'[Len(moments')] = now
    BY <2>1
  <2> QED BY <1>2, <2>2 DEF MomentsInv, now
<1>4. PastKept
  <2> DEFINE now == schema'
  <2>1. /\ moments \in Seq(Schemas) /\ now \in Schemas /\ moments' = Append(moments, now)
    BY <1>1, <1>2 DEF MomentsInv
  <2> HIDE DEF now
  <2> QED BY <2>1 DEF PastKept
<1>5. ObjectsInv' /\ CurrentInv' /\ StepInv'
  BY <1>1, <1>4, ObjectsStay, CurrentStays DEF StepInv
<1>6. TablesInv'
  BY <1>1, <1>4, TablesStay DEF TablesInv
<1>7. \A b \in Databases, m \in Names \ Internal : Kept(b, m) => Kept(b, m)'
  BY <1>1 DEF Kept
<1>8. KeptInv'
  BY <1>4, <1>7, KeptStays
<1>9. OnceInv'
  BY <1>1 DEF OnceInv
<1> QED BY <1>3, <1>5, <1>6, <1>8, <1>9

(* The invariant holds in every state.                                     *)
LEMMA Inductive == Spec => []IInv
<1>1. ASSUME Init PROVE IInv
  <2> USE <1>1 DEF Init
  <2>1. MomentsInv
    <3>1. schema \in Schemas /\ moments = <<schema>>
      BY NamesAssumption DEF Schemas
    <3> QED BY <3>1 DEF MomentsInv
  <2> QED BY <2>1 DEF IInv, StepInv, ObjectsInv, CurrentInv, TablesInv, KeptInv, Kept, OnceInv
<1>2. ASSUME IInv, [Next]_vars PROVE IInv'
  <2>1. CASE CheckVersion \/ inspectDatabases \/ Finish \/ Interrupted \/ UNCHANGED vars
    BY <1>2, <2>1, FrameStep
  <2>2. ASSUME NEW db \in Databases, inspectObjects(db) PROVE IInv'
    BY <1>2, <2>2, ListStep
  <2>3. ASSUME NEW object \in objects, inspectColumns(object) PROVE IInv'
    BY <1>2, <2>3, ColumnsStep
  <2>4. ASSUME inspectIndexes PROVE IInv'
    BY <1>2, <2>4, IndexStep
  <2>5. ASSUME NEW db \in Databases, NEW n \in Names \ Internal, NEW def \in Created \cup {None},
               Change(db, n, def)
        PROVE  IInv'
    BY <1>2, <2>5, ChangeStep
  <2> QED BY <1>2, <2>1, <2>2, <2>3, <2>4, <2>5 DEF Next
<1> QED BY <1>1, <1>2, PTL DEF Spec

-----------------------------------------------------------------------------
(* The properties. *)

(* Whatever other processes do to the schema between the PRAGMAs, and      *)
(* however often, what a table of an inspection says is what the three     *)
(* looks at its object saw, at moments in the order of the looks: its kind *)
(* and rowid at the first, its columns, types and NULLs together at the    *)
(* second, its indexes at the third.  What was there all the time, changed *)
(* or not, is not missed (inspectCatalog of sqlite/inspector.go).          *)
THEOREM InspectionIsOfMoments == Spec => []TablesAreOfMoments
<1>1. ASSUME IInv PROVE TablesAreOfMoments
  <2> USE <1>1 DEF IInv
  <2> SUFFICES ASSUME outcome = "returned" PROVE TablesAreOfMoments
    BY DEF TablesAreOfMoments
  <2>1. step = "end" /\ objects = {} /\ unlisted = {}
    BY DEF StepInv
  <2>2. ASSUME NEW t \in tables
        PROVE  LET Then(i) == moments[i][t.schema][t.name] IN
               /\ t.name \notin Internal
               /\ \E i, j, k \in DOMAIN moments :
                    i <= j /\ j <= k /\ ShowsLooks(t, Then(i), Then(j), Then(k))
    <3>1. PICK i, j, k \in DOMAIN moments : OfMoments(t, i, j, k)
      BY DEF TablesInv
    <3> QED BY <3>1, Zenon DEF OfMoments, DefAt
  <2>3. ASSUME NEW db \in Databases, NEW n \in Names \ Internal, AllTheTime(db, n)
        PROVE  \E t \in tables : t.schema = db /\ t.name = n
    BY <2>1, <2>3 DEF KeptInv, Kept
  <2> QED BY <2>2, <2>3, Zenon DEF TablesAreOfMoments, AllTheTime
<1> QED BY <1>1, Inductive, PTL

(* Three looks at one definition see what there is: its key is the rowid   *)
(* itself just when the columns say that it may be and no index is listed. *)
LEMMA LooksDescribe ==
  ASSUME NEW t, NEW def \in Definitions, ShowsLooks(t, def, def, def)
  PROVE  Describes(t, def)
<1>1. Visible(def) /\ XInfo(def) = def.columns
  BY DEF ShowsLooks, Visible, XInfo
<1>2. {c.ordinal : c \in t.columns} = {k \in DOMAIN def.columns : def.columns[k].hidden # 1}
  BY <1>1 DEF ShowsLooks
<1>3. ASSUME NEW c \in t.columns PROVE c.identity = (c.key > 0 /\ RowIDAlias(def))
  <2> DEFINE k == c.ordinal
  <2>1. /\ k \in DOMAIN def.columns /\ c.key = def.columns[k].key
        /\ c.identity = (/\ def.rowid
                         /\ KeyOf(def.columns) = {k}
                         /\ "=INTEGER" \in def.columns[k].declared
                         /\ ~ListsKeyIndex(def))
    BY <1>1, <1>2 DEF ShowsLooks
  <2>2. def.columns[k].key > 0 => def.kind = "table"
    BY <1>1, <2>1, DefinitionsAssumption DEF Visible
  <2> HIDE DEF k
  <2>3. CASE c.key > 0
    <3>1. k \in KeyOf(def.columns) /\ def.kind = "table" /\ def # None
      BY <1>1, <2>1, <2>2, <2>3 DEF KeyOf, Visible
    <3>2. ListsKeyIndex(def) = ~RowIDAlias(def)
      BY <3>1 DEF ListsKeyIndex
    <3>3. RowIDAlias(def) => /\ def.rowid /\ KeyOf(def.columns) = {k}
                             /\ "=INTEGER" \in def.columns[k].declared
      BY <3>1 DEF RowIDAlias
    <3> QED BY <2>1, <2>3, <3>2, <3>3
  <2>4. CASE ~(c.key > 0)
    <3>1. KeyOf(def.columns) # {k}
      BY <2>1, <2>4 DEF KeyOf
    <3> QED BY <2>1, <2>4, <3>1
  <2> QED BY <2>3, <2>4
<1> QED BY <1>3 DEF Describes

(* Whatever other processes do to other objects meanwhile, an inspection   *)
(* that returns shows a table or view that nobody touches exactly once and *)
(* as it is, and does not show what is not there (inspectCatalog of        *)
(* sqlite/inspector.go).                                                   *)
THEOREM InspectionIsExact == Spec => []UntouchedIsExact
<1>1. ASSUME IInv PROVE UntouchedIsExact
  <2> USE <1>1 DEF IInv
  <2> SUFFICES ASSUME outcome = "returned",
                      NEW db \in Databases, NEW n \in Names \ Internal,
                      \A i \in DOMAIN moments : moments[i][db][n] = schema[db][n]
               PROVE  LET def   == schema[db][n]
                          shown == {t \in tables : t.schema = db /\ t.name = n} IN
                      IF Visible(def) THEN \E t \in tables : shown = {t} /\ Describes(t, def)
                      ELSE shown = {}
    BY Zenon DEF UntouchedIsExact
  <2> DEFINE def   == schema[db][n]
             shown == {t \in tables : t.schema = db /\ t.name = n}
  <2>1. step = "end" /\ objects = {} /\ unlisted = {}
    BY DEF StepInv
  <2>2. ASSUME NEW t \in shown PROVE ShowsLooks(t, def, def, def)
    <3>1. PICK i, j, k \in DOMAIN moments : OfMoments(t, i, j, k)
      BY DEF TablesInv
    <3>2. DefAt(t, i) = def /\ DefAt(t, j) = def /\ DefAt(t, k) = def
      BY DEF DefAt
    <3> QED BY <3>1, <3>2 DEF OfMoments
  <2>3. CASE Visible(def)
    <3>1. AllTheTime(db, n)
      BY <2>3 DEF AllTheTime
    <3>2. PICK t \in tables : t.schema = db /\ t.name = n
      BY <2>1, <3>1 DEF KeptInv, Kept
    <3>3. shown = {t}
      BY <3>2 DEF OnceInv, Same
    <3>4. def \in Definitions
      BY <2>3, Now, Defined DEF Visible
    <3>5. Describes(t, def)
      <4> HIDE DEF def, shown
      <4> QED BY <2>2, <3>3, <3>4, LooksDescribe
    <3> QED BY <2>3, <3>2, <3>3, <3>5
  <2>4. CASE ~Visible(def)
    <3>1. shown = {}
      <4> HIDE DEF def
      <4>1. \A t \in shown : FALSE
        BY <2>2, <2>4 DEF ShowsLooks
      <4> QED BY <4>1
    <3> QED BY <2>4, <3>1
  <2> QED BY <2>3, <2>4
<1> QED BY <1>1, Inductive, PTL
=============================================================================
