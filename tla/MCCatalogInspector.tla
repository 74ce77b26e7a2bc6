------------------------- MODULE MCCatalogInspector -------------------------
(***************************************************************************)
(* Instances of CatalogInspector for TLC: every sequence of at most        *)
(* MaxRows rows of a small set, which holds the rows of sound catalogs     *)
(* (single and composite keys, two tables, an empty database), rows that   *)
(* contradict them, and rows that are wrong by themselves.                 *)
(***************************************************************************)
EXTENDS CatalogInspector

CONSTANTS MaxRows, shop, other

Key(name) == [catalog |-> shop, schema |-> shop, name |-> name]

MCKeys == {Key("order"), Key("item"), [Key("order") EXCEPT !.schema = other]}

Recent == [major |-> 14, minor |-> 1, mariadb |-> FALSE]

Row(column, ordinal, keyOrdinal, keySize) ==
  [shape |-> "table", db |-> shop, version |-> Recent, key |-> Key("order"),
   type |-> "BASE TABLE", column |-> column, ordinal |-> ordinal,
   primary |-> keyOrdinal > 0, keyOrdinal |-> keyOrdinal, keySize |-> keySize]

Id == Row("id", 1, 1, 1)

Sound ==
  {Id, Row("note", 2, 0, 1),
   Row("id", 1, 1, 2), Row("line", 2, 2, 2), Row("note", 3, 0, 2),
   Row("id", 1, 0, 0),
   [Id EXCEPT !.key = Key("item")],
   [Id EXCEPT !.shape = "server only"]}

Unsound ==
  {Row("other", 1, 0, 1), Row("id", 4, 0, 1), Row("line", 2, 1, 2),
   Row("id", 0, 1, 1), Row("id", 1, 1, -1),
   [Id EXCEPT !.primary = FALSE],
   [Id EXCEPT !.type = "VIEW"],
   [Id EXCEPT !.type = "SEQUENCE"],
   [Id EXCEPT !.db = other],
   [Id EXCEPT !.db = Blank],
   [Id EXCEPT !.key.schema = other],
   [Id EXCEPT !.shape = "incomplete"],
   [Id EXCEPT !.shape = "half a domain"],
   [Id EXCEPT !.version.minor = 2],
   [Id EXCEPT !.version.major = 8],
   [Id EXCEPT !.version.mariadb = TRUE],
   [Id EXCEPT !.version = None]}

MCCatalogs == UNION {[1 .. n -> Sound \cup Unsound] : n \in 0 .. MaxRows}
=============================================================================
