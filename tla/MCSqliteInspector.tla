------------------------- MODULE MCSqliteInspector --------------------------
(***************************************************************************)
(* Instances of SqliteInspector for TLC: two databases, two names and one  *)
(* of SQLite's own, and definitions that differ in what the inspector asks *)
(* for: alias of the rowid, indexed key, WITHOUT ROWID, composite key,     *)
(* view, virtual and shadow table, hidden and generated columns.           *)
(***************************************************************************)
EXTENDS SqliteInspector

CONSTANTS main, aux, shopFile, order, item, sqlite_sequence

MCDatabases == {main, aux}
MCNames == {order, item, sqlite_sequence}
MCFile == [db \in MCDatabases |-> IF db = main THEN shopFile ELSE Memory]

MCVersions == {None, [major |-> 3, minor |-> 36], [major |-> 3, minor |-> 37],
               [major |-> 2, minor |-> 38], [major |-> 4, minor |-> 0]}

Plain(name, declared) ==
  [name |-> name, declared |-> declared, notNull |-> FALSE, key |-> 0,
   hidden |-> 0, default |-> FALSE]
Key(name, declared, n) == [Plain(name, declared) EXCEPT !.key = n]

Integer == {"INT", "=INTEGER"}
Relation(kind, columns) ==
  [kind |-> kind, rowid |-> TRUE, descending |-> FALSE, columns |-> columns]

Alias     == Relation("table", <<Key("id", Integer, 1), Plain("note", {"TEXT"})>>)
Indexed   == [Alias EXCEPT !.descending = TRUE]
NoRowID   == [Relation("table", <<[Key("id", Integer, 1) EXCEPT !.notNull = TRUE]>>)
                EXCEPT !.rowid = FALSE]
Bigint    == Relation("table", <<Key("id", {"BIGINT", "INT"}, 1), Plain("at", {"DATETIME"})>>)
Composite == Relation("table", <<Key("line", Integer, 2), Key("id", Integer, 1),
                                 [Plain("sum", {"DOUB", "NUM"}) EXCEPT !.hidden = 2]>>)
View      == Relation("view", <<Plain("id", Integer), Plain("any", {"="})>>)
Virtual   == Relation("virtual", <<Plain("text", {"="}),
                                   [Plain("rank", {"="}) EXCEPT !.hidden = 1]>>)
Shadow    == Relation("shadow", <<Key("id", Integer, 1)>>)
Typed     == Relation("table", <<Plain("charint", {"CHAR", "INT"}),
                                 Plain("document", {"JSON", "TEXT"}),
                                 Plain("day", {"=DATE"}),
                                 [Plain("amount", {"NUM"}) EXCEPT !.default = TRUE],
                                 Plain("shape", {})>>)

MCDefinitions == {Alias, Indexed, NoRowID, Bigint, Composite, View, Virtual, Shadow, Typed}

MCCreated == {Alias, Indexed, View}

MCStart ==
  {s \in [MCDatabases -> [MCNames -> MCDefinitions \cup {None}]] :
     /\ s[main][sqlite_sequence] = Bigint /\ s[aux][sqlite_sequence] = None
     /\ s[main][item] \in {None, Composite}
     /\ s[aux][item] = None /\ s[aux][order] \in {None, Alias, Virtual}}
=============================================================================
