------------------------------ MODULE Manifest ------------------------------
(***************************************************************************)
(* The manifest of internal/manifest: the document in which a user keeps   *)
(* naming and type choices beside the facts that an inspection reads from  *)
(* the catalog, and the operations that build, merge, select and clear it. *)
(*                                                                         *)
(* A document maps every identity of Tables to its entry or to None.  The  *)
(* three naming overrides of a table are one `name', the four overrides of *)
(* a column are one `choice', what the catalog says of a column is one     *)
(* `fact', and the order that Canonicalize gives tables and columns is     *)
(* left out: a function has none.                                          *)
(***************************************************************************)

CONSTANTS
  Tables,     \* identities (catalog, schema, name) of tables and views
  Columns,    \* column names
  Facts,      \* what an inspection can report of one column
  Choices,    \* what a user can choose for one column
  Mappings,   \* what a user can write as the global TypeMappings
  Names,      \* physical names, also used as output names
  NameOf,     \* the physical name of each identity
  Databases,  \* values of DatabaseName
  None        \* no entry, no column, no override

ColumnEntries == [fact : Facts, choice : Choices \cup {None}]

Entries == [managed : BOOLEAN,
            name    : Names \cup {None},
            columns : [Columns -> ColumnEntries \cup {None}]]

Documents == [db       : Databases,
              mappings : Mappings \cup {None},
              tables   : [Tables -> Entries \cup {None}]]

Selectors == Tables \cup Names

ASSUME NamesAssumption == NameOf \in [Tables -> Names]
ASSUME NoneAssumption  == /\ None \notin Facts \cup Choices \cup Names
                          /\ None \notin ColumnEntries
                          /\ None \notin Entries
                          /\ None \notin Documents

NoColumns == [c \in Columns |-> None]

Present(m) == {t \in Tables : m.tables[t] # None}

ManagedKeys(m) == {t \in Present(m) : m.tables[t].managed}

WithTables(m, tables) ==
  [db |-> m.db, mappings |-> m.mappings, tables |-> tables]

(* A table that is not managed keeps its identity and its flag only.       *)
clearUnmanagedTable(e) ==
  [managed |-> e.managed, name |-> None, columns |-> NoColumns]

CanonicalEntry(e) ==
  IF e # None /\ ~e.managed THEN clearUnmanagedTable(e) ELSE e

Canonicalize(m) == WithTables(m, [t \in Tables |-> CanonicalEntry(m.tables[t])])

(* What an inspection of a catalog returns: every table managed, nothing   *)
(* chosen.  A catalog maps a table to the facts of its columns, or to None. *)
New(db, catalog) ==
  [db       |-> db,
   mappings |-> None,
   tables   |->
     [t \in Tables |->
        IF catalog[t] = None THEN None
        ELSE [managed |-> TRUE,
              name    |-> None,
              columns |-> [c \in Columns |->
                             IF catalog[t][c] = None THEN None
                             ELSE [fact |-> catalog[t][c], choice |-> None]]]]]

RestrictTo(m, keys) ==
  WithTables(m, [t \in Tables |-> IF t \in keys THEN m.tables[t] ELSE None])
-----------------------------------------------------------------------------
(* Merge and MergeSelected.  A document for another database is refused    *)
(* before either is used (SameDatabase).                                   *)

SameDatabase(fresh, previous) == fresh.db = previous.db

(* (mutant) A choice is kept only while the column's facts do not change.  *)
MergeColumnOfSameFact(new, old) ==
  IF new # None /\ old # None /\ new.fact = old.fact
    THEN [fact |-> new.fact, choice |-> old.choice]
    ELSE new

MergeColumn(new, old) ==
  IF new # None /\ old # None THEN [fact |-> new.fact, choice |-> old.choice]
                              ELSE new

MergeTable(new, old) ==
  CASE new = None \/ old = None -> new
    [] new # None /\ old # None /\ old.managed ->
         [managed |-> TRUE,
          name    |-> old.name,
          columns |-> [c \in Columns |->
                         MergeColumn(new.columns[c], old.columns[c])]]
    [] OTHER -> [managed |-> FALSE, name |-> None, columns |-> NoColumns]

(* (mutant) The global mappings are not carried over.                      *)
MergeWithoutMappings(fresh, previous) ==
  Canonicalize(WithTables(fresh,
    [t \in Tables |-> MergeTable(fresh.tables[t], previous.tables[t])]))

Merge(fresh, previous) ==
  Canonicalize([db       |-> fresh.db,
                mappings |-> previous.mappings,
                tables   |-> [t \in Tables |-> MergeTable(fresh.tables[t],
                                                         previous.tables[t])]])

(* (mutant) What was known before wins over what was refreshed.            *)
MergeSelectedStale(fresh, previous) ==
  LET merged == Merge(fresh, previous)
  IN  Canonicalize(WithTables(merged,
        [t \in Tables |-> IF t \in Present(previous) THEN previous.tables[t]
                                                     ELSE merged.tables[t]]))

MergeSelected(fresh, previous) ==
  LET merged == Merge(fresh, previous)
  IN  Canonicalize(WithTables(merged,
        [t \in Tables |-> IF t \in Present(merged) THEN merged.tables[t]
                                                   ELSE previous.tables[t]]))
-----------------------------------------------------------------------------
(* SelectTables and ManagedTables.  A selector is an identity (the         *)
(* qualified spellings) or a physical name.  Selectable says that every    *)
(* selector finds exactly one object and no two find the same one.         *)

matchesTableSelector(s, t) == s = t \/ s = NameOf[t]

Matches(m, s) == {t \in Present(m) : matchesTableSelector(s, t)}

Selectable(m, selection) ==
  /\ \A s \in selection : \E t \in Tables : Matches(m, s) = {t}
  /\ \A s1, s2 \in selection : Matches(m, s1) = Matches(m, s2) => s1 = s2

SelectedKeys(m, selection) ==
  IF selection = {} THEN Present(m)
                    ELSE UNION {Matches(m, s) : s \in selection}

SelectTables(m, selection) ==
  Canonicalize(RestrictTo(m, SelectedKeys(m, selection)))

ManagedTables(m) == Canonicalize(RestrictTo(m, ManagedKeys(m)))
-----------------------------------------------------------------------------
(* What a render needs of a document of managed tables: every table has    *)
(* columns, and no two tables produce the same output name.                *)

EffectiveFileName(m, t) ==
  IF m.tables[t].name = None THEN NameOf[t] ELSE m.tables[t].name

ValidateForRender(m) ==
  /\ \A t \in ManagedKeys(m) : m.tables[t].columns # NoColumns
  /\ \A t, u \in ManagedKeys(m) :
        EffectiveFileName(m, t) = EffectiveFileName(m, u) => t = u

(* The generated package of one table, as far as the document decides it.  *)
Model(m, t) == [name     |-> EffectiveFileName(m, t),
                columns  |-> m.tables[t].columns,
                mappings |-> m.mappings]

Models == [name     : Names,
           columns  : [Columns -> ColumnEntries \cup {None}],
           mappings : Mappings \cup {None}]

Rendered(m) == [t \in Tables |->
                  IF t \in ManagedKeys(m) THEN Model(m, t) ELSE None]
=============================================================================
