--------------------------- MODULE ManifestProofs ---------------------------
(***************************************************************************)
(* Proofs about Manifest and ManifestService, checked by TLAPS: what the   *)
(* merge keeps and refreshes for every previous manifest, type             *)
(* correctness, and from the inductive invariant IInv that every save is   *)
(* such a merge, that the file is replaced all or nothing, and that the    *)
(* output agrees with the file.                                            *)
(***************************************************************************)
EXTENDS ManifestService, TLAPS

-----------------------------------------------------------------------------
(* The operators on documents. *)

(* A cleared entry is an entry.                                            *)
LEMMA ClearedType ==
  ASSUME NEW e \in Entries
  PROVE  /\ clearUnmanagedTable(e) \in Entries
         /\ clearUnmanagedTable(e).managed = e.managed
         /\ clearUnmanagedTable(e).name = None
         /\ clearUnmanagedTable(e).columns = NoColumns
BY DEF Entries, clearUnmanagedTable, NoColumns

(* A document is determined by its fields and by its entries.              *)
LEMMA SameDocument ==
  ASSUME NEW m \in Documents, NEW n \in Documents,
         m.db = n.db, m.mappings = n.mappings,
         \A t \in Tables : m.tables[t] = n.tables[t]
  PROVE  m = n
<1>1. m.tables = n.tables BY DEF Documents
<1> QED BY <1>1 DEF Documents

(* Building a document from entries.                                       *)
LEMMA WithTablesType ==
  ASSUME NEW m \in Documents, NEW f \in [Tables -> Entries \cup {None}]
  PROVE  /\ WithTables(m, f) \in Documents
         /\ WithTables(m, f).db = m.db
         /\ WithTables(m, f).mappings = m.mappings
         /\ WithTables(m, f).tables = f
BY DEF Documents, WithTables

(* What Canonicalize makes of an entry, and of a document.                 *)
LEMMA CanonicalEntryType ==
  ASSUME NEW e \in Entries \cup {None}
  PROVE  /\ CanonicalEntry(e) \in Entries \cup {None}
         /\ CanonicalEntry(e) = None <=> e = None
         /\ CanonicalEntry(CanonicalEntry(e)) = CanonicalEntry(e)
         /\ e # None => CanonicalEntry(e).managed = e.managed
         /\ e # None /\ e.managed => CanonicalEntry(e) = e
<1>1. CASE e = None BY <1>1 DEF CanonicalEntry
<1>2. CASE e \in Entries
  BY <1>2, ClearedType, NoneAssumption DEF CanonicalEntry, clearUnmanagedTable
<1> QED BY <1>1, <1>2

(* What a document holds for an identity is an entry or None.              *)
LEMMA EntryOf ==
  ASSUME NEW m \in Documents, NEW t \in Tables
  PROVE  m.tables[t] \in Entries \cup {None}
BY DEF Documents

(* Canonicalize makes a document of a document.                            *)
LEMMA CanonicalizeType ==
  ASSUME NEW m \in Documents
  PROVE  /\ Canonicalize(m) \in Documents
         /\ Canonicalize(m).db = m.db
         /\ Canonicalize(m).mappings = m.mappings
         /\ \A t \in Tables : Canonicalize(m).tables[t] = CanonicalEntry(m.tables[t])
<1> DEFINE f == [t \in Tables |-> CanonicalEntry(m.tables[t])]
<1>1. f \in [Tables -> Entries \cup {None}] BY EntryOf, CanonicalEntryType
<1>2. Canonicalize(m) = WithTables(m, f) BY DEF Canonicalize
<1>3. \A t \in Tables : f[t] = CanonicalEntry(m.tables[t]) OBVIOUS
<1> HIDE DEF f
<1> QED BY <1>1, <1>2, <1>3, WithTablesType

(* Canonicalize does nothing to what it has made.                          *)
LEMMA CanonicalizeTwice ==
  ASSUME NEW m \in Documents
  PROVE  Canonicalize(Canonicalize(m)) = Canonicalize(m)
<1> DEFINE n == Canonicalize(m)
<1>1. n \in Documents BY CanonicalizeType
<1>2. \A t \in Tables : n.tables[t] = CanonicalEntry(m.tables[t]) BY CanonicalizeType
<1> HIDE DEF n
<1>3. Canonicalize(n) \in Documents /\ Canonicalize(n).db = n.db
        /\ Canonicalize(n).mappings = n.mappings
  BY <1>1, CanonicalizeType
<1>4. \A t \in Tables : Canonicalize(n).tables[t] = CanonicalEntry(n.tables[t])
  BY <1>1, CanonicalizeType
<1>5. ASSUME NEW t \in Tables PROVE Canonicalize(n).tables[t] = n.tables[t]
  <2>1. m.tables[t] \in Entries \cup {None} BY EntryOf
  <2>2. CanonicalEntry(CanonicalEntry(m.tables[t])) = CanonicalEntry(m.tables[t])
    BY <2>1, CanonicalEntryType
  <2> QED BY <1>2, <1>4, <2>2
<1>6. Canonicalize(n) = n BY <1>1, <1>3, <1>5, SameDocument
<1> QED BY <1>6 DEF n

(* Narrowing a document to some identities.                                *)
LEMMA RestrictType ==
  ASSUME NEW m \in Documents, NEW k
  PROVE  /\ RestrictTo(m, k) \in Documents
         /\ RestrictTo(m, k).db = m.db
         /\ RestrictTo(m, k).mappings = m.mappings
         /\ \A t \in Tables : RestrictTo(m, k).tables[t] =
              IF t \in k THEN m.tables[t] ELSE None
<1> DEFINE f == [t \in Tables |-> IF t \in k THEN m.tables[t] ELSE None]
<1>1. f \in [Tables -> Entries \cup {None}] BY EntryOf
<1>2. RestrictTo(m, k) = WithTables(m, f) BY DEF RestrictTo
<1>3. \A t \in Tables : f[t] = IF t \in k THEN m.tables[t] ELSE None OBVIOUS
<1> HIDE DEF f
<1> QED BY <1>1, <1>2, <1>3, WithTablesType

(* Narrowing a canonical document leaves it canonical.                     *)
LEMMA RestrictCanonical ==
  ASSUME NEW m \in Documents, NEW k
  PROVE  Canonicalize(RestrictTo(m, k)) = RestrictTo(Canonicalize(m), k)
<1> DEFINE a == Canonicalize(RestrictTo(m, k))
           b == RestrictTo(Canonicalize(m), k)
<1>1. a \in Documents /\ a.db = m.db /\ a.mappings = m.mappings
        /\ \A t \in Tables : a.tables[t] =
             CanonicalEntry(IF t \in k THEN m.tables[t] ELSE None)
  BY RestrictType, CanonicalizeType
<1>2. b \in Documents /\ b.db = m.db /\ b.mappings = m.mappings
        /\ \A t \in Tables : b.tables[t] =
             IF t \in k THEN CanonicalEntry(m.tables[t]) ELSE None
  BY RestrictType, CanonicalizeType
<1>3. CanonicalEntry(None) = None BY DEF CanonicalEntry
<1> HIDE DEF a, b
<1>4. a = b BY <1>1, <1>2, <1>3, SameDocument
<1> QED BY <1>4 DEF a, b

-----------------------------------------------------------------------------
(* The merge. *)

(* A merged column is a column.                                            *)
LEMMA MergeColumnType ==
  ASSUME NEW new \in ColumnEntries \cup {None}, NEW old \in ColumnEntries \cup {None}
  PROVE  /\ MergeColumn(new, old) \in ColumnEntries \cup {None}
         /\ MergeColumn(new, old) = None <=> new = None
         /\ new # None => MergeColumn(new, old).fact = new.fact
         /\ new # None /\ old # None => MergeColumn(new, old).choice = old.choice
BY NoneAssumption DEF MergeColumn, ColumnEntries

(* One merged entry; an inspection reports managed entries only.           *)
LEMMA MergeTableType ==
  ASSUME NEW new \in Entries \cup {None}, NEW old \in Entries \cup {None}
  PROVE  /\ MergeTable(new, old) \in Entries \cup {None}
         /\ MergeTable(new, old) = None <=> new = None
         /\ (new # None => new.managed) =>
              CanonicalEntry(MergeTable(new, old)) = MergeTable(new, old)
         /\ new # None /\ old = None => MergeTable(new, old) = new
         /\ new # None /\ old # None => MergeTable(new, old).managed = old.managed
<1> DEFINE kept == [managed |-> TRUE, name |-> old.name,
                    columns |-> [c \in Columns |->
                                   MergeColumn(new.columns[c], old.columns[c])]]
           bare == [managed |-> FALSE, name |-> None, columns |-> NoColumns]
<1>1. CASE new = None \/ old = None
  BY <1>1 DEF MergeTable, CanonicalEntry
<1>2. CASE new # None /\ old # None /\ old.managed
  <2>1. MergeTable(new, old) = kept BY <1>2 DEF MergeTable
  <2>2. \A c \in Columns : new.columns[c] \in ColumnEntries \cup {None}
                        /\ old.columns[c] \in ColumnEntries \cup {None}
    BY <1>2 DEF Entries
  <2>3. \A c \in Columns : MergeColumn(new.columns[c], old.columns[c])
                             \in ColumnEntries \cup {None}
    BY <2>2, MergeColumnType
  <2>4. kept \in Entries BY <1>2, <2>3 DEF Entries
  <2>5. kept # None /\ kept.managed BY <2>4, NoneAssumption
  <2>6. CanonicalEntry(kept) = kept BY <2>5 DEF CanonicalEntry
  <2> HIDE DEF kept
  <2> QED BY <1>2, <2>1, <2>4, <2>5, <2>6
<1>3. CASE new # None /\ old # None /\ ~old.managed
  <2>1. MergeTable(new, old) = bare BY <1>3 DEF MergeTable
  <2>2. bare \in Entries BY DEF Entries, NoColumns
  <2>3. bare # None /\ ~bare.managed BY <2>2, NoneAssumption
  <2>4. CanonicalEntry(bare) = bare BY <2>3 DEF CanonicalEntry, clearUnmanagedTable
  <2> HIDE DEF bare
  <2>5. old.managed = FALSE BY <1>3 DEF Entries
  <2>6. bare.managed = FALSE BY DEF bare
  <2> QED BY <1>3, <2>1, <2>2, <2>3, <2>4, <2>5, <2>6
<1> QED BY <1>1, <1>2, <1>3

(* Merging documents gives documents.                                      *)
LEMMA MergeDocuments ==
  ASSUME NEW f \in Documents, NEW p \in Documents
  PROVE  /\ Merge(f, p) \in Documents
         /\ MergeSelected(f, p) \in Documents
         /\ Canonicalize(Merge(f, p)) = Merge(f, p)
         /\ Canonicalize(MergeSelected(f, p)) = MergeSelected(f, p)
<1> DEFINE g == [t \in Tables |-> MergeTable(f.tables[t], p.tables[t])]
           m == [db |-> f.db, mappings |-> p.mappings, tables |-> g]
           n == Merge(f, p)
           h == [t \in Tables |-> IF t \in Present(n) THEN n.tables[t]
                                                      ELSE p.tables[t]]
<1>1. g \in [Tables -> Entries \cup {None}] BY EntryOf, MergeTableType
<1>2. n = Canonicalize(m) BY DEF Merge
<1>3. MergeSelected(f, p) = Canonicalize(WithTables(n, h)) BY DEF MergeSelected
<1> HIDE DEF g
<1>4. m \in Documents BY <1>1 DEF Documents
<1> HIDE DEF m
<1>5. n \in Documents /\ Canonicalize(n) = n
  BY <1>2, <1>4, CanonicalizeType, CanonicalizeTwice
<1> HIDE DEF n
<1>6. h \in [Tables -> Entries \cup {None}] BY <1>5, EntryOf
<1> HIDE DEF h
<1>7. WithTables(n, h) \in Documents BY <1>5, <1>6, WithTablesType
<1> QED BY <1>3, <1>5, <1>7, CanonicalizeType, CanonicalizeTwice DEF n

(* A full merge gives a document, table by table in canonical form.        *)
LEMMA MergeType ==
  ASSUME NEW f \in Documents, NEW p \in Documents, AllManaged(f)
  PROVE  /\ Merge(f, p) \in Documents
         /\ Merge(f, p).db = f.db
         /\ Merge(f, p).mappings = p.mappings
         /\ \A t \in Tables : Merge(f, p).tables[t] = MergeTable(f.tables[t], p.tables[t])
<1> DEFINE g == [t \in Tables |-> MergeTable(f.tables[t], p.tables[t])]
           m == [db |-> f.db, mappings |-> p.mappings, tables |-> g]
<1>1. ASSUME NEW t \in Tables
      PROVE  /\ MergeTable(f.tables[t], p.tables[t]) \in Entries \cup {None}
             /\ CanonicalEntry(MergeTable(f.tables[t], p.tables[t]))
                  = MergeTable(f.tables[t], p.tables[t])
  <2>1. f.tables[t] \in Entries \cup {None} /\ p.tables[t] \in Entries \cup {None}
    BY EntryOf
  <2>2. f.tables[t] # None => f.tables[t].managed BY DEF AllManaged, Present
  <2> QED BY <2>1, <2>2, MergeTableType
<1>2. g \in [Tables -> Entries \cup {None}] BY <1>1
<1>3. \A t \in Tables : g[t] = MergeTable(f.tables[t], p.tables[t]) OBVIOUS
<1>4. Merge(f, p) = Canonicalize(m) BY DEF Merge
<1> HIDE DEF g
<1>5. m \in Documents /\ m.db = f.db /\ m.mappings = p.mappings /\ m.tables = g
  BY <1>2 DEF Documents
<1> HIDE DEF m
<1>6. /\ Canonicalize(m) \in Documents /\ Canonicalize(m).db = f.db
      /\ Canonicalize(m).mappings = p.mappings
      /\ \A t \in Tables : Canonicalize(m).tables[t] = CanonicalEntry(g[t])
  BY <1>5, CanonicalizeType
<1> QED BY <1>1, <1>3, <1>4, <1>6

(* A filtered merge gives a document too.                                  *)
LEMMA MergeSelectedType ==
  ASSUME NEW f \in Documents, NEW p \in Documents, AllManaged(f)
  PROVE  /\ MergeSelected(f, p) \in Documents
         /\ MergeSelected(f, p).db = f.db
         /\ MergeSelected(f, p).mappings = p.mappings
         /\ \A t \in Tables : MergeSelected(f, p).tables[t] =
              IF t \in Present(f) THEN MergeTable(f.tables[t], p.tables[t])
                                  ELSE CanonicalEntry(p.tables[t])
<1> DEFINE m == Merge(f, p)
           g == [t \in Tables |-> IF t \in Present(m) THEN m.tables[t]
                                                      ELSE p.tables[t]]
<1>1. /\ m \in Documents /\ m.db = f.db /\ m.mappings = p.mappings
      /\ \A t \in Tables : m.tables[t] = MergeTable(f.tables[t], p.tables[t])
  BY MergeType
<1>2. MergeSelected(f, p) = Canonicalize(WithTables(m, g)) BY DEF MergeSelected
<1> HIDE DEF m
<1>3. \A t \in Tables : g[t] = IF t \in Present(m) THEN m.tables[t] ELSE p.tables[t]
  OBVIOUS
<1>4. g \in [Tables -> Entries \cup {None}] BY <1>1, EntryOf
<1> HIDE DEF g
<1>5. /\ WithTables(m, g) \in Documents /\ WithTables(m, g).db = f.db
      /\ WithTables(m, g).mappings = p.mappings /\ WithTables(m, g).tables = g
  BY <1>1, <1>4, WithTablesType
<1>6. /\ MergeSelected(f, p) \in Documents /\ MergeSelected(f, p).db = f.db
      /\ MergeSelected(f, p).mappings = p.mappings
      /\ \A t \in Tables : MergeSelected(f, p).tables[t] = CanonicalEntry(g[t])
  BY <1>2, <1>5, CanonicalizeType
<1>7. ASSUME NEW t \in Tables
      PROVE  CanonicalEntry(g[t]) =
              IF t \in Present(f) THEN MergeTable(f.tables[t], p.tables[t])
                                  ELSE CanonicalEntry(p.tables[t])
  <2>1. f.tables[t] \in Entries \cup {None} /\ p.tables[t] \in Entries \cup {None}
    BY EntryOf
  <2>2. f.tables[t] # None => f.tables[t].managed BY DEF AllManaged, Present
  <2>3. /\ MergeTable(f.tables[t], p.tables[t]) = None <=> f.tables[t] = None
        /\ CanonicalEntry(MergeTable(f.tables[t], p.tables[t]))
             = MergeTable(f.tables[t], p.tables[t])
    BY <2>1, <2>2, MergeTableType
  <2>4. t \in Present(m) <=> t \in Present(f) BY <1>1, <2>3 DEF Present
  <2> QED BY <1>1, <1>3, <2>3, <2>4
<1> QED BY <1>6, <1>7

(* An inspection is a document in which every table is managed.            *)
LEMMA NewType ==
  ASSUME NEW db \in Databases, NEW cat \in Catalogs
  PROVE  New(db, cat) \in Documents /\ AllManaged(New(db, cat))
<1> DEFINE col(t, c) == IF cat[t][c] = None THEN None
                        ELSE [fact |-> cat[t][c], choice |-> None]
           entry(t) == [managed |-> TRUE, name |-> None,
                        columns |-> [c \in Columns |-> col(t, c)]]
           f == [t \in Tables |-> IF cat[t] = None THEN None ELSE entry(t)]
<1>1. ASSUME NEW t \in Tables, cat[t] # None PROVE entry(t) \in Entries
  <2>1. cat[t] \in [Columns -> Facts \cup {None}] BY <1>1 DEF Catalogs
  <2>2. \A c \in Columns : col(t, c) \in ColumnEntries \cup {None}
    BY <2>1 DEF ColumnEntries
  <2> HIDE DEF col
  <2> QED BY <2>2 DEF Entries
<1>2. \A t \in Tables : f[t] = IF cat[t] = None THEN None ELSE entry(t) OBVIOUS
<1>3. New(db, cat) = [db |-> db, mappings |-> None, tables |-> f] BY DEF New
<1>a. \A t \in Tables : entry(t).managed = TRUE OBVIOUS
<1> HIDE DEF entry
<1>4. f \in [Tables -> Entries \cup {None}] BY <1>1
<1> HIDE DEF f
<1>5. New(db, cat) \in Documents BY <1>3, <1>4 DEF Documents
<1>6. New(db, cat).tables = f BY <1>3
<1>7. ASSUME NEW t \in Present(New(db, cat)) PROVE New(db, cat).tables[t].managed
  <2>1. t \in Tables /\ f[t] # None BY <1>6 DEF Present
  <2>2. f[t] = entry(t) BY <1>2, <2>1
  <2> QED BY <1>6, <1>a, <2>1, <2>2
<1> QED BY <1>5, <1>7 DEF AllManaged

(* Selecting from an inspection leaves an inspection of the selected keys. *)
LEMMA SelectType ==
  ASSUME NEW m \in Documents, NEW sel \in SUBSET Selectors
  PROVE  /\ SelectTables(m, sel) \in Documents
         /\ SelectTables(m, sel).db = m.db
         /\ SelectedKeys(m, sel) \subseteq Present(m)
         /\ Present(SelectTables(m, sel)) = SelectedKeys(m, sel)
         /\ AllManaged(m) => AllManaged(SelectTables(m, sel))
         /\ SelectTables(m, sel) = RestrictTo(Canonicalize(m), SelectedKeys(m, sel))
<1> DEFINE k == SelectedKeys(m, sel)
           n == SelectTables(m, sel)
<1>1. k \subseteq Present(m) BY DEF SelectedKeys, Matches
<1>2. n = Canonicalize(RestrictTo(m, k)) BY DEF SelectTables
<1>3. n = RestrictTo(Canonicalize(m), k) BY <1>2, RestrictCanonical
<1> HIDE DEF k, n
<1>4. /\ n \in Documents /\ n.db = m.db
      /\ \A t \in Tables : n.tables[t] =
           IF t \in k THEN CanonicalEntry(m.tables[t]) ELSE None
  BY <1>3, CanonicalizeType, RestrictType
<1>5. \A t \in Present(m) : /\ CanonicalEntry(m.tables[t]) # None
                            /\ CanonicalEntry(m.tables[t]).managed = m.tables[t].managed
  BY EntryOf, CanonicalEntryType DEF Present
<1>6. Present(n) = k
  BY <1>1, <1>4, <1>5 DEF Present
<1>7. AllManaged(m) => AllManaged(n)
  BY <1>1, <1>4, <1>5, <1>6 DEF AllManaged, Present
<1> QED BY <1>1, <1>3, <1>4, <1>6, <1>7 DEF k, n

(* What a render makes of a document is decided by its managed tables.     *)
LEMMA RenderedType ==
  ASSUME NEW m \in Documents
  PROVE  /\ ManagedTables(m) \in Documents
         /\ Rendered(m) \in [Tables -> Models \cup {None}]
         /\ Rendered(ManagedTables(m)) = Rendered(m)
<1> DEFINE n == ManagedTables(m)
<1>1. \A d \in Documents : Rendered(d) \in [Tables -> Models \cup {None}]
  <2> SUFFICES ASSUME NEW d \in Documents, NEW t \in ManagedKeys(d)
               PROVE  Model(d, t) \in Models
    BY DEF Rendered
  <2>1. d.tables[t] \in Entries /\ t \in Tables
    BY EntryOf DEF ManagedKeys, Present
  <2>2. EffectiveFileName(d, t) \in Names
    BY <2>1, NamesAssumption DEF EffectiveFileName, Entries
  <2> QED BY <2>1, <2>2 DEF Model, Models, Entries, Documents
<1>2. /\ n \in Documents /\ n.mappings = m.mappings
      /\ \A t \in Tables : n.tables[t] =
           CanonicalEntry(IF t \in ManagedKeys(m) THEN m.tables[t] ELSE None)
  BY RestrictType, CanonicalizeType DEF ManagedTables
<1>3. CanonicalEntry(None) = None BY DEF CanonicalEntry
<1>4. \A t \in ManagedKeys(m) : CanonicalEntry(m.tables[t]) = m.tables[t]
  BY DEF ManagedKeys, CanonicalEntry
<1> HIDE DEF n
<1>5. ManagedKeys(n) = ManagedKeys(m)
  BY <1>2, <1>3, <1>4 DEF ManagedKeys, Present
<1>6. \A t \in ManagedKeys(m) : Model(n, t) = Model(m, t)
  BY <1>2, <1>4 DEF Model, EffectiveFileName, ManagedKeys, Present
<1>7. Rendered(n) = Rendered(m)
  BY <1>5, <1>6 DEF Rendered
<1> QED BY <1>1, <1>2, <1>7 DEF n

-----------------------------------------------------------------------------
(* Types. *)

(* The initial state is well typed.                                        *)
LEMMA TypeInit == ASSUME Init PROVE TypeOK
<1>1. EmptyDocument \in Documents
  <2>1. [t \in Tables |-> None] \in Catalogs BY DEF Catalogs
  <2> QED BY <2>1, NewType, DatabaseAssumption DEF EmptyDocument
<1>2. [commands |-> 0, edits |-> 0, changes |-> 0, faults |-> 0] \in Counts
  BY BoundsAssumption DEF Counts
<1> QED BY <1>1, <1>2
  DEF Init, TypeOK, Files, Steps, Results, Kinds

(* The user writes documents, or something Load refuses.                   *)
LEMMA EditedFilesType ==
  ASSUME file \in Files
  PROVE  EditedFiles \subseteq Files
<1>1. ASSUME file \in Documents, NEW t \in Present(file),
             NEW e \in EditedTables(file, t)
      PROVE  [file EXCEPT !.tables[t] = e] \in Documents
  <2>1. t \in Tables /\ file.tables[t] \in Entries
    BY <1>1, EntryOf DEF Present
  <2>2. ASSUME NEW c \in Columns, file.tables[t].columns[c] # None, NEW x \in Choices
        PROVE  [file.tables[t] EXCEPT !.columns[c].choice = x] \in Entries
    <3>1. file.tables[t].columns \in [Columns -> ColumnEntries \cup {None}]
      BY <2>1 DEF Entries
    <3>2. file.tables[t].columns[c] \in ColumnEntries BY <2>2, <3>1
    <3>3. [file.tables[t].columns[c] EXCEPT !.choice = x] \in ColumnEntries
      BY <3>2 DEF ColumnEntries
    <3>4. [file.tables[t].columns EXCEPT ![c] =
             [file.tables[t].columns[c] EXCEPT !.choice = x]]
               \in [Columns -> ColumnEntries \cup {None}]
      BY <3>1, <3>3
    <3> QED BY <2>1, <3>4 DEF Entries
  <2>3. e \in Entries \cup {None}
    <3>1. [file.tables[t] EXCEPT !.managed = ~file.tables[t].managed] \in Entries
      BY <2>1 DEF Entries
    <3>2. \A n \in Names : [file.tables[t] EXCEPT !.name = n] \in Entries
      BY <2>1 DEF Entries
    <3> DEFINE old == file.tables[t]
               Managed == {None, [old EXCEPT !.managed = ~old.managed]}
               Named == {[old EXCEPT !.name = n] : n \in Names}
               Chosen == {[old EXCEPT !.columns[c].choice = x] :
                            c \in {d \in Columns : old.columns[d] # None}, x \in Choices}
    <3>3. e \in Managed \/ e \in Named \/ e \in Chosen
      <4>1. EditedTables(file, t) = Managed \cup Named \cup Chosen
        BY DEF EditedTables
      <4> HIDE DEF Managed, Named, Chosen
      <4> QED BY <1>1, <4>1
    <3>4. Managed \subseteq Entries \cup {None}
      BY <3>1
    <3>5. Named \subseteq Entries \cup {None}
      BY <3>2
    <3>6. Chosen \subseteq Entries \cup {None}
      <4> SUFFICES ASSUME NEW c \in {d \in Columns : old.columns[d] # None}, NEW x \in Choices
                   PROVE  [old EXCEPT !.columns[c].choice = x] \in Entries \cup {None}
        OBVIOUS
      <4> QED BY <2>2
    <3> HIDE DEF Managed, Named, Chosen
    <3> QED BY <3>3, <3>4, <3>5, <3>6
  <2>4. [file.tables EXCEPT ![t] = e] \in [Tables -> Entries \cup {None}]
    BY <1>1, <2>3 DEF Documents
  <2> QED BY <1>1, <2>4 DEF Documents
<1>2. ASSUME file \in Documents
      PROVE  /\ \A g \in Mappings : [file EXCEPT !.mappings = g] \in Documents
             /\ \A d \in Databases : [file EXCEPT !.db = d] \in Documents
  BY <1>2 DEF Documents
<1> QED BY <1>1, <1>2 DEF EditedFiles, Files

(* A counter below its bound may be incremented.                           *)
LEMMA CountUp ==
  ASSUME counts \in Counts
  PROVE  /\ counts.commands < MaxCommands =>
              [counts EXCEPT !.commands = counts.commands + 1] \in Counts
         /\ counts.edits < MaxEdits =>
              [counts EXCEPT !.edits = counts.edits + 1] \in Counts
         /\ counts.changes < MaxChanges =>
              [counts EXCEPT !.changes = counts.changes + 1] \in Counts
         /\ counts.faults < MaxFaults =>
              [counts EXCEPT !.faults = counts.faults + 1] \in Counts
BY BoundsAssumption DEF Counts

(* Every step keeps the state well typed.                                  *)
LEMMA TypeStep ==
  ASSUME TypeOK, Written, [Next]_vars
  PROVE  TypeOK'
<1> USE TypeOK, CountUp DEF TypeOK, Finish, Fail, Steps, Results
<1>0. command.selection \in SUBSET Selectors
  BY SelectionsAssumption
<1>1. ASSUME NEW kind \in Kinds, NEW sel \in Selections, Start(kind, sel)
      PROVE  TypeOK'
  <2>1. EmptyDocument \in Documents
    <3>1. [t \in Tables |-> None] \in Catalogs BY DEF Catalogs
    <3> QED BY <3>1, NewType, DatabaseAssumption DEF EmptyDocument
  <2> QED BY <1>1, <2>1 DEF Start
<1>2. ASSUME BackendInspect PROVE TypeOK'
  BY <1>2, NewType, DatabaseAssumption DEF BackendInspect
<1>3. ASSUME SelectInspected PROVE TypeOK'
  <2>1. SelectTables(fresh, command.selection) \in Documents
    BY <1>0, SelectType
  <2>2. SelectedKeys(fresh, command.selection) \subseteq Tables
    BY DEF SelectedKeys, Matches, Present
  <2> QED BY <1>3, <2>1, <2>2 DEF SelectInspected
<1>4. ASSUME LoadPrevious PROVE TypeOK'
  BY <1>4, CanonicalizeType DEF LoadPrevious
<1>5. ASSUME MergePrevious PROVE TypeOK'
  BY <1>5, MergeDocuments DEF MergePrevious
<1>6. ASSUME CreateTemp PROVE TypeOK'
  BY <1>6 DEF CreateTemp
<1>7. ASSUME WriteTemp PROVE TypeOK'
  BY <1>7, CanonicalizeType DEF WriteTemp
<1>8. ASSUME Rename PROVE TypeOK'
  <2>1. temp \in Documents BY <1>8, Written, CanonicalizeType DEF Rename, Written
  <2>2. RestrictTo(document, keys) \in Documents BY RestrictType
  <2> QED BY <1>8, <2>1, <2>2 DEF Rename, Files
<1>9. ASSUME OpenManifest PROVE TypeOK'
  <2>1. ASSUME file \in Documents
        PROVE  SelectTables(Canonicalize(file), command.selection) \in Documents
    BY <1>0, <2>1, SelectType, CanonicalizeType
  <2>2. SelectedKeys(Canonicalize(file), command.selection) \subseteq Tables
    BY DEF SelectedKeys, Matches, Present
  <2> QED BY <1>9, <2>1, <2>2 DEF OpenManifest
<1>10. ASSUME RenderOutput PROVE TypeOK'
  BY <1>10, RenderedType DEF RenderOutput
<1>11. ASSUME FaultyStep PROVE TypeOK'
  BY <1>11 DEF FaultyStep
<1>12. ASSUME Cancel PROVE TypeOK'
  BY <1>12 DEF Cancel
<1>13. ASSUME Crash PROVE TypeOK'
  BY <1>13 DEF Crash
<1>14. ASSUME NEW t \in Tables,
              NEW columns \in [Columns -> Facts \cup {None}] \cup {None},
              SchemaChange(t, columns)
       PROVE  TypeOK'
  <2>1. [catalog EXCEPT ![t] = columns] \in Catalogs
    BY DEF Catalogs
  <2> QED BY <1>14, <2>1 DEF SchemaChange
<1>15. ASSUME NEW new \in EditedFiles, UserWrites(new) PROVE TypeOK'
  <2>1. new \in Files BY EditedFilesType
  <2> QED BY <1>15, <2>1 DEF UserWrites
<1>16. ASSUME UNCHANGED vars PROVE TypeOK'
  BY <1>16 DEF vars
<1> QED BY <1>1, <1>2, <1>3, <1>4, <1>5, <1>6, <1>7, <1>8, <1>9, <1>10, <1>11, <1>12,
           <1>13, <1>14, <1>15, <1>16
        DEF Next, CommandStep, Environment

-----------------------------------------------------------------------------
(* The inductive invariant, one conjunct at a time.  Cancel, SchemaChange  *)
(* and a stuttering step change nothing that the conjuncts speak of.       *)

relevant == <<file, temp, output, pc, command, fresh, document, keys, result,
              before, touched>>

(* The actions of a step, with those that change nothing relevant merged.  *)
LEMMA Cases ==
  ASSUME [Next]_vars
  PROVE  \/ \E kind \in Kinds, sel \in Selections : Start(kind, sel)
         \/ BackendInspect \/ SelectInspected \/ LoadPrevious \/ MergePrevious
         \/ CreateTemp \/ WriteTemp \/ Rename \/ OpenManifest \/ RenderOutput
         \/ FaultyStep \/ Crash
         \/ \E new \in EditedFiles : UserWrites(new)
         \/ UNCHANGED relevant
<1>1. ASSUME Cancel PROVE UNCHANGED relevant BY <1>1 DEF Cancel, relevant
<1>2. ASSUME NEW t \in Tables, NEW columns, SchemaChange(t, columns)
      PROVE  UNCHANGED relevant
  BY <1>2 DEF SchemaChange, relevant
<1>3. ASSUME UNCHANGED vars PROVE UNCHANGED relevant BY <1>3 DEF vars, relevant
<1> QED BY <1>1, <1>2, <1>3 DEF Next, CommandStep, Environment

(* The temporary file that is renamed was written by the same command.     *)
LEMMA WrittenStep ==
  ASSUME Written, [Next]_vars
  PROVE  Written'
<1> USE Written DEF Written, Finish, Fail
<1>1. ASSUME NEW kind \in Kinds, NEW sel \in Selections, Start(kind, sel)
      PROVE Written'
  BY <1>1 DEF Start
<1>2. ASSUME BackendInspect PROVE Written' BY <1>2 DEF BackendInspect
<1>3. ASSUME SelectInspected PROVE Written' BY <1>3 DEF SelectInspected
<1>4. ASSUME LoadPrevious PROVE Written' BY <1>4 DEF LoadPrevious
<1>5. ASSUME MergePrevious PROVE Written' BY <1>5 DEF MergePrevious
<1>6. ASSUME CreateTemp PROVE Written' BY <1>6 DEF CreateTemp
<1>7. ASSUME WriteTemp PROVE Written' BY <1>7 DEF WriteTemp
<1>8. ASSUME Rename PROVE Written' BY <1>8 DEF Rename
<1>9. ASSUME OpenManifest PROVE Written' BY <1>9 DEF OpenManifest
<1>10. ASSUME RenderOutput PROVE Written' BY <1>10 DEF RenderOutput
<1>11. ASSUME FaultyStep PROVE Written' BY <1>11 DEF FaultyStep
<1>12. ASSUME Crash PROVE Written' BY <1>12 DEF Crash
<1>13. ASSUME NEW new \in EditedFiles, UserWrites(new) PROVE Written'
  BY <1>13 DEF UserWrites
<1>14. ASSUME UNCHANGED relevant PROVE Written' BY <1>14 DEF relevant
<1> QED BY <1>1, <1>2, <1>3, <1>4, <1>5, <1>6, <1>7, <1>8, <1>9, <1>10, <1>11,
           <1>12, <1>13, <1>14, Cases

(* Until a command commits, the file is the one it found.                  *)
LEMMA KindStep ==
  ASSUME KindInv, [Next]_vars
  PROVE  KindInv'
<1> USE KindInv DEF KindInv, InspectSteps, Finish, Fail
<1>1. ASSUME NEW kind \in Kinds, NEW sel \in Selections, Start(kind, sel)
      PROVE KindInv'
  <2>1. command'.kind = kind BY <1>1 DEF Start
  <2> QED BY <1>1, <2>1 DEF Start
<1>2. ASSUME BackendInspect PROVE KindInv' BY <1>2 DEF BackendInspect
<1>3. ASSUME SelectInspected PROVE KindInv' BY <1>3 DEF SelectInspected
<1>4. ASSUME LoadPrevious PROVE KindInv' BY <1>4 DEF LoadPrevious
<1>5. ASSUME MergePrevious PROVE KindInv' BY <1>5 DEF MergePrevious
<1>6. ASSUME CreateTemp PROVE KindInv' BY <1>6 DEF CreateTemp
<1>7. ASSUME WriteTemp PROVE KindInv' BY <1>7 DEF WriteTemp
<1>8. ASSUME Rename PROVE KindInv' BY <1>8 DEF Rename
<1>9. ASSUME OpenManifest PROVE KindInv' BY <1>9 DEF OpenManifest
<1>10. ASSUME RenderOutput PROVE KindInv' BY <1>10 DEF RenderOutput
<1>11. ASSUME FaultyStep PROVE KindInv' BY <1>11 DEF FaultyStep
<1>12. ASSUME Crash PROVE KindInv' BY <1>12 DEF Crash
<1>13. ASSUME NEW new \in EditedFiles, UserWrites(new) PROVE KindInv'
  BY <1>13 DEF UserWrites
<1>14. ASSUME UNCHANGED relevant PROVE KindInv' BY <1>14 DEF relevant
<1> QED BY <1>1, <1>2, <1>3, <1>4, <1>5, <1>6, <1>7, <1>8, <1>9, <1>10, <1>11,
           <1>12, <1>13, <1>14, Cases

(* What a command merges is an inspection of the keys it selected.         *)
LEMMA FreshStep ==
  ASSUME TypeOK, FreshInv, [Next]_vars
  PROVE  FreshInv'
<1> USE FreshInv DEF FreshInv, InspectSteps, Finish, Fail
<1>1. ASSUME NEW kind \in Kinds, NEW sel \in Selections, Start(kind, sel)
      PROVE FreshInv'
  BY <1>1 DEF Start
<1>2. ASSUME BackendInspect PROVE FreshInv'
  <2>1. AllManaged(New(Database, catalog))
    BY NewType, DatabaseAssumption, TypeOK DEF TypeOK
  <2> QED BY <1>2, <2>1 DEF BackendInspect
<1>3. ASSUME SelectInspected PROVE FreshInv'
  <2>1. fresh \in Documents /\ command.selection \in SUBSET Selectors
    BY SelectionsAssumption, TypeOK DEF TypeOK
  <2>2. CASE pc' = "idle" BY <2>2
  <2>3. CASE pc' # "idle"
    <3>1. /\ fresh' = SelectTables(fresh, command.selection)
          /\ keys' = SelectedKeys(fresh, command.selection)
          /\ AllManaged(fresh)
      BY <1>3, <2>3 DEF SelectInspected
    <3> QED BY <2>1, <3>1, SelectType
  <2> QED BY <2>2, <2>3
<1>4. ASSUME LoadPrevious PROVE FreshInv' BY <1>4 DEF LoadPrevious
<1>5. ASSUME MergePrevious PROVE FreshInv' BY <1>5 DEF MergePrevious
<1>6. ASSUME CreateTemp PROVE FreshInv' BY <1>6 DEF CreateTemp
<1>7. ASSUME WriteTemp PROVE FreshInv' BY <1>7 DEF WriteTemp
<1>8. ASSUME Rename PROVE FreshInv' BY <1>8 DEF Rename
<1>9. ASSUME OpenManifest PROVE FreshInv' BY <1>9 DEF OpenManifest
<1>10. ASSUME RenderOutput PROVE FreshInv' BY <1>10 DEF RenderOutput
<1>11. ASSUME FaultyStep PROVE FreshInv' BY <1>11 DEF FaultyStep
<1>12. ASSUME Crash PROVE FreshInv' BY <1>12 DEF Crash
<1>13. ASSUME NEW new \in EditedFiles, UserWrites(new) PROVE FreshInv'
  BY <1>13 DEF UserWrites
<1>14. ASSUME UNCHANGED relevant PROVE FreshInv' BY <1>14 DEF relevant
<1> QED BY <1>1, <1>2, <1>3, <1>4, <1>5, <1>6, <1>7, <1>8, <1>9, <1>10, <1>11,
           <1>12, <1>13, <1>14, Cases

(* What is saved is the inspection, or its merge with what was loaded.     *)
LEMMA RefreshStep ==
  ASSUME TypeOK, KindInv, RefreshInv, [Next]_vars
  PROVE  RefreshInv'
<1> USE RefreshInv DEF RefreshInv, FirstRefresh, LaterRefresh, RefreshOf, Old,
                       Finish, Fail
<1>0. fresh \in Documents /\ document \in Documents BY TypeOK DEF TypeOK
<1>1. ASSUME NEW kind \in Kinds, NEW sel \in Selections, Start(kind, sel)
      PROVE RefreshInv'
  BY <1>1 DEF Start
<1>2. ASSUME BackendInspect PROVE RefreshInv' BY <1>2 DEF BackendInspect
<1>3. ASSUME SelectInspected PROVE RefreshInv' BY <1>3 DEF SelectInspected
<1>4. ASSUME LoadPrevious PROVE RefreshInv'
  <2>1. ~touched => file = before BY <1>4 DEF LoadPrevious, KindInv, InspectSteps
  <2>2. CASE file = NoFile /\ document' = Canonicalize(fresh) /\ pc' = "create"
    <3>1. Canonicalize(Canonicalize(fresh)) = Canonicalize(fresh)
      BY <1>0, CanonicalizeTwice
    <3>2. UNCHANGED <<fresh, before, touched>> BY <1>4 DEF LoadPrevious
    <3> QED BY <2>1, <2>2, <3>1, <3>2
  <2>3. CASE file \in Documents /\ document' = Canonicalize(file) /\ pc' = "merge"
    <3>1. Canonicalize(Canonicalize(file)) = Canonicalize(file)
      BY <2>3, CanonicalizeTwice
    <3>2. UNCHANGED <<fresh, before, touched>> BY <1>4 DEF LoadPrevious
    <3> QED BY <2>1, <2>3, <3>1, <3>2
  <2>4. CASE pc' = "idle" BY <2>4
  <2> QED BY <1>4, <2>2, <2>3, <2>4 DEF LoadPrevious
<1>5. ASSUME MergePrevious PROVE RefreshInv'
  <2>1. CASE pc' = "idle" BY <2>1
  <2>2. CASE pc' # "idle"
    <3>1. /\ SameDatabase(fresh, document)
          /\ document' = RefreshOf(document)
          /\ UNCHANGED <<command, fresh, before, touched>>
          /\ pc' = "create"
      BY <1>5, <2>2 DEF MergePrevious
    <3>2. Canonicalize(document') = document'
      BY <1>0, <3>1, MergeDocuments
    <3>3. \E previous \in Documents : LaterRefresh(previous)'
      BY <1>0, <1>5, <3>1 DEF MergePrevious
    <3> QED BY <3>1, <3>2, <3>3
  <2> QED BY <2>1, <2>2
<1>6. ASSUME CreateTemp PROVE RefreshInv' BY <1>6 DEF CreateTemp
<1>7. ASSUME WriteTemp PROVE RefreshInv' BY <1>7 DEF WriteTemp
<1>8. ASSUME Rename PROVE RefreshInv' BY <1>8 DEF Rename
<1>9. ASSUME OpenManifest PROVE RefreshInv' BY <1>9 DEF OpenManifest
<1>10. ASSUME RenderOutput PROVE RefreshInv' BY <1>10 DEF RenderOutput
<1>11. ASSUME FaultyStep PROVE RefreshInv' BY <1>11 DEF FaultyStep
<1>12. ASSUME Crash PROVE RefreshInv' BY <1>12 DEF Crash
<1>13. ASSUME NEW new \in EditedFiles, UserWrites(new) PROVE RefreshInv'
  BY <1>13 DEF UserWrites
<1>14. ASSUME UNCHANGED relevant PROVE RefreshInv' BY <1>14 DEF relevant
<1> QED BY <1>1, <1>2, <1>3, <1>4, <1>5, <1>6, <1>7, <1>8, <1>9, <1>10, <1>11,
           <1>12, <1>13, <1>14, Cases

(* After the commit the document is what the file says of the selection.   *)
LEMMA CommittedStep ==
  ASSUME TypeOK, Written, KindInv, RefreshInv, CommittedInv, [Next]_vars
  PROVE  CommittedInv'
<1> USE CommittedInv DEF CommittedInv, Finish, Fail
<1>0. fresh \in Documents /\ document \in Documents
        /\ command.selection \in SUBSET Selectors
  BY SelectionsAssumption, TypeOK DEF TypeOK
<1>1. ASSUME NEW kind \in Kinds, NEW sel \in Selections, Start(kind, sel)
      PROVE CommittedInv'
  BY <1>1 DEF Start
<1>2. ASSUME BackendInspect PROVE CommittedInv' BY <1>2 DEF BackendInspect
<1>3. ASSUME SelectInspected PROVE CommittedInv' BY <1>3 DEF SelectInspected
<1>4. ASSUME LoadPrevious PROVE CommittedInv' BY <1>4 DEF LoadPrevious
<1>5. ASSUME MergePrevious PROVE CommittedInv' BY <1>5 DEF MergePrevious
<1>6. ASSUME CreateTemp PROVE CommittedInv' BY <1>6 DEF CreateTemp
<1>7. ASSUME WriteTemp PROVE CommittedInv' BY <1>7 DEF WriteTemp
<1>8. ASSUME Rename PROVE CommittedInv'
  <2>1. /\ file' = Canonicalize(document) /\ Canonicalize(document) = document
        /\ document' = RestrictTo(document, keys) /\ keys' = keys
    BY <1>8, Written, RefreshInv DEF Rename, Written, RefreshInv
  <2> QED BY <1>0, <2>1
<1>9. ASSUME OpenManifest PROVE CommittedInv'
  <2>1. CASE pc' = "idle" BY <2>1
  <2>2. CASE pc' # "idle"
    <3>1. /\ file \in Documents /\ file' = file /\ command' = command
          /\ document' = SelectTables(Canonicalize(file), command.selection)
          /\ keys' = SelectedKeys(Canonicalize(file), command.selection)
          /\ command.kind = "render"
      BY <1>9, <2>2, KindInv DEF OpenManifest, KindInv
    <3>2. Canonicalize(file) \in Documents
            /\ Canonicalize(Canonicalize(file)) = Canonicalize(file)
      BY <3>1, CanonicalizeType, CanonicalizeTwice
    <3>3. document' = RestrictTo(Canonicalize(file), keys')
      BY <1>0, <3>1, <3>2, SelectType
    <3> QED BY <3>1, <3>3
  <2> QED BY <2>1, <2>2
<1>10. ASSUME RenderOutput PROVE CommittedInv' BY <1>10 DEF RenderOutput
<1>11. ASSUME FaultyStep PROVE CommittedInv' BY <1>11 DEF FaultyStep
<1>12. ASSUME Crash PROVE CommittedInv' BY <1>12 DEF Crash
<1>13. ASSUME NEW new \in EditedFiles, UserWrites(new) PROVE CommittedInv'
  BY <1>13 DEF UserWrites
<1>14. ASSUME UNCHANGED relevant PROVE CommittedInv' BY <1>14 DEF relevant
<1> QED BY <1>1, <1>2, <1>3, <1>4, <1>5, <1>6, <1>7, <1>8, <1>9, <1>10, <1>11,
           <1>12, <1>13, <1>14, Cases

(* The file is the one that was found or the complete refresh.             *)
LEMMA AllOrNothingStep ==
  ASSUME TypeOK, Written, KindInv, RefreshInv, CommittedInv, AllOrNothing, [Next]_vars
  PROVE  AllOrNothing'
<1> USE AllOrNothing, KindInv DEF AllOrNothing, KindInv, InspectSteps, Finish, Fail
<1>1. ASSUME NEW kind \in Kinds, NEW sel \in Selections, Start(kind, sel)
      PROVE AllOrNothing'
  BY <1>1 DEF Start
<1>2. ASSUME BackendInspect PROVE AllOrNothing' BY <1>2 DEF BackendInspect
<1>3. ASSUME SelectInspected PROVE AllOrNothing' BY <1>3 DEF SelectInspected
<1>4. ASSUME LoadPrevious PROVE AllOrNothing' BY <1>4 DEF LoadPrevious
<1>5. ASSUME MergePrevious PROVE AllOrNothing' BY <1>5 DEF MergePrevious
<1>6. ASSUME CreateTemp PROVE AllOrNothing' BY <1>6 DEF CreateTemp
<1>7. ASSUME WriteTemp PROVE AllOrNothing' BY <1>7 DEF WriteTemp
<1>8. ASSUME Rename PROVE AllOrNothing'
  <2>1. /\ file' = Canonicalize(document) /\ Canonicalize(document) = document
        /\ document' = RestrictTo(document, keys)
        /\ UNCHANGED <<keys, command>>
        /\ pc' = "render" \/ (pc' = "idle" /\ result' = "ok")
    BY <1>8, Written, RefreshInv DEF Rename, Written, RefreshInv
  <2>2. document \in Documents /\ command.kind \in {"inspect", "generate"}
    BY <1>8, TypeOK DEF TypeOK, Kinds, Rename
  <2> QED BY <2>1, <2>2
<1>9. ASSUME OpenManifest PROVE AllOrNothing' BY <1>9 DEF OpenManifest
<1>10. ASSUME RenderOutput PROVE AllOrNothing'
  <2>1. UNCHANGED <<file, document, keys, command, before, touched>>
    BY <1>10 DEF RenderOutput
  <2>2. pc = "render" /\ pc' = "idle" /\ result' \in {"ok", "failed"}
    BY <1>10 DEF RenderOutput
  <2> QED BY <2>1, <2>2, CommittedInv, TypeOK DEF CommittedInv, TypeOK, Kinds
<1>11. ASSUME FaultyStep PROVE AllOrNothing'
  <2>1. UNCHANGED <<file, document, keys, command, before, touched>>
    BY <1>11 DEF FaultyStep
  <2>2. pc # "idle" /\ pc' = "idle" /\ result' = "failed"
    BY <1>11 DEF FaultyStep
  <2> QED BY <2>1, <2>2, TypeOK DEF TypeOK, Steps
<1>12. ASSUME Crash PROVE AllOrNothing' BY <1>12 DEF Crash
<1>13. ASSUME NEW new \in EditedFiles, UserWrites(new) PROVE AllOrNothing'
  BY <1>13 DEF UserWrites
<1>14. ASSUME UNCHANGED relevant PROVE AllOrNothing' BY <1>14 DEF relevant
<1> QED BY <1>1, <1>2, <1>3, <1>4, <1>5, <1>6, <1>7, <1>8, <1>9, <1>10, <1>11,
           <1>12, <1>13, <1>14, Cases

(* A render leaves what the document, and so the file, describes.          *)
LEMMA OutputStep ==
  ASSUME TypeOK, KindInv, CommittedInv, OutputMatchesManifest, [Next]_vars
  PROVE  OutputMatchesManifest'
<1> USE OutputMatchesManifest DEF OutputMatchesManifest, Finish, Fail
<1>1. ASSUME NEW kind \in Kinds, NEW sel \in Selections, Start(kind, sel)
      PROVE OutputMatchesManifest'
  BY <1>1 DEF Start
<1>2. ASSUME BackendInspect PROVE OutputMatchesManifest' BY <1>2 DEF BackendInspect
<1>3. ASSUME SelectInspected PROVE OutputMatchesManifest' BY <1>3 DEF SelectInspected
<1>4. ASSUME LoadPrevious PROVE OutputMatchesManifest' BY <1>4 DEF LoadPrevious
<1>5. ASSUME MergePrevious PROVE OutputMatchesManifest' BY <1>5 DEF MergePrevious
<1>6. ASSUME CreateTemp PROVE OutputMatchesManifest' BY <1>6 DEF CreateTemp
<1>7. ASSUME WriteTemp PROVE OutputMatchesManifest' BY <1>7 DEF WriteTemp
<1>8. ASSUME Rename PROVE OutputMatchesManifest'
  <2>1. pc' = "idle" => command'.kind # "generate" BY <1>8 DEF Rename
  <2>2. command' = command /\ command.kind \in {"inspect", "generate"}
    BY <1>8, KindInv, TypeOK DEF Rename, KindInv, InspectSteps, TypeOK, Kinds
  <2> QED BY <2>1, <2>2
<1>9. ASSUME OpenManifest PROVE OutputMatchesManifest' BY <1>9 DEF OpenManifest
<1>10. ASSUME RenderOutput PROVE OutputMatchesManifest'
  <2>1. CASE result' # "ok" BY <2>1
  <2>2. CASE result' = "ok"
    <3>1. /\ output' = Rendered(ManagedTables(document))
          /\ UNCHANGED <<file, keys, touched>>
          /\ pc = "render"
      BY <1>10, <2>2 DEF RenderOutput
    <3>2. output' = Rendered(document)
      BY <3>1, RenderedType, TypeOK DEF TypeOK
    <3> QED BY <3>1, <3>2, CommittedInv DEF CommittedInv
  <2> QED BY <2>1, <2>2
<1>11. ASSUME FaultyStep PROVE OutputMatchesManifest' BY <1>11 DEF FaultyStep
<1>12. ASSUME Crash PROVE OutputMatchesManifest' BY <1>12 DEF Crash
<1>13. ASSUME NEW new \in EditedFiles, UserWrites(new) PROVE OutputMatchesManifest'
  BY <1>13 DEF UserWrites
<1>14. ASSUME UNCHANGED relevant PROVE OutputMatchesManifest' BY <1>14 DEF relevant
<1> QED BY <1>1, <1>2, <1>3, <1>4, <1>5, <1>6, <1>7, <1>8, <1>9, <1>10, <1>11,
           <1>12, <1>13, <1>14, Cases

(* Init establishes the invariant and every step preserves it.             *)
LEMMA InitInvariant == ASSUME Init PROVE IInv
<1>1. TypeOK BY TypeInit
<1>2. Written /\ KindInv /\ FreshInv /\ RefreshInv /\ CommittedInv
  BY DEF Init, Written, KindInv, FreshInv, RefreshInv, CommittedInv, InspectSteps
<1>3. AllOrNothing /\ OutputMatchesManifest
  BY DEF Init, AllOrNothing, OutputMatchesManifest
<1> QED BY <1>1, <1>2, <1>3 DEF IInv

(* The inductive invariant holds throughout every behaviour.               *)
LEMMA Invariance == Spec => []IInv
<1>1. Init => IInv BY InitInvariant
<1>2. IInv /\ [Next]_vars => IInv'
  <2> SUFFICES ASSUME IInv, [Next]_vars PROVE IInv' OBVIOUS
  <2> USE DEF IInv
  <2>1. TypeOK' BY TypeStep
  <2>2. Written' BY WrittenStep
  <2>3. KindInv' BY KindStep
  <2>4. FreshInv' BY FreshStep
  <2>5. RefreshInv' BY RefreshStep
  <2>6. CommittedInv' BY CommittedStep
  <2>7. AllOrNothing' BY AllOrNothingStep
  <2>8. OutputMatchesManifest' BY OutputStep
  <2> QED BY <2>1, <2>2, <2>3, <2>4, <2>5, <2>6, <2>7, <2>8
<1> QED BY <1>1, <1>2, PTL DEF Spec

-----------------------------------------------------------------------------
(* The invariants. *)

(* Every reachable state is well typed: a manifest under its name is a     *)
(* complete document unless the user spoiled it.                           *)
THEOREM ServiceTypeCorrect == Spec => []TypeOK
<1>1. IInv => TypeOK BY DEF IInv
<1> QED BY <1>1, Invariance, PTL

(* Whatever fails, is canceled or dies, the manifest is the one the        *)
(* command found or its complete refresh (SaveAtomic, inspectAndSave).     *)
THEOREM RefreshIsAtomic == Spec => []AllOrNothing
<1>1. IInv => AllOrNothing BY DEF IInv
<1> QED BY <1>1, Invariance, PTL

(* After a successful Render or Generate the output is what the manifest   *)
(* file says of the managed tables of the selection.                       *)
THEOREM OutputAgrees == Spec => []OutputMatchesManifest
<1>1. IInv => OutputMatchesManifest BY DEF IInv
<1> QED BY <1>1, Invariance, PTL

-----------------------------------------------------------------------------
(* The action properties: what a save does to the file.                    *)

(* A merged entry keeps what the user chose.                               *)
LEMMA MergeKeeps ==
  ASSUME NEW new \in Entries, NEW old \in Entries, CanonicalEntry(old) = old
  PROVE  /\ MergeTable(new, old).name = old.name
         /\ \A c \in Columns :
              \/ MergeTable(new, old).columns[c] = None
              \/ old.columns[c] = None
              \/ MergeTable(new, old).columns[c].choice = old.columns[c].choice
<1> DEFINE cols == [c \in Columns |-> MergeColumn(new.columns[c], old.columns[c])]
<1>0. new # None /\ old # None BY NoneAssumption
<1>1. CASE old.managed
  <2>1. MergeTable(new, old) = [managed |-> TRUE, name |-> old.name, columns |-> cols]
    BY <1>0, <1>1 DEF MergeTable
  <2>2. \A c \in Columns : cols[c] = MergeColumn(new.columns[c], old.columns[c]) OBVIOUS
  <2> HIDE DEF cols
  <2>3. MergeTable(new, old).name = old.name /\ MergeTable(new, old).columns = cols
    BY <2>1
  <2>4. \A c \in Columns : /\ new.columns[c] \in ColumnEntries \cup {None}
                           /\ old.columns[c] \in ColumnEntries \cup {None}
    BY DEF Entries
  <2> QED BY <2>2, <2>3, <2>4, MergeColumnType
<1>2. CASE ~old.managed
  <2>1. MergeTable(new, old) = [managed |-> FALSE, name |-> None, columns |-> NoColumns]
    BY <1>0, <1>2 DEF MergeTable
  <2>2. old = clearUnmanagedTable(old) BY <1>0, <1>2 DEF CanonicalEntry
  <2>3. old.name = None BY <2>2 DEF clearUnmanagedTable
  <2> QED BY <2>1, <2>3 DEF NoColumns
<1> QED BY <1>1, <1>2

(* A merged entry has the columns and the facts that were inspected, or    *)
(* is a bare identity.                                                     *)
LEMMA MergeRefreshes ==
  ASSUME NEW new \in Entries, NEW old \in Entries \cup {None}, new.managed
  PROVE  \/ /\ MergeTable(new, old).managed
            /\ \A c \in Columns :
                 /\ MergeTable(new, old).columns[c] = None <=> new.columns[c] = None
                 /\ new.columns[c] # None =>
                      MergeTable(new, old).columns[c].fact = new.columns[c].fact
         \/ MergeTable(new, old) =
              [managed |-> FALSE, name |-> None, columns |-> NoColumns]
<1> DEFINE cols == [c \in Columns |-> MergeColumn(new.columns[c], old.columns[c])]
<1>0. new # None BY NoneAssumption
<1>1. CASE old = None
  BY <1>0, <1>1 DEF MergeTable
<1>2. CASE old # None /\ ~old.managed
  BY <1>0, <1>2 DEF MergeTable
<1>3. CASE old # None /\ old.managed
  <2>1. MergeTable(new, old) = [managed |-> TRUE, name |-> old.name, columns |-> cols]
    BY <1>0, <1>3 DEF MergeTable
  <2>2. \A c \in Columns : cols[c] = MergeColumn(new.columns[c], old.columns[c]) OBVIOUS
  <2> HIDE DEF cols
  <2>3. MergeTable(new, old).managed /\ MergeTable(new, old).columns = cols BY <2>1
  <2>4. \A c \in Columns : /\ new.columns[c] \in ColumnEntries \cup {None}
                           /\ old.columns[c] \in ColumnEntries \cup {None}
    BY <1>3 DEF Entries
  <2> QED BY <2>2, <2>3, <2>4, MergeColumnType
<1> QED BY <1>1, <1>2, <1>3

(* Merging what was already known changes nothing.                         *)
LEMMA MergeStable ==
  ASSUME NEW new \in Entries, NEW old \in Entries, CanonicalEntry(old) = old,
         old.managed => \A c \in Columns :
            /\ new.columns[c] = None <=> old.columns[c] = None
            /\ new.columns[c] # None => new.columns[c].fact = old.columns[c].fact
  PROVE  MergeTable(new, old) = old
<1> DEFINE cols == [c \in Columns |-> MergeColumn(new.columns[c], old.columns[c])]
<1>0. new # None /\ old # None BY NoneAssumption
<1>1. CASE old.managed
  <2>1. MergeTable(new, old) = [managed |-> TRUE, name |-> old.name, columns |-> cols]
    BY <1>0, <1>1 DEF MergeTable
  <2>2. ASSUME NEW c \in Columns
        PROVE  MergeColumn(new.columns[c], old.columns[c]) = old.columns[c]
    <3>1. new.columns[c] \in ColumnEntries \cup {None}
            /\ old.columns[c] \in ColumnEntries \cup {None}
      BY DEF Entries
    <3>2. /\ new.columns[c] = None <=> old.columns[c] = None
          /\ new.columns[c] # None => new.columns[c].fact = old.columns[c].fact
      BY <1>1
    <3> QED BY <3>1, <3>2 DEF MergeColumn, ColumnEntries
  <2>3. cols = old.columns BY <2>2 DEF Entries
  <2>4. old = [managed |-> TRUE, name |-> old.name, columns |-> old.columns]
    BY <1>1 DEF Entries
  <2> QED BY <2>1, <2>3, <2>4
<1>2. CASE ~old.managed
  <2>1. MergeTable(new, old) = [managed |-> FALSE, name |-> None, columns |-> NoColumns]
    BY <1>0, <1>2 DEF MergeTable
  <2>2. old = clearUnmanagedTable(old) BY <1>0, <1>2 DEF CanonicalEntry
  <2>3. old.managed = FALSE BY <1>2 DEF Entries
  <2> QED BY <2>1, <2>2, <2>3 DEF clearUnmanagedTable
<1> QED BY <1>1, <1>2

(* A save puts the document in the file; if the user did not interfere,    *)
(* and there was a manifest, it is its merge with what was inspected.      *)
LEMMA SaveIsRefresh ==
  ASSUME IInv, Saves
  PROVE  /\ file' = document /\ document \in Documents
         /\ fresh \in Documents /\ AllManaged(fresh) /\ keys = Present(fresh)
         /\ document = Canonicalize(fresh)
              \/ \E previous \in Documents : document = RefreshOf(previous)
         /\ Undisturbed => /\ Old \in Documents /\ Canonicalize(Old) = Old
                           /\ fresh.db = Old.db
                           /\ document = RefreshOf(Old)
<1> USE DEF IInv, Saves
<1>1. file' = document
  BY DEF Written, RefreshInv
<1>2. document \in Documents /\ fresh \in Documents BY DEF TypeOK
<1>3. AllManaged(fresh) /\ keys = Present(fresh) BY DEF FreshInv, InspectSteps
<1>4. FirstRefresh \/ \E previous \in Documents : LaterRefresh(previous)
  BY DEF RefreshInv
<1>5. document = Canonicalize(fresh)
        \/ \E previous \in Documents : document = RefreshOf(previous)
  BY <1>4 DEF FirstRefresh, LaterRefresh
<1>6. ASSUME Undisturbed
      PROVE  /\ Old \in Documents /\ Canonicalize(Old) = Old
             /\ fresh.db = Old.db /\ document = RefreshOf(Old)
  <2>1. ~touched /\ before \in Documents /\ before # NoFile
    BY <1>6, FilesAssumption DEF Undisturbed
  <2>2. PICK previous \in Documents : LaterRefresh(previous)
    BY <1>4, <2>1 DEF FirstRefresh
  <2>3. previous = Old BY <2>1, <2>2 DEF LaterRefresh
  <2> QED BY <2>2, <2>3 DEF LaterRefresh, SameDatabase
<1> QED BY <1>1, <1>2, <1>3, <1>5, <1>6

(* The entries of a refresh, whichever of the two merges made it.          *)
LEMMA RefreshTables ==
  ASSUME fresh \in Documents, AllManaged(fresh), NEW p \in Documents,
         Canonicalize(p) = p
  PROVE  /\ RefreshOf(p).db = fresh.db
         /\ RefreshOf(p).mappings = p.mappings
         /\ \A t \in Present(fresh) :
              RefreshOf(p).tables[t] = MergeTable(fresh.tables[t], p.tables[t])
         /\ \A t \in Tables \ Present(fresh) :
              RefreshOf(p).tables[t] =
                IF command.selection = {} THEN None ELSE p.tables[t]
<1>1. \A t \in Tables : CanonicalEntry(p.tables[t]) = p.tables[t]
  BY CanonicalizeType
<1>2. CASE command.selection = {}
  <2>1. RefreshOf(p) = Merge(fresh, p) BY <1>2 DEF RefreshOf
  <2>2. \A t \in Tables \ Present(fresh) :
          MergeTable(fresh.tables[t], p.tables[t]) = None
    BY DEF MergeTable, Present
  <2>3. Present(fresh) \subseteq Tables BY DEF Present
  <2> QED BY <1>2, <2>1, <2>2, <2>3, MergeType
<1>3. CASE command.selection # {}
  <2>1. RefreshOf(p) = MergeSelected(fresh, p) BY <1>3 DEF RefreshOf
  <2>2. Present(fresh) \subseteq Tables BY DEF Present
  <2> QED BY <1>1, <1>3, <2>1, <2>2, MergeSelectedType
<1> QED BY <1>2, <1>3

(* A save keeps every choice of the manifest that was loaded: flags, names,*)
(* columns' choices and mappings, and all of what was not selected (Merge, *)
(* MergeSelected).                                                         *)
THEOREM ChoicesKept == Spec => KeepsChoices
<1>1. ASSUME IInv, Saves, Undisturbed
      PROVE  /\ file'.db = Old.db
             /\ file'.mappings = Old.mappings
             /\ Present(file') \subseteq keys \cup Present(Old)
             /\ \A t \in Present(Old) : KeptEntry(t)
  <2>1. /\ file' = RefreshOf(Old) /\ file' \in Documents
        /\ fresh \in Documents /\ AllManaged(fresh) /\ keys = Present(fresh)
        /\ Old \in Documents /\ Canonicalize(Old) = Old /\ fresh.db = Old.db
    BY <1>1, SaveIsRefresh
  <2>2. /\ file'.db = Old.db /\ file'.mappings = Old.mappings
        /\ \A t \in keys : file'.tables[t] = MergeTable(fresh.tables[t], Old.tables[t])
        /\ \A t \in Tables \ keys :
             file'.tables[t] = IF command.selection = {} THEN None ELSE Old.tables[t]
    BY <2>1, RefreshTables
  <2>3. Present(file') \subseteq keys \cup Present(Old)
    BY <2>2 DEF Present
  <2>4. ASSUME NEW t \in Present(Old) PROVE KeptEntry(t)
    <3>0. t \in Tables /\ Old.tables[t] \in Entries
      BY <2>1, <2>4, EntryOf DEF Present
    <3>1. CASE t \notin keys BY <2>2, <3>0, <3>1 DEF KeptEntry
    <3>2. CASE t \in keys
      <4>1. fresh.tables[t] \in Entries /\ fresh.tables[t] # None
        BY <2>1, <3>2, EntryOf DEF Present
      <4>2. CanonicalEntry(Old.tables[t]) = Old.tables[t]
        BY <2>1, <3>0, CanonicalizeType
      <4>3. /\ file'.tables[t] # None
            /\ file'.tables[t].managed = Old.tables[t].managed
        BY <2>2, <3>0, <3>2, <4>1, MergeTableType, NoneAssumption
      <4>4. /\ file'.tables[t].name = Old.tables[t].name
            /\ \A c \in Columns :
                 \/ file'.tables[t].columns[c] = None
                 \/ Old.tables[t].columns[c] = None
                 \/ file'.tables[t].columns[c].choice = Old.tables[t].columns[c].choice
        BY <2>2, <3>0, <3>2, <4>1, <4>2, MergeKeeps
      <4>5. t \in Present(file') BY <3>0, <4>3 DEF Present
      <4> QED BY <3>2, <4>3, <4>4, <4>5 DEF KeptEntry
    <3> QED BY <3>1, <3>2
  <2> QED BY <2>2, <2>3, <2>4
<1>2. IInv /\ [Next]_vars => [Saves /\ Undisturbed =>
        /\ file'.db = Old.db
        /\ file'.mappings = Old.mappings
        /\ Present(file') \subseteq keys \cup Present(Old)
        /\ \A t \in Present(Old) : KeptEntry(t)]_vars
  BY <1>1
<1> QED BY <1>2, Invariance, PTL DEF Spec, KeepsChoices

(* A save says of the selected tables what the same command's inspection   *)
(* found, and nothing of a table that is not managed.                      *)
THEOREM FactsRefreshed == Spec => FactsAreFresh
<1>1. ASSUME IInv, Saves
      PROVE  /\ keys \subseteq Present(file')
             /\ \A t \in keys \cap ManagedKeys(file'), c \in Columns :
                  FactOf(file', t, c) = FactOf(fresh, t, c)
             /\ \A t \in keys \ ManagedKeys(file') :
                  file'.tables[t] = [managed |-> FALSE, name |-> None,
                                     columns |-> NoColumns]
  <2>1. /\ file' = document /\ document \in Documents
        /\ fresh \in Documents /\ AllManaged(fresh) /\ keys = Present(fresh)
        /\ document = Canonicalize(fresh)
             \/ \E previous \in Documents : document = RefreshOf(previous)
    BY <1>1, SaveIsRefresh
  <2>2. ASSUME NEW t \in keys
        PROVE  \/ file'.tables[t] = fresh.tables[t]
               \/ \E old \in Entries \cup {None} :
                    file'.tables[t] = MergeTable(fresh.tables[t], old)
    <3>0. t \in Tables /\ fresh.tables[t] # None /\ fresh.tables[t].managed
      BY <2>1, <2>2 DEF Present, AllManaged
    <3>1. CASE document = Canonicalize(fresh)
      BY <2>1, <3>0, <3>1, CanonicalizeType DEF CanonicalEntry
    <3>2. CASE \E previous \in Documents : document = RefreshOf(previous)
      <4>1. PICK p \in Documents : document = RefreshOf(p) BY <3>2
      <4>2. document.tables[t] = MergeTable(fresh.tables[t], p.tables[t])
        BY <2>1, <2>2, <3>0, <4>1, MergeType, MergeSelectedType DEF RefreshOf
      <4> QED BY <2>1, <3>0, <4>2, EntryOf
    <3> QED BY <2>1, <3>1, <3>2
  <2>3. ASSUME NEW t \in keys
        PROVE  /\ t \in Tables /\ file'.tables[t] # None
               /\ \/ /\ file'.tables[t].managed
                     /\ \A c \in Columns : FactOf(file', t, c) = FactOf(fresh, t, c)
                  \/ file'.tables[t] = [managed |-> FALSE, name |-> None,
                                        columns |-> NoColumns]
    <3>0. /\ t \in Tables /\ fresh.tables[t] \in Entries
          /\ fresh.tables[t] # None /\ fresh.tables[t].managed
      BY <2>1, <2>3, EntryOf DEF Present, AllManaged
    <3>1. CASE file'.tables[t] = fresh.tables[t]
      BY <3>0, <3>1 DEF FactOf
    <3>2. CASE \E old \in Entries \cup {None} :
                 file'.tables[t] = MergeTable(fresh.tables[t], old)
      <4>1. PICK old \in Entries \cup {None} :
               file'.tables[t] = MergeTable(fresh.tables[t], old)
        BY <3>2
      <4>2. file'.tables[t] # None BY <3>0, <4>1, MergeTableType
      <4> QED BY <3>0, <4>1, <4>2, MergeRefreshes DEF FactOf
    <3> QED BY <2>2, <2>3, <3>1, <3>2
  <2>4. keys \subseteq Present(file') BY <2>3 DEF Present
  <2>5. ASSUME NEW t \in keys
        PROVE  t \in ManagedKeys(file') <=> file'.tables[t].managed
    BY <2>4, <2>5 DEF ManagedKeys
  <2>6. ASSUME NEW t \in keys \cap ManagedKeys(file'), NEW c \in Columns
        PROVE  FactOf(file', t, c) = FactOf(fresh, t, c)
    <3>1. file'.tables[t].managed BY <2>5
    <3>2. file'.tables[t] # [managed |-> FALSE, name |-> None, columns |-> NoColumns]
      BY <3>1
    <3> QED BY <2>3, <3>2
  <2>7. ASSUME NEW t \in keys \ ManagedKeys(file')
        PROVE  file'.tables[t] = [managed |-> FALSE, name |-> None,
                                  columns |-> NoColumns]
    <3>1. ~file'.tables[t].managed BY <2>5
    <3> QED BY <2>3, <3>1
  <2> QED BY <2>4, <2>6, <2>7
<1>2. IInv /\ [Next]_vars => [Saves =>
        /\ keys \subseteq Present(file')
        /\ \A t \in keys \cap ManagedKeys(file'), c \in Columns :
             FactOf(file', t, c) = FactOf(fresh, t, c)
        /\ \A t \in keys \ ManagedKeys(file') :
             file'.tables[t] = [managed |-> FALSE, name |-> None,
                                columns |-> NoColumns]]_vars
  BY <1>1
<1> QED BY <1>2, Invariance, PTL DEF Spec, FactsAreFresh

(* Refreshing a manifest that already says what the inspection found       *)
(* changes nothing in it.                                                  *)
THEOREM RefreshStable == Spec => RefreshIsStable
<1>1. ASSUME IInv, Saves, Undisturbed, UpToDate
      PROVE  file' = Old
  <2>1. /\ file' = RefreshOf(Old) /\ file' \in Documents
        /\ fresh \in Documents /\ AllManaged(fresh) /\ keys = Present(fresh)
        /\ Old \in Documents /\ Canonicalize(Old) = Old /\ fresh.db = Old.db
    BY <1>1, SaveIsRefresh
  <2>2. /\ file'.db = Old.db /\ file'.mappings = Old.mappings
        /\ \A t \in keys : file'.tables[t] = MergeTable(fresh.tables[t], Old.tables[t])
        /\ \A t \in Tables \ keys :
             file'.tables[t] = IF command.selection = {} THEN None ELSE Old.tables[t]
    BY <2>1, RefreshTables
  <2>3. ASSUME NEW t \in Tables PROVE file'.tables[t] = Old.tables[t]
    <3>1. CASE t \notin keys BY <1>1, <2>2, <3>1 DEF UpToDate, Present
    <3>2. CASE t \in keys
      <4>1. /\ fresh.tables[t] \in Entries /\ Old.tables[t] \in Entries
            /\ CanonicalEntry(Old.tables[t]) = Old.tables[t]
        BY <1>1, <2>1, <3>2, EntryOf, CanonicalizeType DEF Present, UpToDate
      <4>2. ASSUME Old.tables[t].managed, NEW c \in Columns
            PROVE  /\ fresh.tables[t].columns[c] = None
                        <=> Old.tables[t].columns[c] = None
                   /\ fresh.tables[t].columns[c] # None =>
                        fresh.tables[t].columns[c].fact = Old.tables[t].columns[c].fact
        <5>1. t \in keys \cap ManagedKeys(Old)
          BY <1>1, <3>2, <4>2 DEF UpToDate, ManagedKeys
        <5>2. FactOf(Old, t, c) = FactOf(fresh, t, c) BY <1>1, <5>1 DEF UpToDate
        <5>3. /\ fresh.tables[t].columns[c] \in ColumnEntries \cup {None}
              /\ Old.tables[t].columns[c] \in ColumnEntries \cup {None}
          BY <4>1 DEF Entries
        <5> QED BY <5>2, <5>3, NoneAssumption DEF FactOf, ColumnEntries
      <4> QED BY <2>2, <3>2, <4>1, <4>2, MergeStable
    <3> QED BY <3>1, <3>2
  <2> QED BY <2>1, <2>2, <2>3, SameDocument
<1>2. IInv /\ [Next]_vars => [Saves /\ Undisturbed /\ UpToDate => file' = Old]_vars
  BY <1>1
<1> QED BY <1>2, Invariance, PTL DEF Spec, RefreshIsStable
=============================================================================
