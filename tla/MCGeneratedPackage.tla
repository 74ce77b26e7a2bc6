------------------------- MODULE MCGeneratedPackage -------------------------
(* Tables for GeneratedPackage: names of every kind, combinations of types and
   identifiers that might collide, and small tables whose package is used. *)
EXTENDS GeneratedPackage

Id(base) == <<base, 0>>
Custom(path, qualifier) == GoType(FALSE, "Custom", path, Id(qualifier))
Column(goName, dataType, goType, nullable, identity, derived, key) ==
  [goName |-> goName, dataType |-> dataType, goType |-> goType, nullable |-> nullable,
   identity |-> identity, derived |-> derived, key |-> key]
Plain(goName, dataType) == Column(Id(goName), dataType, NoGoType, FALSE, FALSE, FALSE, 0)
Table(type, goName, columns) == [type |-> type, goName |-> goName, columns |-> columns]
OneName == {<<"x">>}
Input(dialect_, table_) ==
  [table |-> table_, dialect |-> dialect_, names |-> OneName, fileNames |-> {<<>>}]

MCTypeMappings == [datetime |-> GoType(FALSE, "Time", "example.com/clock", Id("clock"))]

(* File names: up to four of these pieces, chosen or derived. *)
Pieces ==
  {<<"con">>, <<"vendor">>, <<"query">>, <<"x">>, <<"_">>, <<"-">>, <<".">>, <<"~">>,
   <<"invalid">>, <<"_", "linux">>, <<"_", "test">>, <<"~", "1">>}
Two == {a \o b : a, b \in Pieces \cup {<<>>}}
Four == {a \o b : a, b \in Two}
One == Table("VIEW", Id("Model"), <<Plain("ID", "string")>>)
Derived == [Input("postgres", One) EXCEPT !.names = Four]
Chosen == [Input("postgres", One) EXCEPT !.fileNames = Two]

(* Identifiers: names and types that use what the generator would. *)
FirstTypes ==
  {<<t, NoGoType>> : t \in DOMAIN builtinTypeMappings}
    \cup {<<"string", Custom("example.com/query", "query")>>, <<"string", Custom("errors", "errors")>>,
          <<"datetime", Custom("time", "time")>>, <<"uuid", Custom("example.com/uuid", "sqltomFmt")>>}
SecondTypes ==
  {<<"string", NoGoType>>, <<"uuid", NoGoType>>, <<"binary", NoGoType>>,
   <<"string", Custom("example.com/row", "row")>>, <<"datetime", Custom("time", "clock")>>}
KeyedTypes ==
  {<<a, k, FALSE>> : a \in FirstTypes, k \in {0, 1}}
    \cup {<<<<t, NoGoType>>, 1, TRUE>> : t \in {"bigint", "unsignedbigint"}}
FieldPairs == {<<Id("ID"), Id("Insert")>>, <<Id("sqltomPartial"), <<"sqltomPartial", 1>>>>}
Identifiers ==
  {Input(d, Table(t, goName,
      <<Column(f[1], a[1][1], a[1][2], FALSE, a[3], FALSE, a[2]),
        Column(f[2], b[1], b[2], b[1] # "uuid", FALSE, FALSE, 0)>>)) :
     a \in KeyedTypes, b \in SecondTypes, d \in DOMAIN Config, t \in {"BASE TABLE", "VIEW"},
     goName \in {Id("Model"), Id("row"), Id("sqltomPartial"), Id("Query")}, f \in FieldPairs}

(* Tables in use: a composite key in another order than its columns, a key that
   may be NULL, generated identities with and without the sign, and a view. *)
Text(goName, nullable, derived, key) == Column(Id(goName), "string", NoGoType, nullable, FALSE, derived, key)
Used(type, columns) == Table(type, Id("Used"), columns)
Composite == Used("BASE TABLE", <<Text("A", FALSE, FALSE, 2), Text("B", FALSE, FALSE, 1), Text("C", FALSE, FALSE, 0)>>)
NullKey == Used("BASE TABLE", <<Text("A", TRUE, FALSE, 1), Text("B", FALSE, FALSE, 0)>>)
Identity(dataType, goType, others) ==
  Used("BASE TABLE", <<Column(Id("ID"), dataType, goType, FALSE, TRUE, FALSE, 1)>> \o others)
NullableB == <<Text("B", TRUE, FALSE, 0)>>
DerivedC == <<Text("B", FALSE, FALSE, 0), Text("C", FALSE, TRUE, 0)>>
InUseInputs ==
  {Input(d, Composite) : d \in {"sqlite", "mysql"}}
    \cup {Input(d, Identity("bigint", NoGoType, NullableB)) : d \in {"postgres", "sqlite"}}
    \cup {Input("postgres", Identity("bigint", NoGoType, <<Column(Id("N"), "bigint", NoGoType, FALSE, TRUE, FALSE, 0)>>))}
    \cup {Input("sqlserver", Identity("bigint", NoGoType, DerivedC))}
    \cup {Input("mysql", Identity("unsignedbigint", t, NullableB)) : t \in {NoGoType, Local("int64")}}
    \cup {Input("sqlite", NullKey), Input("postgres", Used("VIEW", <<Text("A", FALSE, FALSE, 0), Text("B", TRUE, FALSE, 0)>>))}

MCInputs == Identifiers \cup InUseInputs \cup {Derived, Chosen}
MCExercised == {Id("Used")}
(* The result of the last call is only read by the action properties, which TLC
   evaluates at every step, those to states already seen included. *)
WithoutReply == <<table, dialect, phase, fileName, data, db, row>>

MCGenerated == {1, 3, 4, 7}
MCOthers == {0, 1}
MCProjections ==
  UNION {[1..n -> 0..3] : n \in 0..2}
    \cup {<<1, 2, 3>>, <<3, 1, 2>>, <<1, 1, 2>>, <<2, 3, 3>>, <<1, 2, 0>>}
=============================================================================
