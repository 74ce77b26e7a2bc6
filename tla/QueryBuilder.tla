---------------------------- MODULE QueryBuilder ----------------------------
(***************************************************************************)
(* The Builder of the generated query helper (queryruntime/query.go):      *)
(* fragments are written, names are bound, and Build compiles them to a    *)
(* statement with native placeholders and the arguments of these.          *)
(*                                                                         *)
(* A fragment is a sequence of what the scanner (QueryLexer) tells apart:  *)
(* parameters by name, escaped colons, other text byte by byte, and text   *)
(* that the scanner refuses.  One caller uses a builder, as its comment    *)
(* demands; between two calls it may change the elements of a list that it *)
(* has bound, for the builder keeps the list and not a copy.               *)
(***************************************************************************)
EXTENDS Integers, Sequences, FiniteSetsExt, SequencesExt

CONSTANTS
  Names,         \* valid parameter names
  InvalidNames,  \* names that validName refuses
  NameLength,    \* bytes of a name
  Text, Colon, Comma, Escape, Refused,  \* the other pieces of a statement
  Atoms,         \* values that no driver expands
  Values,        \* what may be bound
  Fragments,     \* what may be written
  None,          \* no error
  MaxFragments, MaxBinds, MaxChanges  \* bounds on the calls of one behaviour

Dialects == {"mysql", "postgres", "sqlite", "sqlserver"}

Errors == {"invalid name", "duplicate bind", "syntax", "unused bind", "missing bind",
           "empty list", "invalid list"}

(* What a statement is made of; a placeholder is a number.                 *)
Pieces == Names \cup {Text, Colon, Comma, Escape, Refused}

ASSUME PiecesAssumption ==
  /\ Cardinality({Text, Colon, Comma, Escape, Refused}) = 5
  /\ Names \cap {Text, Colon, Comma, Escape, Refused} = {}
  /\ \A p \in Pieces : p \notin Nat
  /\ Names \cap InvalidNames = {}
  /\ None \notin Errors
  /\ NameLength \in Nat \ {0}

ASSUME InputsAssumption ==
  /\ \A f \in Fragments : f \in Seq(Names \cup {Text, Escape, Refused})
  /\ \A v \in Values : /\ v.list \in BOOLEAN /\ v.wrapped \in BOOLEAN
                       /\ v = [list |-> v.list, wrapped |-> v.wrapped, of |-> v.of]
                       /\ v.list => v.of \in Seq(ToSet(v.of))

VARIABLES
  dialect,    \* targetDialect, fixed when the package is rendered
  fragments,  \* Builder.fragments
  bindings,   \* Builder.bindings
  order,      \* Builder.order
  err,        \* Builder.err
  changes,    \* elements of bound lists changed so far
  pc,         \* where Build stands
  turn,       \* the token Build expands next
  args,       \* the arguments collected
  used,       \* the span of args of every name expanded
  size,       \* outputSize
  result      \* what the last Build returned

builder == <<fragments, bindings, order, err, changes>>
vars == <<dialect, builder, pc, turn, args, used, size, result>>
-----------------------------------------------------------------------------
(* Values.  Of a Go value it matters whether it is a list (a slice that is *)
(* neither bytes nor a Valuer), whether it is wrapped by Scalar, and what  *)
(* it holds.                                                               *)

One(a)    == [list |-> FALSE, wrapped |-> FALSE, of |-> a]
List(s)   == [list |-> TRUE, wrapped |-> FALSE, of |-> s]
Scalar(v) == [v EXCEPT !.wrapped = TRUE]

unwrap(v) == [v EXCEPT !.wrapped = FALSE]

Expands(v) == v.list /\ ~v.wrapped

Expanded(v) ==
  IF ~Expands(v) THEN <<unwrap(v)>>
  ELSE [k \in DOMAIN v.of |-> unwrap(v.of[k])]

ListError(v) ==
  IF ~Expands(v) THEN None
  ELSE IF v.of = <<>> THEN "empty list"
  ELSE IF \E k \in DOMAIN v.of : Expands(v.of[k]) THEN "invalid list"
  ELSE None
-----------------------------------------------------------------------------
(* Statements.                                                             *)

Bound(n) == n \in DOMAIN bindings

Statement ==
  FlattenSeq([k \in DOMAIN fragments |->
                IF k = 1 THEN fragments[k] ELSE <<Text>> \o fragments[k]])

(* Where the scanner finds the parameters and escapes, and the first of    *)
(* these after place k.                                                    *)
Tokens == {k \in DOMAIN Statement : Statement[k] \in Names \cup {Escape}}

NextToken(k) == Min({j \in Tokens : j > k} \cup {Len(Statement) + 1})

Length(p) ==
  CASE p \in Names                -> 1 + NameLength
    [] p \in {Escape, Comma}      -> 2
    [] p \in {Text, Colon, Refused} -> 1

Numbered == dialect \in {"postgres", "sqlserver"}

Prefix == CASE dialect = "sqlserver" -> 2
            [] dialect = "postgres"  -> 1
            [] OTHER                 -> 0

Digits(n) ==
  LET width[m \in Nat] == IF m < 10 THEN 1 ELSE 1 + width[m \div 10] IN width[n]

(* A placeholder refers to an argument by number, or by its place.         *)
Placeholder(n) == IF Numbered THEN n ELSE 0

IsPlaceholder(p) == p \notin Pieces

Written(p) == IF IsPlaceholder(p)
              THEN IF Numbered THEN Prefix + Digits(p) ELSE 1
              ELSE Length(p)

Total(s) ==
  LET upto[k \in 0 .. Len(s)] == IF k = 0 THEN 0 ELSE upto[k - 1] + s[k] IN upto[Len(s)]

Bytes(s) == Total([k \in DOMAIN s |-> Written(s[k])])

Separated(s) ==
  [k \in 1 .. 2 * Len(s) - 1 |-> IF k % 2 = 1 THEN s[(k + 1) \div 2] ELSE Comma]

writePlaceholders(span) ==
  Separated([k \in 1 .. span.end - span.start |-> Placeholder(span.start + k)])

Compiled ==
  FlattenSeq([k \in DOMAIN Statement |->
                CASE Statement[k] = Escape   -> <<Colon>>
                  [] Statement[k] \in Names  -> writePlaceholders(used[Statement[k]])
                  [] OTHER                   -> <<Statement[k]>>])

(* The first name in order of Bind that no token of the statement uses.    *)
FirstUnused ==
  order[Min({k \in DOMAIN order : order[k] \notin DOMAIN used})]
-----------------------------------------------------------------------------
NoBindings == [n \in {} |-> None]

NoSpans == [n \in {} |-> None]

NoResult == [err |-> None, of |-> None, sql |-> <<>>, args |-> <<>>]

Init ==
  /\ dialect \in Dialects
  /\ fragments = <<>>
  /\ bindings = NoBindings
  /\ order = <<>>
  /\ err = None
  /\ changes = 0
  /\ pc = "idle"
  /\ turn = 1
  /\ args = <<>>
  /\ used = NoSpans
  /\ size = 0
  /\ result = NoResult

locals == <<turn, args, used, size>>

(* A map with an entry set.                                                *)
With(map, n, v) ==
  [m \in DOMAIN map \cup {n} |-> IF m = n THEN v ELSE map[m]]

Write(f) ==
  /\ pc = "idle"
  /\ Len(fragments) < MaxFragments
  /\ fragments' = Append(fragments, f)
  /\ UNCHANGED <<dialect, bindings, order, err, changes, pc, locals, result>>

(* The first failure is kept and makes every later Bind do nothing.        *)
BindRefused(n) ==
  /\ pc = "idle"
  /\ err = None
  /\ n \in InvalidNames \/ Bound(n)
  /\ err' = IF n \in InvalidNames THEN "invalid name" ELSE "duplicate bind"
  /\ UNCHANGED <<dialect, fragments, bindings, order, changes, pc, locals, result>>

(* Mutant: a name may be bound again.                                      *)
Rebind(n, v) ==
  /\ pc = "idle"
  /\ err = None
  /\ n \notin InvalidNames
  /\ Len(order) < MaxBinds
  /\ bindings' = With(bindings, n, v)
  /\ order' = Append(order, n)
  /\ UNCHANGED <<dialect, fragments, err, changes, pc, locals, result>>

Bind(n, v) ==
  /\ pc = "idle"
  /\ err = None
  /\ n \notin InvalidNames /\ ~Bound(n)
  /\ Len(order) < MaxBinds
  /\ bindings' = With(bindings, n, v)
  /\ order' = Append(order, n)
  /\ UNCHANGED <<dialect, fragments, err, changes, pc, locals, result>>

(* The caller assigns an element of a list that it has bound.              *)
ChangeElement(n, v) ==
  /\ pc = "idle"
  /\ changes < MaxChanges
  /\ Bound(n) /\ bindings[n].list
  /\ \E k \in DOMAIN bindings[n].of : bindings' = [bindings EXCEPT ![n].of[k] = v]
  /\ changes' = changes + 1
  /\ UNCHANGED <<dialect, fragments, order, err, pc, locals, result>>
-----------------------------------------------------------------------------
(* Build.                                                                  *)

Return(r) == pc' = "returned" /\ result' = r

Failed(e, n) == [NoResult EXCEPT !.err = e, !.of = n]

(* The sticky error, the scan, and statements without parameters.          *)
StartBuild ==
  /\ pc = "idle"
  /\ IF err # None THEN Return(Failed(err, None))
     ELSE IF Refused \in ToSet(Statement) THEN Return(Failed("syntax", None))
     ELSE IF Tokens # {} THEN pc' = "expand" /\ UNCHANGED result
     ELSE IF order # <<>> THEN Return(Failed("unused bind", order[1]))
     ELSE Return([NoResult EXCEPT !.sql = Statement])
  /\ turn' = NextToken(0) /\ args' = <<>> /\ used' = NoSpans /\ size' = Bytes(Statement)
  /\ UNCHANGED <<dialect, builder>>

SkipEscape ==
  /\ pc = "expand"
  /\ turn \in Tokens /\ Statement[turn] = Escape
  /\ size' = size - 1
  /\ turn' = NextToken(turn)
  /\ UNCHANGED <<dialect, builder, pc, args, used, result>>

(* Mutant: the width of the first placeholder of a span stands for all.    *)
GrownByFirst(span) ==
  LET count == span.end - span.start
      width == IF Numbered THEN Prefix + Digits(span.start + 1) ELSE 1
  IN count * width + (count - 1) * 2 - (1 + NameLength)

(* The bytes that the placeholders of a span take, all at its last width.  *)
Grown(span) ==
  LET count == span.end - span.start
      width == IF Numbered THEN Prefix + Digits(span.end) ELSE 1
  IN count * width + (count - 1) * 2 - (1 + NameLength)

(* The first use of a name expands its value.                              *)
ExpandFirst(n) ==
  /\ pc = "expand"
  /\ turn \in Tokens /\ Statement[turn] = n
  /\ n \notin DOMAIN used
  /\ IF ~Bound(n) THEN Return(Failed("missing bind", n)) /\ UNCHANGED locals
     ELSE IF ListError(bindings[n]) # None
     THEN Return(Failed(ListError(bindings[n]), n)) /\ UNCHANGED locals
     ELSE LET values == Expanded(bindings[n])
              span   == [start |-> Len(args), end |-> Len(args) + Len(values)]
          IN /\ args' = args \o values
             /\ used' = With(used, n, span)
             /\ size' = size + Grown(span)
             /\ turn' = NextToken(turn)
             /\ UNCHANGED <<pc, result>>
  /\ UNCHANGED <<dialect, builder>>

(* Mutant: question marks do not repeat the arguments of a repeated name.  *)
ExpandOnce(n) ==
  /\ pc = "expand"
  /\ turn \in Tokens /\ Statement[turn] = n
  /\ n \in DOMAIN used
  /\ args' = args
  /\ size' = size + Grown(used[n])
  /\ turn' = NextToken(turn)
  /\ UNCHANGED <<dialect, builder, pc, used, result>>

(* A later use refers to the same numbers, or repeats the arguments.       *)
ExpandAgain(n) ==
  /\ pc = "expand"
  /\ turn \in Tokens /\ Statement[turn] = n
  /\ n \in DOMAIN used
  /\ args' = IF Numbered THEN args
             ELSE args \o SubSeq(args, used[n].start + 1, used[n].end)
  /\ size' = size + Grown(used[n])
  /\ turn' = NextToken(turn)
  /\ UNCHANGED <<dialect, builder, pc, used, result>>

(* Mutant: a binding that no token uses is passed over.                    *)
FinishUnchecked ==
  /\ pc = "expand"
  /\ turn > Len(Statement)
  /\ Return([NoResult EXCEPT !.sql = Compiled, !.args = args])
  /\ UNCHANGED <<dialect, builder, locals>>

FinishBuild ==
  /\ pc = "expand"
  /\ turn > Len(Statement)
  /\ IF ~(ToSet(order) \subseteq DOMAIN used)
     THEN Return(Failed("unused bind", FirstUnused))
     ELSE Return([NoResult EXCEPT !.sql = Compiled, !.args = args])
  /\ UNCHANGED <<dialect, builder, locals>>

(* The caller has its result; nothing of the Build is left in the builder. *)
Done ==
  /\ pc = "returned"
  /\ pc' = "idle"
  /\ turn' = 1 /\ args' = <<>> /\ used' = NoSpans /\ size' = 0
  /\ result' = NoResult
  /\ UNCHANGED <<dialect, builder>>

Next ==
  \/ \E f \in Fragments : Write(f)
  \/ \E n \in Names \cup InvalidNames :
       BindRefused(n) \/ \E v \in Values : Bind(n, v)
  \/ \E n \in Names, a \in Atoms : ChangeElement(n, One(a))
  \/ StartBuild
  \/ SkipEscape
  \/ \E n \in Names : ExpandFirst(n) \/ ExpandAgain(n)
  \/ FinishBuild
  \/ Done

Spec == Init /\ [][Next]_vars
-----------------------------------------------------------------------------
Spans == {[start |-> i, end |-> j] : i, j \in 0 .. Len(args)}

(* The names bound are those of order, each once (Bind), and every span    *)
(* lies within the arguments collected so far (build).                     *)
TypeOK ==
  /\ dialect \in Dialects
  /\ DOMAIN bindings \subseteq Names
  /\ ToSet(order) = DOMAIN bindings
  /\ IsInjective(order)
  /\ err \in {None, "invalid name", "duplicate bind"}
  /\ pc \in {"idle", "expand", "returned"}
  /\ turn \in 1 .. Len(Statement) + 1
  /\ \A n \in DOMAIN used : used[n] \in Spans /\ used[n].start < used[n].end

Succeeded == pc = "returned" /\ result.err = None

(* What a statement says when the values stand in it.                      *)
Meant ==
  FlattenSeq([k \in DOMAIN Statement |->
                CASE Statement[k] = Escape  -> <<Colon>>
                  [] Statement[k] \in Names -> Separated(Expanded(bindings[Statement[k]]))
                  [] OTHER                  -> <<Statement[k]>>])

(* How a database reads placeholders: by number, or by their order.        *)
ArgumentOf(sql, k) ==
  IF Numbered THEN sql[k]
  ELSE Cardinality({j \in 1 .. k : IsPlaceholder(sql[j])})

(* The statement and arguments that Build returns say what the fragments   *)
(* say with the bound values, as these are at the call, in place of the    *)
(* names: repeated names, lists and escapes included.  No argument is      *)
(* missing and none is left over, in every dialect.                        *)
StatementMeansBindings ==
  Succeeded =>
    LET sql    == result.sql
        places == {k \in DOMAIN sql : IsPlaceholder(sql[k])}
    IN /\ {ArgumentOf(sql, k) : k \in places} = DOMAIN result.args
       /\ Meant = [k \in DOMAIN sql |->
                     IF k \in places THEN result.args[ArgumentOf(sql, k)] ELSE sql[k]]

Broken == {k \in Tokens : /\ Statement[k] # Escape
                          /\ \/ ~Bound(Statement[k])
                             \/ ListError(bindings[Statement[k]]) # None}

Idle == {k \in DOMAIN order : order[k] \notin ToSet(Statement)}

(* Of several mistakes Build reports one that the order of the calls and   *)
(* the statement fix: the first refused Bind, then a statement that does   *)
(* not scan, then the first parameter in SQL order without a usable value, *)
(* then the first binding in Bind order without a parameter; and it        *)
(* succeeds when there is none.                                            *)
FirstMistakeReported ==
  pc = "returned" =>
    <<result.err, result.of>> =
      IF err # None THEN <<err, None>>
      ELSE IF Refused \in ToSet(Statement) THEN <<"syntax", None>>
      ELSE IF Broken # {}
           THEN LET n == Statement[Min(Broken)]
                IN <<IF Bound(n) THEN ListError(bindings[n]) ELSE "missing bind", n>>
      ELSE IF Idle # {} THEN <<"unused bind", order[Min(Idle)]>>
      ELSE <<None, None>>

(* The size that Build reserves holds the whole statement it then writes,  *)
(* also when the numbers of one list pass from one digit to two, and is    *)
(* never negative, which would make Grow panic.                            *)
ReservedSizeSuffices ==
  /\ size >= 0
  /\ Succeeded => Bytes(result.sql) <= size
=============================================================================
