---------------------------- MODULE MCQueryLexer ----------------------------
(***************************************************************************)
(* QueryLexer over every statement of at most MaxLength characters of each *)
(* profile: a dialect and an alphabet of characters that interact there.   *)
(***************************************************************************)
EXTENDS QueryLexer

CONSTANTS
  Profiles,   \* pairs of a dialect and an alphabet
  MaxLength   \* bound on the length of a statement

ASSUME ProfilesAssumption ==
  \A profile \in Profiles : profile[1] \in Dialects /\ "END" \notin profile[2]

(* The letters that protected text and the parameter after it are made of. *)
ASSUME LettersAssumption == {"a", "E"} \subseteq Letters

VARIABLES dialect, alphabet, sql

vars == <<dialect, alphabet, sql>>

MCProfiles ==
  {<<"mysql",     {"'", "QUOTE", "\\", ":", "a", "NL"}>>,
   <<"mysql",     {"/", "*", "!", "#", ":", "a", "NL"}>>,
   <<"mysql",     {"-", "SPACE", "CR", "NL", ":", "a", "BACKQUOTE"}>>,
   <<"postgres",  {"'", "E", "\\", "1", ":", "NL"}>>,
   <<"postgres",  {"$", "a", "1", ":", "=", "NL"}>>,
   <<"postgres",  {"/", "*", "-", "CR", ":", "a", "NL"}>>,
   <<"sqlite",    {"[", "]", "QUOTE", "@", "?", ":", "a", "NL"}>>,
   <<"sqlite",    {"/", "*", "-", "CR", ":", "a", "NL"}>>,
   <<"sqlserver", {"[", "]", "'", "\\", ":", "a", "NL"}>>,
   <<"sqlserver", {"@", "p", "1", ":", "-", "NL", "CR"}>>,
   <<"sqlserver", {"/", "*", "$", "h", ":", "a", "NL"}>>}

Init == /\ \E profile \in Profiles : dialect = profile[1] /\ alphabet = profile[2]
        /\ sql = <<>>

(* One more character is written.                                          *)
WriteCharacter == /\ Len(sql) < MaxLength
                  /\ \E c \in alphabet : sql' = Append(sql, c)
                  /\ UNCHANGED <<dialect, alphabet>>

Spec == Init /\ [][WriteCharacter]_vars

tokens == scan(sql, dialect).tokens
-----------------------------------------------------------------------------
(* scanInto returns tokens in SQL order that do not overlap, each of them  *)
(* the text of an escape or of a colon and a valid name.                   *)
TypeOK ==
  /\ scan(sql, dialect).err \in Errors \cup {NoError}
  /\ \A k \in DOMAIN tokens :
       LET t == tokens[k]
       IN /\ t = [start |-> t.start, next |-> t.next, name |-> t.name]
          /\ t.start \in 1 .. t.next - 1 /\ t.next <= Len(sql) + 1
          /\ k > 1 => tokens[k - 1].next <= t.start
          /\ SubSeq(sql, t.start, t.next - 1)
               = IF t.name = <<>> THEN <<"\\", ":">> ELSE <<":">> \o t.name
          /\ t.name # <<>> => validName(t.name)

Moved(ts, k) ==
  [n \in DOMAIN ts |->
     [start |-> ts[n].start + k, next |-> ts[n].next + k, name |-> ts[n].name]]

MayLeaveOpen(text, d) == d = "sqlite" /\ \E n \in DOMAIN text : Pair(text, n, "/", "*")

(* Builder.Write separates fragments by a newline so that one fragment     *)
(* cannot change how the next is read, unless it leaves text open: what a  *)
(* statement yields is what its lines yield, one after the other.  Only    *)
(* SQLite accepts a fragment with a comment left open.                     *)
FragmentsCompose ==
  \A k \in {k \in DOMAIN sql : sql[k] = "NL"} :
    LET left  == SubSeq(sql, 1, k - 1)
        right == scan(SubSeq(sql, k + 1, Len(sql)), dialect)
    IN scan(left, dialect).err = NoError /\ ~MayLeaveOpen(left, dialect)
       => scan(sql, dialect) =
            IF right.err # NoError THEN right
            ELSE Found(NoError, scan(left, dialect).tokens \o Moved(right.tokens, k))
-----------------------------------------------------------------------------
Has(text, part) ==
  \E k \in 1 .. Len(text) - Len(part) + 1 : SubSeq(text, k, k + Len(part) - 1) = part

(* A text in which every character is written as a code says.              *)
SpelledTo(text, code) ==
  LET upto[k \in 0 .. Len(text)] ==
        IF k = 0 THEN <<>> ELSE upto[k - 1] \o code[text[k]]
  IN upto

Spelled(text, code) == SpelledTo(text, code)[Len(text)]

(* Text as a user quotes it: the characters of Special twice.              *)
Twice(text, Special) ==
  [c \in ToSet(text) |-> IF c \in Special THEN <<c, c>> ELSE <<c>>]

Doubled(text, Special) == Spelled(text, Twice(text, Special))

QuotedForms(text, d) ==
  {<<q>> \o Doubled(text, IF d = "mysql" /\ q # "BACKQUOTE" THEN {q, "\\"} ELSE {Closing(q)})
       \o <<Closing(q)>> :
     q \in {q \in Quotes(d) : q = "[" /\ d = "sqlite" => ~Has(text, <<"]">>)}}
  \cup (IF d = "postgres"
        THEN {<<"E", "'">> \o Doubled(text, {"'", "\\"}) \o <<"'">>} ELSE {})

DollarForms(text, d) ==
  {tag \o text \o tag :
     tag \in {tag \in {<<"$", "$">>, <<"$", "a", "$">>} :
                d = "postgres" /\ ~Has(text \o Front(tag), tag)}}

(* PostgreSQL and SQL Server nest comments.                                *)
Nesting == {"postgres", "sqlserver"}

(* Text with comments in it: two of its characters stand for the opening   *)
(* and the end of one.                                                     *)
Comments(text, open, close) ==
  [c \in ToSet(text) |->
     IF c = open THEN <<"/", "*">> ELSE IF c = close THEN <<"*", "/">> ELSE <<c>>]

(* How many comments are open after k characters of such a text, which is  *)
(* in a comment itself.                                                    *)
Depth(text, open, close, k) ==
  1 + Cardinality({n \in 1 .. k : text[n] = open})
    - Cardinality({n \in 1 .. k : text[n] = close})

(* The comments are closed within the text, and nothing else in it can be  *)
(* read as an opening or an end.                                           *)
IsNested(text, open, close) ==
  /\ \A k \in 1 .. Len(text) : Depth(text, open, close, k) > 0
  /\ Depth(text, open, close, Len(text)) = 1
  /\ open # close /\ {open, close} \cap {"/", "*"} = {}
  /\ \A pair \in {<<"*", "/">>, <<"*", open>>, <<"/", "*">>, <<"/", close>>} :
       ~Has(text \o <<close>>, pair)

NestedForms(text, d) ==
  {<<"/", "*">> \o Spelled(text, Comments(text, p[1], p[2])) \o <<"*", "/">> :
     p \in {p \in ToSet(text) \X ToSet(text) : d \in Nesting /\ IsNested(text, p[1], p[2])}}

CommentForms(text, d) ==
  (IF \E c \in LineTerminators(d) : Has(text, <<c>>) THEN {}
   ELSE {<<"-", "-", "SPACE">> \o text \o <<"NL">>})
  \cup
  (IF \/ Has(text, <<"*", "/">>)
      \/ d \in Nesting /\ Has(text \o <<"*">>, <<"/", "*">>)
      \/ d = "mysql" /\ At(text, 1) = "!"
   THEN {} ELSE {<<"/", "*">> \o text \o <<"*", "/">>})

(* What a statement yields whose only parameter, :a, follows n characters. *)
ParameterAfter(n) ==
  Found(NoError, <<[start |-> n + 1, next |-> n + 3, name |-> <<"a">>]>>)

(* MySQL may execute a comment /*! ... */, so that its text is no comment:  *)
(* as long as it is free of parameters and mistakes it is passed over, and *)
(* otherwise the statement is refused, never read without it.              *)
ExecutableTextIsChecked ==
  LET text  == <<"/", "*", "!">> \o sql \o <<"*", "/">>
      inner == scan(sql, "mysql")
  IN dialect = "mysql" /\ ~Has(sql, <<"*", "/">>)
     => scan(text \o <<":", "a">>, "mysql") =
          IF inner = Nothing THEN ParameterAfter(Len(text))
          ELSE Found(IF inner.err = NoError THEN "syntax" ELSE inner.err, <<>>)

(* Parameters are recognised outside quoted text and comments only: text   *)
(* that is quoted or commented out by the rules of the dialect yields      *)
(* nothing, whatever it holds and however deep its comments nest, and      *)
(* hides nothing of what follows it; text that may be executed is checked. *)
ProtectedTextIsOpaque ==
  /\ \A text \in QuotedForms(sql, dialect) \cup DollarForms(sql, dialect)
                   \cup CommentForms(sql, dialect) \cup NestedForms(sql, dialect) :
       scan(text \o <<":", "a">>, dialect) = ParameterAfter(Len(text))
  /\ ExecutableTextIsChecked

Escapes(ts)  == [k \in DOMAIN ts |-> <<"\\", ":">> \o ts[k].name]
Literals(ts) == [k \in DOMAIN ts |-> <<":">> \o ts[k].name]

(* A backslash before the colon of every parameter makes a statement that  *)
(* has none, and that builds to the text the parameters stood in.          *)
EscapedParameterIsLiteral ==
  LET escaped == Rewritten(sql, tokens, Escapes(tokens))
      found   == scan(escaped, dialect)
  IN scan(sql, dialect).err = NoError
     => /\ found.err = NoError
        /\ \A k \in DOMAIN found.tokens : found.tokens[k].name = <<>>
        /\ Rewritten(escaped, found.tokens, Literals(found.tokens))
             = Rewritten(sql, tokens, Literals(tokens))
=============================================================================
