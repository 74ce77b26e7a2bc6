----------------------------- MODULE QueryLexer -----------------------------
(***************************************************************************)
(* The scanner of the generated query helper (queryruntime/lexer.go): it   *)
(* finds the :name parameters and the \: escapes of a statement, skipping  *)
(* the quoted text, comments and dollar-quoted text of each dialect.       *)
(*                                                                         *)
(* A statement is a sequence of characters, one string each; some of them  *)
(* are spelled out: NL, CR, SPACE, QUOTE (the double one), BACKQUOTE and   *)
(* UNDERSCORE.  Positions count from 1, and `next' is the first position   *)
(* not consumed.                                                           *)
(***************************************************************************)
EXTENDS Integers, Sequences, FiniteSetsExt, SequencesExt

CONSTANTS
  Letters,    \* ASCII letters; "E" and "p" have a meaning of their own
  Digits,     \* ASCII digits
  HighBytes   \* bytes of 128 and above

(* The other characters that the scanner knows, and what stands past the   *)
(* end of a text.                                                          *)
Marks == {"END", "'", "QUOTE", "BACKQUOTE", "[", "]", "\\", ":", "=", "-", "SPACE", "NL",
          "CR", "#", "/", "*", "!", "$", "UNDERSCORE", "@", "?"}

ASSUME CharactersAssumption ==
  /\ Letters \cap Digits = {}
  /\ HighBytes \cap (Letters \cup Digits) = {}
  /\ Marks \cap (Letters \cup Digits \cup HighBytes) = {}

Dialects == {"mysql", "postgres", "sqlite", "sqlserver"}

Errors == {"syntax", "mixed", "invalid"}

NoError == "none"

NameStarts      == Letters \cup {"UNDERSCORE"}
NameParts       == NameStarts \cup Digits
IdentifierParts == NameParts \cup HighBytes \cup {"$"}

nameStart(c)      == c \in NameStarts
namePart(c)       == c \in NameParts
identifierPart(c) == c \in IdentifierParts

validName(name) == /\ name # <<>>
                   /\ nameStart(name[1])
                   /\ \A k \in DOMAIN name : namePart(name[k])

At(sql, i) == IF i \in DOMAIN sql THEN sql[i] ELSE "END"

(* The first position from i on whose character is none of `parts'.        *)
After(sql, i, parts) == Min({j \in i .. Len(sql) + 1 : At(sql, j) \notin parts})

(* What one turn of the loop of scanInto finds, by kind: a parameter or an *)
(* escape, a comment that MySQL may execute, other text, or an error; and  *)
(* where the next turn starts.                                             *)
Turn(kind, next, name) == [kind |-> kind, next |-> next, name |-> name]

Skip(next)            == Turn("text", next, <<>>)
Executable(next)      == Turn("executable", next, <<>>)
Parameter(next, name) == Turn("token", next, name)
Fail(err)             == Turn(err, 0, <<>>)
-----------------------------------------------------------------------------
(* Quoted text.                                                            *)

Quotes(d) == {"'", "QUOTE"}
               \cup (IF d \in {"mysql", "sqlite"} THEN {"BACKQUOTE"} ELSE {})
               \cup (IF d \in {"sqlserver", "sqlite"} THEN {"["} ELSE {})

Closing(quote) == IF quote = "[" THEN "]" ELSE quote

(* Mutant: brackets are closed by the first bracket in every dialect.      *)
DoublesQuotesOnly(quote, d) == quote # "["

(* Two closing characters stand for one, except in SQLite's brackets.      *)
Doubles(quote, d) == ~(quote = "[" /\ d = "sqlite")

BackslashEscapes(sql, i, d) ==
  \/ d = "mysql" /\ At(sql, i) \in {"'", "QUOTE"}
  \/ /\ d = "postgres"
     /\ At(sql, i) = "'"
     /\ At(sql, i - 1) \in {"E", "e"}
     /\ ~identifierPart(At(sql, i - 2))

(* Where quoted text ends that goes on at j, 0 when it does not end.       *)
QuotedFrom(sql, closing, backslash, doubles) ==
  LET end[j \in 1 .. Len(sql) + 1] ==
        IF j > Len(sql) THEN 0
        ELSE IF backslash /\ At(sql, j) = "\\" /\ j < Len(sql) THEN end[j + 2]
        ELSE IF At(sql, j) # closing THEN end[j + 1]
        ELSE IF doubles /\ At(sql, j + 1) = closing THEN end[j + 2]
        ELSE j + 1
  IN end

QuotedEnd(sql, i, d) ==
  QuotedFrom(sql, Closing(At(sql, i)), BackslashEscapes(sql, i, d),
             Doubles(At(sql, i), d))[i + 1]

Quoted(sql, i, d) ==
  IF QuotedEnd(sql, i, d) = 0 THEN Fail("syntax") ELSE Skip(QuotedEnd(sql, i, d))
-----------------------------------------------------------------------------
(* Comments.                                                               *)

(* MySQL and SQLite keep a bare CR inside a line comment.                  *)
LineTerminators(d) == IF d \in {"mysql", "sqlite"} THEN {"NL"} ELSE {"NL", "CR"}

lineEnd(sql, i, d) ==
  Min({j \in i .. Len(sql) + 1 : At(sql, j) \in LineTerminators(d) \cup {"END"}})

StartsDashComment(sql, i, d) ==
  /\ At(sql, i) = "-" /\ At(sql, i + 1) = "-"
  /\ d = "mysql" => At(sql, i + 2) \in {"END", "SPACE", "NL", "CR"}

(* Mutant: SQL Server's comments end at their first end.                   *)
NestsInPostgresOnly(d) == d = "postgres"

Nests(d) == d \in {"postgres", "sqlserver"}

Pair(sql, j, first, second) == At(sql, j) = first /\ At(sql, j + 1) = second

(* Where a comment ends that goes on at j inside `depth' openings, 0 when  *)
(* it does not end.                                                        *)
CommentFrom(sql, nests) ==
  LET end[p \in (1 .. Len(sql) + 1) \X (Nat \ {0})] ==
        LET j     == p[1]
            depth == p[2]
        IN IF j > Len(sql) THEN 0
           ELSE IF Pair(sql, j, "*", "/")
                THEN IF depth = 1 THEN j + 2 ELSE end[<<j + 2, depth - 1>>]
           ELSE IF nests /\ Pair(sql, j, "/", "*") THEN end[<<j + 2, depth + 1>>]
           ELSE end[<<j + 1, depth>>]
  IN end

CommentEnd(sql, i, d) == CommentFrom(sql, Nests(d))[<<i + 2, 1>>]

(* What MySQL may execute, and must hold no parameter: /*! ... */          *)
IsExecutable(sql, i, d) == d = "mysql" /\ At(sql, i + 2) = "!"

(* Mutant: an open comment is tolerated in every dialect.                  *)
CommentMayStayOpen(sql, i, d) ==
  LET next == CommentEnd(sql, i, d)
  IN IF next = 0 THEN Skip(Len(sql) + 1)
     ELSE IF IsExecutable(sql, i, d) THEN Executable(next) ELSE Skip(next)

(* SQLite ends an open comment at the end of the text.                     *)
Comment(sql, i, d) ==
  LET next == CommentEnd(sql, i, d)
  IN IF next = 0
     THEN IF d = "sqlite" THEN Skip(Len(sql) + 1) ELSE Fail("syntax")
     ELSE IF IsExecutable(sql, i, d) THEN Executable(next) ELSE Skip(next)
-----------------------------------------------------------------------------
(* PostgreSQL's dollar-quoted text.                                        *)

(* The length of the delimiter that starts at i, 0 when there is none.     *)
dollarDelimiter(sql, i) ==
  LET j == After(sql, i + 1, NameParts \cup HighBytes)
  IN IF At(sql, j) = "$" /\ At(sql, i + 1) \notin Digits THEN j - i + 1 ELSE 0

(* Where a text of n characters that is the one at i is found from j on.   *)
Closers(sql, i, n) ==
  {j \in i + n .. Len(sql) - n + 1 : \A m \in 0 .. n - 1 : At(sql, j + m) = At(sql, i + m)}

Dollar(sql, i) ==
  LET n == dollarDelimiter(sql, i)
  IN IF n = 0
     THEN IF At(sql, i + 1) \in Digits THEN Fail("mixed") ELSE Skip(i + 1)
     ELSE IF Closers(sql, i, n) = {} THEN Fail("syntax")
     ELSE Skip(Min(Closers(sql, i, n)) + n)
-----------------------------------------------------------------------------
(* Parameters: those of the helper, and the native ones that it refuses.   *)

(* Mutant: the identifier that follows the colon is taken as it is.        *)
ColonUnchecked(sql, i) ==
  LET next == After(sql, i + 1, IdentifierParts)
  IN IF At(sql, i + 1) \in {":", "="} THEN Skip(i + 2)
     ELSE IF ~nameStart(At(sql, i + 1)) THEN Skip(i + 1)
     ELSE Parameter(next, SubSeq(sql, i + 1, next - 1))

Colon(sql, i) ==
  LET next == After(sql, i + 1, IdentifierParts)
      name == SubSeq(sql, i + 1, next - 1)
  IN IF At(sql, i + 1) \in {":", "="} THEN Skip(i + 2)
     ELSE IF ~nameStart(At(sql, i + 1)) THEN Skip(i + 1)
     ELSE IF ~validName(name) THEN Fail("invalid")
     ELSE Parameter(next, name)

AtSign(sql, i) ==
  LET digits == After(sql, i + 2, Digits)
  IN IF At(sql, i + 1) = "@" THEN Skip(After(sql, i + 2, IdentifierParts))
     ELSE IF /\ At(sql, i + 1) \in {"p", "P"}
             /\ digits > i + 2
             /\ ~identifierPart(At(sql, digits))
     THEN Fail("mixed")
     ELSE Skip(i + 1)

IsNative(sql, i, d) ==
  \/ d \in {"mysql", "sqlite"} /\ At(sql, i) = "?"
  \/ /\ d = "sqlite"
     /\ At(sql, i) \in {"@", "$"}
     /\ identifierPart(At(sql, i + 1))
-----------------------------------------------------------------------------
(* One turn of the loop: its cases exclude each other.                     *)
Lexeme(sql, i, d) ==
  CASE Pair(sql, i, "\\", ":")                -> Parameter(i + 2, <<>>)
    [] At(sql, i) \in Quotes(d)              -> Quoted(sql, i, d)
    [] StartsDashComment(sql, i, d)          -> Skip(lineEnd(sql, i + 2, d))
    [] d = "mysql" /\ At(sql, i) = "#"       -> Skip(lineEnd(sql, i + 1, d))
    [] Pair(sql, i, "/", "*")                -> Comment(sql, i, d)
    [] /\ d = "postgres" /\ At(sql, i) = "$"
       /\ ~identifierPart(At(sql, i - 1))    -> Dollar(sql, i)
    [] At(sql, i) = ":"                      -> Colon(sql, i)
    [] IsNative(sql, i, d)                   -> Fail("mixed")
    [] d = "sqlserver" /\ At(sql, i) = "@"   -> AtSign(sql, i)
    [] OTHER                                 -> Skip(i + 1)

Found(err, tokens) == [err |-> err, tokens |-> tokens]
Nothing            == Found(NoError, <<>>)

(* What a token and the rest of the text yield.                            *)
Preceded(token, rest) ==
  IF rest.err # NoError THEN rest ELSE Found(NoError, <<token>> \o rest.tokens)

(* What a turn at i, the text that MySQL may execute there, which must be  *)
(* free of parameters, and the rest of the text yield.                     *)
Joined(i, turn, inner, rest) ==
  IF turn.kind \in Errors THEN Found(turn.kind, <<>>)
  ELSE IF turn.kind = "executable" /\ inner # Nothing
       THEN Found(IF inner.err = NoError THEN "syntax" ELSE inner.err, <<>>)
  ELSE IF turn.kind = "token"
       THEN Preceded([start |-> i, next |-> turn.next, name |-> turn.name], rest)
  ELSE rest

(* What is found from a position on in the text up to another one.         *)
FoundIn(sql, d) ==
  LET from[p \in (1 .. Len(sql) + 1) \X (0 .. Len(sql))] ==
        LET i    == p[1]
            last == p[2]
            turn == Lexeme(SubSeq(sql, 1, last), i, d)
        IN IF i > last THEN Nothing
           ELSE Joined(i, turn, from[<<i + 3, turn.next - 3>>], from[<<turn.next, last>>])
  IN from

(* The parameters and escapes of a statement in order, or the first error. *)
scan(sql, d) == FoundIn(sql, d)[<<1, Len(sql)>>]
-----------------------------------------------------------------------------
(* Mutant: the text after a token is copied from its second character.     *)
BetweenTwice(sql, tokens, k) ==
  SubSeq(sql, IF k = 1 THEN 1 ELSE tokens[k - 1].start + 1,
              IF k > Len(tokens) THEN Len(sql) ELSE tokens[k].start - 1)

(* The text before token k, after the one before it.                       *)
Between(sql, tokens, k) ==
  SubSeq(sql, IF k = 1 THEN 1 ELSE tokens[k - 1].next,
              IF k > Len(tokens) THEN Len(sql) ELSE tokens[k].start - 1)

(* A statement with every token replaced by what is written for it.        *)
RewrittenTo(sql, tokens, written) ==
  LET upto[k \in 0 .. Len(tokens)] ==
        IF k = 0 THEN <<>>
        ELSE upto[k - 1] \o Between(sql, tokens, k) \o written[k]
  IN upto

Rewritten(sql, tokens, written) ==
  RewrittenTo(sql, tokens, written)[Len(tokens)]
    \o Between(sql, tokens, Len(tokens) + 1)
=============================================================================
