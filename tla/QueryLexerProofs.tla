-------------------------- MODULE QueryLexerProofs --------------------------
(***************************************************************************)
(* Proofs about MCQueryLexer, checked by TLAPS, for every statement over   *)
(* every alphabet, of whatever length: the types of what scanInto returns, *)
(* that fragments compose, that an escaped parameter is literal, that      *)
(* quoted text and comments are opaque, nested comments included, and that *)
(* text which MySQL may execute is checked.                                *)
(*                                                                         *)
(* That the statement is a text (Typed) is inductive, and the properties   *)
(* are facts about texts.  The scanner is recursive: QuotedFrom,           *)
(* CommentFrom and FoundIn each recurse to later positions, or to shorter  *)
(* texts, and Recursion turns such a definition into its equation.  What   *)
(* it yields is then shown from the end of the text backwards              *)
(* (BackwardInduction).                                                    *)
(*                                                                         *)
(* The next two properties rest on LexemeMoved and FoundMoved: a turn, and *)
(* a scan, read the same in two texts that have the same characters from   *)
(* the turn to its end, shifted, and the same edge; and a turn looks past  *)
(* its end only at a character that is no part of a name, no colon and no  *)
(* second quote, which is what a newline or an escape put there is.        *)
(*                                                                         *)
(* For the last one OneTurn is enough: a turn at the start of quoted text  *)
(* or of a comment ends where the text was closed, and the parameter that  *)
(* follows is found (ParameterFollows).  That a comment with others in it  *)
(* is closed by its own end goes from its start forwards: where character  *)
(* k is written, as many comments are open as its Depth (NestCloses).      *)
(* What is found in an executable comment is what its text yields alone,   *)
(* moved (ExecutableInner).                                                *)
(***************************************************************************)
EXTENDS MCQueryLexer, FiniteSetTheorems, SequenceTheorems, TLAPS

-----------------------------------------------------------------------------
(* Induction, in a form without operator parameters. *)

(* A set of naturals that is not empty has a least element.                *)
LEMMA LeastNatural ==
  ASSUME NEW S \in SUBSET Nat, S # {}
  PROVE  \E m \in S : \A k \in S : m <= k
<1> DEFINE R == StrictSubsetOrdering(Nat)
           Below == {0 .. m : m \in S}
<1>1. Below \subseteq FiniteSubsetsOf(Nat)
  <2>1. \A m \in Nat : IsFiniteSet(0 .. m) /\ 0 .. m \in SUBSET Nat
    <3> TAKE m \in Nat
    <3>1. 0 \in Int /\ m \in Int
      OBVIOUS
    <3> QED BY <3>1, FS_Interval
  <2> QED BY <2>1 DEF FiniteSubsetsOf
<1>2. Below # {}
  OBVIOUS
<1>3. \E x \in Below : \A y \in Below : <<y, x>> \notin R
  <2> HIDE DEF R, Below
  <2>1. IsWellFoundedOn(R, FiniteSubsetsOf(Nat))
    BY FS_StrictSubsetOrderingWellFounded DEF R
  <2> QED BY <2>1, <1>1, <1>2, WFMin
<1>4. PICK m \in S : \A k \in S : <<0 .. k, 0 .. m>> \notin R
  BY <1>3
<1>5. ASSUME NEW k \in S, k < m PROVE FALSE
  <2>1. /\ 0 .. k \subseteq 0 .. m
        /\ m \in 0 .. m /\ m \notin 0 .. k
        /\ 0 .. k \in SUBSET Nat /\ 0 .. m \in SUBSET Nat
    BY <1>5
  <2>2. 0 .. k # 0 .. m
    BY <2>1
  <2> QED BY <1>4, <2>1, <2>2 DEF StrictSubsetOrdering
<1> QED BY <1>4, <1>5

(* A set that holds 0 and the successor of each of its elements holds all.  *)
LEMMA NaturalInduction ==
  ASSUME NEW S \in SUBSET Nat, 0 \in S, \A n \in S : n + 1 \in S
  PROVE  S = Nat
<1> SUFFICES ASSUME Nat \ S # {} PROVE FALSE
  OBVIOUS
<1>1. PICK m \in Nat \ S : \A k \in Nat \ S : m <= k
  <2>1. Nat \ S \in SUBSET Nat
    OBVIOUS
  <2> QED BY <2>1, LeastNatural
<1>2. m - 1 \in Nat /\ m - 1 \in S
  BY <1>1
<1> QED BY <1>1, <1>2

(* The same up to a bound.                                                  *)
LEMMA BoundedInduction ==
  ASSUME NEW n \in Nat, NEW S, 0 \in S, \A k \in 1 .. n : k - 1 \in S => k \in S
  PROVE  0 .. n \subseteq S
<1> DEFINE T == {k \in Nat : k <= n => k \in S}
<1>1. 0 \in T
  OBVIOUS
<1>2. ASSUME NEW k \in T PROVE k + 1 \in T
  <2>1. CASE k + 1 <= n
    BY <2>1
  <2>2. CASE ~(k + 1 <= n)
    BY <2>2
  <2> QED BY <2>1, <2>2
<1>3. T = Nat
  <2>1. T \in SUBSET Nat
    OBVIOUS
  <2> HIDE DEF T
  <2> QED BY <1>1, <1>2, <2>1, NaturalInduction
<1> QED BY <1>3

(* Min of FiniteSetsExt.                                                    *)
LEMMA MinNatural ==
  ASSUME NEW S \in SUBSET Nat, S # {}
  PROVE  Min(S) \in S /\ \A k \in S : Min(S) <= k
BY LeastNatural DEF Min

-----------------------------------------------------------------------------
(* Recursive functions. *)

(* Repeated application of a step has a result for every number of steps.   *)
Iterates(f, X, a, n, step) ==
  /\ f \in [0 .. n -> X]
  /\ f[0] = a
  /\ \A k \in 1 .. n : f[k] = step[k][f[k - 1]]

(* Steps that are all given can be taken one after the other.               *)
LEMMA Iteration ==
  ASSUME NEW X, NEW a \in X, NEW n \in Nat, NEW step \in [1 .. n -> [X -> X]]
  PROVE  \E f : Iterates(f, X, a, n, step)
<1> DEFINE Upto(m) == \E f : Iterates(f, X, a, m, step)
           S == {m \in 0 .. n : Upto(m)}
<1>1. 0 \in S
  <2> DEFINE g == [k \in 0 .. 0 |-> a]
  <2>1. g \in [0 .. 0 -> X] /\ g[0] = a /\ \A k \in 1 .. 0 : g[k] = step[k][g[k - 1]]
    OBVIOUS
  <2>2. Upto(0)
    <3> HIDE DEF g
    <3>1. Iterates(g, X, a, 0, step)
      BY <2>1 DEF Iterates
    <3> QED BY <3>1
  <2> QED BY <2>2
<1>2. ASSUME NEW l \in 1 .. n, l - 1 \in S PROVE l \in S
  <2> DEFINE m == l - 1
  <2>0. m \in Nat /\ l = m + 1 /\ m + 1 \in 1 .. n
    OBVIOUS
  <2>1. PICK f : Iterates(f, X, a, m, step)
    BY <1>2
  <2> DEFINE g == [k \in 0 .. m + 1 |-> IF k = m + 1 THEN step[m + 1][f[m]] ELSE f[k]]
  <2> HIDE DEF m
  <2>2. f[m] \in X /\ step[m + 1][f[m]] \in X
    BY <2>0, <2>1 DEF Iterates
  <2>3. g \in [0 .. m + 1 -> X]
    BY <2>0, <2>2, <2>1 DEF Iterates
  <2>4. g[0] = a
    BY <2>0, <2>1 DEF Iterates
  <2>5. ASSUME NEW k \in 1 .. m + 1 PROVE g[k] = step[k][g[k - 1]]
    <3>1. CASE k = m + 1
      <4>1. g[m] = f[m] /\ g[m + 1] = step[m + 1][f[m]] /\ k - 1 = m
        BY <2>0, <3>1
      <4> HIDE DEF g
      <4> QED BY <3>1, <4>1
    <3>2. CASE k # m + 1
      <4>1. k \in 1 .. m /\ g[k] = f[k] /\ g[k - 1] = f[k - 1]
        BY <2>0, <3>2
      <4> HIDE DEF g
      <4> QED BY <4>1, <2>1 DEF Iterates
    <3> QED BY <3>1, <3>2
  <2>6. Upto(l)
    <3> HIDE DEF g
    <3>1. Iterates(g, X, a, m + 1, step)
      BY <2>3, <2>4, <2>5 DEF Iterates
    <3> QED BY <2>0, <3>1
  <2> QED BY <2>6
<1>3. 0 .. n \subseteq S
  <2> HIDE DEF S
  <2> QED BY <1>1, <1>2, BoundedInduction
<1>4. n \in 0 .. n
  OBVIOUS
<1> QED BY <1>3, <1>4

-----------------------------------------------------------------------------
(* Recursive definitions, and the characters of a text.                    *)

(* A recursive definition over the elements of D, ranked, whose step at each
   element rests on the values at lower ranks only. *)
IsRecursion(D, X, R, rank, step) ==
  /\ X # {} /\ R \in Nat
  /\ rank \in [D -> 0 .. R]
  /\ step \in [D -> [[D -> X] -> X]]
  /\ \A x \in D : \A g, h \in [D -> X] :
       (\A y \in D : rank[y] < rank[x] => g[y] = h[y]) => step[x][g] = step[x][h]

(* Such a definition has a solution.                                        *)
LEMMA Recursion ==
  ASSUME NEW D, NEW X, NEW R, NEW rank, NEW step, IsRecursion(D, X, R, rank, step)
  PROVE  \E f \in [D -> X] : \A x \in D : f[x] = step[x][f]
<1>0. /\ R \in Nat /\ rank \in [D -> 0 .. R] /\ step \in [D -> [[D -> X] -> X]]
      /\ \A x \in D : \A g, h \in [D -> X] :
           (\A y \in D : rank[y] < rank[x] => g[y] = h[y]) => step[x][g] = step[x][h]
  BY DEF IsRecursion
<1> PICK x0 \in X : TRUE
  BY DEF IsRecursion
<1> DEFINE Y == [D -> X]
           a == [x \in D |-> x0]
           n == R + 2
           all(g) == [x \in D |-> step[x][g]]
           steps == [k \in 1 .. n |-> [g \in Y |-> all(g)]]
<1>1. a \in Y /\ n \in Nat
  BY <1>0
<1>2. \A g \in Y : all(g) \in Y
  BY <1>0
<1>3. steps \in [1 .. n -> [Y -> Y]]
  <2> HIDE DEF all, Y, n
  <2> QED BY <1>2
<1>4. PICK F : Iterates(F, Y, a, n, steps)
  <2> HIDE DEF steps, a, Y, n
  <2> QED BY <1>1, <1>3, Iteration
<1>5. /\ \A k \in 0 .. n : F[k] \in Y
      /\ \A k \in 1 .. n : F[k] = all(F[k - 1])
  <2> HIDE DEF a, Y, n, all
  <2>1. F \in [0 .. n -> Y] /\ \A k \in 1 .. n : F[k] = steps[k][F[k - 1]]
    <3> HIDE DEF steps
    <3> QED BY <1>4 DEF Iterates
  <2>2. \A k \in 1 .. n : k - 1 \in 0 .. n
    BY <1>1
  <2>3. \A k \in 1 .. n : F[k - 1] \in Y
    BY <2>1, <2>2
  <2>4. \A k \in 1 .. n : steps[k][F[k - 1]] = all(F[k - 1])
    BY <2>3
  <2> QED BY <2>1, <2>4
<1> DEFINE Settled(k) == \A x \in D : rank[x] < k => F[k][x] = F[k + 1][x]
           S == {k \in 0 .. R + 1 : Settled(k)}
<1>6. 0 \in S
  BY <1>0, <1>1
<1>7. ASSUME NEW k \in 1 .. R + 1, k - 1 \in S PROVE k \in S
  <2>0. R \in Nat
    BY <1>0
  <2>1. /\ k \in 1 .. n /\ k + 1 \in 1 .. n /\ k - 1 \in 0 .. n /\ k \in 0 .. n
        /\ k - 1 + 1 = k /\ k + 1 - 1 = k
    BY <2>0
  <2>2. F[k - 1] \in Y /\ F[k] \in Y /\ F[k] = all(F[k - 1]) /\ F[k + 1] = all(F[k])
    <3> HIDE DEF Y, all, n
    <3> QED BY <1>5, <2>1
  <2>3. ASSUME NEW x \in D, rank[x] < k PROVE F[k][x] = F[k + 1][x]
    <3>1. \A y \in D : rank[y] < rank[x] => F[k - 1][y] = F[k][y]
      <4>1. Settled(k - 1)
        BY <1>7
      <4>2. \A y \in D : rank[y] \in 0 .. R /\ rank[x] \in 0 .. R
        BY <1>0
      <4>3. \A y \in D : rank[y] < rank[x] => rank[y] < k - 1
        BY <2>0, <2>3, <4>2
      <4> QED BY <4>1, <4>3, <2>1
    <3>2. step[x][F[k - 1]] = step[x][F[k]]
      BY <1>0, <2>2, <3>1
    <3> QED BY <2>2, <3>2
  <2> QED BY <2>3
<1>8. R + 1 \in S
  <2> HIDE DEF S
  <2>0. R + 1 \in Nat /\ R + 1 \in 0 .. R + 1
    BY <1>0
  <2>1. 0 .. R + 1 \subseteq S
    BY <1>6, <1>7, <2>0, BoundedInduction
  <2> QED BY <2>0, <2>1
<1>9. \A x \in D : F[R + 1][x] = F[R + 2][x]
  <2>1. Settled(R + 1)
    BY <1>8
  <2>2. \A x \in D : rank[x] < R + 1
    BY <1>0
  <2>3. R + 1 + 1 = R + 2
    BY <1>0
  <2> QED BY <2>1, <2>2, <2>3
<1>10. F[R + 1] \in Y /\ F[R + 2] = all(F[R + 1])
  <2>1. R + 2 \in 1 .. n /\ R + 1 \in 0 .. n /\ R + 2 - 1 = R + 1
    BY <1>0
  <2> HIDE DEF Y, all, n
  <2> QED BY <1>0, <1>5, <2>1
<1>11. \A x \in D : F[R + 1][x] = step[x][F[R + 1]]
  BY <1>9, <1>10
<1> QED BY <1>10, <1>11

(* The characters of statements, and their texts. *)
Bytes == (UNION {profile[2] : profile \in Profiles})
           \cup ((Letters \cup Digits \cup HighBytes \cup Marks) \ {"END"})

Texts == Seq(Bytes)

(* Only a position outside a text holds no character. *)
LEMMA AtText ==
  ASSUME NEW s \in Texts
  PROVE  /\ Len(s) \in Nat /\ DOMAIN s = 1 .. Len(s)
         /\ \A i \in Int : (At(s, i) = "END") <=> i \notin 1 .. Len(s)
         /\ \A i \in 1 .. Len(s) : At(s, i) = s[i] /\ At(s, i) \in Bytes
<1>1. "END" \notin Bytes
  <2>1. "END" \notin UNION {profile[2] : profile \in Profiles}
    BY ProfilesAssumption
  <2> QED BY <2>1 DEF Bytes
<1>2. Len(s) \in Nat /\ DOMAIN s = 1 .. Len(s) /\ \A i \in 1 .. Len(s) : s[i] \in Bytes
  BY DEF Texts
<1> QED BY <1>1, <1>2 DEF At

(* The recursion of QuotedFrom. *)
QuotedEquation(e, s, closing, backslash, doubles) ==
  /\ e \in [1 .. Len(s) + 1 -> Nat]
  /\ e[Len(s) + 1] = 0
  /\ \A j \in 1 .. Len(s) :
       e[j] = IF backslash /\ At(s, j) = "\\" /\ j < Len(s) THEN e[j + 2]
              ELSE IF At(s, j) # closing THEN e[j + 1]
              ELSE IF doubles /\ At(s, j + 1) = closing THEN e[j + 2]
              ELSE j + 1

(* QuotedFrom is what its definition says. *)
LEMMA QuotedRecursion ==
  ASSUME NEW s \in Texts, NEW closing, closing # "END", NEW backslash \in BOOLEAN,
         NEW doubles \in BOOLEAN
  PROVE  QuotedEquation(QuotedFrom(s, closing, backslash, doubles),
                        s, closing, backslash, doubles)
<1> DEFINE L == Len(s)
           D == 1 .. L + 1
           X == [D -> Nat]
           Escaped(j) == backslash /\ At(s, j) = "\\" /\ j < L
           Doubled2(j) == doubles /\ At(s, j + 1) = closing
           Body(j, g) == IF j > L THEN 0
                         ELSE IF Escaped(j) THEN g[j + 2]
                         ELSE IF At(s, j) # closing THEN g[j + 1]
                         ELSE IF Doubled2(j) THEN g[j + 2]
                         ELSE j + 1
           G == CHOOSE g : g = [j \in D |-> Body(j, g)]
           rank == [j \in D |-> L + 1 - j]
           step == [j \in D |-> [g \in X |-> Body(j, g)]]
<1>1. L \in Nat /\ \A j \in D : j \in Int /\ (Doubled2(j) => j + 1 \in 1 .. L)
  <2>1. L \in Nat /\ \A i \in Int : (At(s, i) = "END") <=> i \notin 1 .. L
    BY AtText
  <2> HIDE DEF L
  <2>2. \A j \in D : j \in Int /\ j + 1 \in Int
    BY <2>1
  <2> QED BY <2>1, <2>2
<1>2. ASSUME NEW j \in D
      PROVE  /\ ~(j > L) => j + 1 \in D
             /\ Escaped(j) \/ (~(j > L) /\ Doubled2(j)) => j + 2 \in D
  BY <1>1
<1> HIDE DEF L, Escaped, Doubled2
<1>3. \A j \in D : \A g \in X : Body(j, g) \in Nat
  BY <1>1, <1>2
<1>4. rank \in [D -> 0 .. L]
  BY <1>1
<1>5. step \in [D -> [X -> Nat]]
  <2> HIDE DEF Body, X, D
  <2> QED BY <1>3
<1>6. ASSUME NEW j \in D, NEW g \in X, NEW h \in X, \A k \in D : rank[k] < rank[j] => g[k] = h[k]
      PROVE  step[j][g] = step[j][h]
  <2>1. \A k \in D : k > j => g[k] = h[k]
    BY <1>1, <1>6
  <2>2. Body(j, g) = Body(j, h)
    BY <1>1, <1>2, <2>1
  <2> HIDE DEF Body, X, D
  <2> QED BY <2>2
<1>7. PICK f \in [D -> Nat] : \A j \in D : f[j] = step[j][f]
  <2>1. IsRecursion(D, Nat, L, rank, step)
    <3>1. Nat # {}
      OBVIOUS
    <3> HIDE DEF step, rank, D
    <3>2. step \in [D -> [[D -> Nat] -> Nat]]
      BY <1>5
    <3>3. \A j \in D : \A g, h \in [D -> Nat] :
            (\A k \in D : rank[k] < rank[j] => g[k] = h[k]) => step[j][g] = step[j][h]
      BY <1>6
    <3> QED BY <1>1, <1>4, <3>1, <3>2, <3>3 DEF IsRecursion
  <2> HIDE DEF step, rank, D
  <2> QED BY <2>1, Recursion
<1>8. f = [j \in D |-> Body(j, f)]
  <2>1. \A j \in D : f[j] = Body(j, f)
    <3> HIDE DEF Body, D
    <3> QED BY <1>7
  <2> HIDE DEF Body, D
  <2> QED BY <1>7, <2>1
<1>9. G = [j \in D |-> Body(j, G)]
  <2> HIDE DEF Body, D
  <2> QED BY <1>8
<1>10. G = QuotedFrom(s, closing, backslash, doubles)
  BY DEF QuotedFrom, G, Body, D, L, Escaped, Doubled2
<1> HIDE DEF G
<1>11. \A j \in D : G[j] = Body(j, G)
  BY <1>9
<1> DEFINE S == {k \in 0 .. L : \A j \in D : rank[j] <= k => G[j] \in Nat}
<1>12. 0 .. L \subseteq S
  <2>1. 0 \in S
    <3>1. \A j \in D : rank[j] <= 0 => j > L
      BY <1>1
    <3> QED BY <1>1, <1>11, <3>1
  <2>2. ASSUME NEW k \in 1 .. L, k - 1 \in S PROVE k \in S
    <3>1. ASSUME NEW j \in D, rank[j] <= k PROVE G[j] \in Nat
      <4>1. \A m \in D : m > j => G[m] \in Nat
        BY <1>1, <2>2, <3>1
      <4>2. Body(j, G) \in Nat
        BY <1>1, <1>2, <4>1
      <4> QED BY <1>11, <4>2
    <3> QED BY <3>1, <1>1
  <2> HIDE DEF S
  <2> QED BY <1>1, <2>1, <2>2, BoundedInduction
<1>13. G \in [D -> Nat]
  <2>0. L \in S
    <3> HIDE DEF S
    <3> QED BY <1>1, <1>12
  <2>1. \A j \in D : rank[j] <= L
    BY <1>1
  <2>2. \A j \in D : G[j] \in Nat
    BY <2>0, <2>1
  <2> HIDE DEF Body, D
  <2> QED BY <1>9, <2>2
<1>14. L + 1 \in D /\ G[L + 1] = 0
  BY <1>1, <1>11
<1>15. \A j \in 1 .. L : G[j] = IF Escaped(j) THEN G[j + 2]
                                ELSE IF At(s, j) # closing THEN G[j + 1]
                                ELSE IF Doubled2(j) THEN G[j + 2] ELSE j + 1
  BY <1>1, <1>11
<1> QED BY <1>10, <1>13, <1>14, <1>15 DEF QuotedEquation, L, Escaped, Doubled2

(* The recursion of CommentFrom. *)
LEMMA CommentRecursion ==
  ASSUME NEW s \in Texts, NEW nests \in BOOLEAN
  PROVE  LET e == CommentFrom(s, nests)
         IN \A depth \in Nat \ {0} :
              /\ \A j \in 1 .. Len(s) + 1 : e[<<j, depth>>] \in Nat
              /\ e[<<Len(s) + 1, depth>>] = 0
              /\ \A j \in 1 .. Len(s) :
                   e[<<j, depth>>] =
                     IF Pair(s, j, "*", "/")
                     THEN IF depth = 1 THEN j + 2 ELSE e[<<j + 2, depth - 1>>]
                     ELSE IF nests /\ Pair(s, j, "/", "*") THEN e[<<j + 2, depth + 1>>]
                     ELSE e[<<j + 1, depth>>]
<1> DEFINE L == Len(s)
           N == Nat \ {0}
           D == (1 .. L + 1) \X N
           X == [D -> Nat]
           Closes(j) == Pair(s, j, "*", "/")
           Opens(j) == nests /\ Pair(s, j, "/", "*")
           Body(p, g) == IF p[1] > L THEN 0
                         ELSE IF Closes(p[1])
                              THEN IF p[2] = 1 THEN p[1] + 2 ELSE g[<<p[1] + 2, p[2] - 1>>]
                         ELSE IF Opens(p[1]) THEN g[<<p[1] + 2, p[2] + 1>>]
                         ELSE g[<<p[1] + 1, p[2]>>]
           G == CHOOSE g : g = [p \in D |-> Body(p, g)]
           rank == [p \in D |-> L + 1 - p[1]]
           step == [p \in D |-> [g \in X |-> Body(p, g)]]
<1>1. L \in Nat /\ \A j \in 1 .. L : Closes(j) \/ Opens(j) => j + 1 \in 1 .. L
  <2>1. L \in Nat /\ \A i \in Int : (At(s, i) = "END") <=> i \notin 1 .. L
    BY AtText
  <2> HIDE DEF L
  <2>2. \A j \in 1 .. L : j \in Int /\ j + 1 \in Int
    BY <2>1
  <2> QED BY <2>1, <2>2 DEF Pair
<1> HIDE DEF L, Closes, Opens
<1>2. ASSUME NEW p \in D
      PROVE  /\ p[1] \in 1 .. L + 1 /\ p[2] \in N
             /\ ~(p[1] > L) => /\ p[1] \in 1 .. L
                               /\ <<p[1] + 1, p[2]>> \in D
             /\ ~(p[1] > L) /\ (Closes(p[1]) \/ Opens(p[1]))
                  => <<p[1] + 2, p[2] + 1>> \in D /\ (p[2] # 1 => <<p[1] + 2, p[2] - 1>> \in D)
  <2>1. p[1] \in 1 .. L + 1 /\ p[2] \in N
    OBVIOUS
  <2>2. ~(p[1] > L) => /\ p[1] \in 1 .. L /\ p[1] + 1 \in 1 .. L + 1
    BY <1>1, <2>1
  <2>3. ~(p[1] > L) /\ (Closes(p[1]) \/ Opens(p[1])) => p[1] + 2 \in 1 .. L + 1
    <3>1. ~(p[1] > L) /\ (Closes(p[1]) \/ Opens(p[1])) => p[1] + 1 \in 1 .. L
      BY <1>1, <2>2
    <3> QED BY <1>1, <2>1, <3>1
  <2>4. p[2] + 1 \in N /\ (p[2] # 1 => p[2] - 1 \in N)
    BY <2>1
  <2> QED BY <2>1, <2>2, <2>3, <2>4
<1>3. \A p \in D : \A g \in X : Body(p, g) \in Nat
  <2> HIDE DEF D
  <2> QED BY <1>1, <1>2
<1>4. rank \in [D -> 0 .. L]
  BY <1>1
<1>5. step \in [D -> [X -> Nat]]
  <2> HIDE DEF Body, X, D
  <2> QED BY <1>3
<1>6. ASSUME NEW p \in D, NEW g \in X, NEW h \in X, \A q \in D : rank[q] < rank[p] => g[q] = h[q]
      PROVE  step[p][g] = step[p][h]
  <2>1. \A q \in D : q[1] > p[1] => g[q] = h[q]
    <3>1. \A q \in D : q[1] \in Int /\ p[1] \in Int /\ rank[q] = L + 1 - q[1] /\ rank[p] = L + 1 - p[1]
      BY <1>1
    <3> HIDE DEF D, rank
    <3> QED BY <1>1, <1>6, <3>1
  <2>2. Body(p, g) = Body(p, h)
    <3> DEFINE a == <<p[1] + 1, p[2]>>
               b == <<p[1] + 2, p[2] + 1>>
               c == <<p[1] + 2, p[2] - 1>>
    <3>1. p[1] \in Int /\ a[1] > p[1] /\ b[1] > p[1] /\ c[1] > p[1]
      BY <1>1, <1>2
    <3>2. /\ ~(p[1] > L) => g[a] = h[a]
          /\ ~(p[1] > L) /\ (Closes(p[1]) \/ Opens(p[1])) =>
               g[b] = h[b] /\ (p[2] # 1 => g[c] = h[c])
      <4>1. /\ ~(p[1] > L) => a \in D
            /\ ~(p[1] > L) /\ (Closes(p[1]) \/ Opens(p[1])) => b \in D /\ (p[2] # 1 => c \in D)
        <5> HIDE DEF D
        <5> QED BY <1>2
      <4> HIDE DEF D, a, b, c
      <4> QED BY <2>1, <3>1, <4>1
    <3> HIDE DEF D
    <3> QED BY <3>2
  <2> HIDE DEF Body, X, D
  <2> QED BY <2>2
<1>7. PICK f \in [D -> Nat] : \A p \in D : f[p] = step[p][f]
  <2>1. IsRecursion(D, Nat, L, rank, step)
    <3>1. Nat # {}
      OBVIOUS
    <3> HIDE DEF step, rank, D
    <3>2. step \in [D -> [[D -> Nat] -> Nat]]
      BY <1>5
    <3>3. \A p \in D : \A g, h \in [D -> Nat] :
            (\A q \in D : rank[q] < rank[p] => g[q] = h[q]) => step[p][g] = step[p][h]
      BY <1>6
    <3> QED BY <1>1, <1>4, <3>1, <3>2, <3>3 DEF IsRecursion
  <2> HIDE DEF step, rank, D
  <2> QED BY <2>1, Recursion
<1>8. f = [p \in D |-> Body(p, f)]
  <2>1. \A p \in D : f[p] = Body(p, f)
    <3> HIDE DEF Body, D
    <3> QED BY <1>7
  <2> HIDE DEF Body, D
  <2> QED BY <1>7, <2>1
<1>9. G = [p \in D |-> Body(p, G)]
  <2> HIDE DEF Body, D
  <2> QED BY <1>8
<1>10. G = CommentFrom(s, nests)
  BY DEF CommentFrom, G, Body, D, L, Closes, Opens
<1> HIDE DEF G
<1>11. \A p \in D : G[p] = Body(p, G)
  <2> HIDE DEF Body, D
  <2> QED BY <1>9
<1> DEFINE S == {k \in 0 .. L : \A p \in D : rank[p] <= k => G[p] \in Nat}
<1>12. 0 .. L \subseteq S
  <2>0. \A p \in D : rank[p] = L + 1 - p[1] /\ p[1] \in 1 .. L + 1
    OBVIOUS
  <2> HIDE DEF rank, D
  <2>1. 0 \in S
    <3>1. \A p \in D : rank[p] <= 0 => p[1] > L
      BY <1>1, <2>0
    <3>2. \A p \in D : p[1] > L => G[p] \in Nat
      <4>1. \A p \in D : p[1] > L => G[p] = 0
        BY <1>11
      <4> QED BY <4>1
    <3> QED BY <1>1, <3>1, <3>2
  <2>2. ASSUME NEW k \in 1 .. L, k - 1 \in S PROVE k \in S
    <3>1. ASSUME NEW p \in D, rank[p] <= k PROVE G[p] \in Nat
      <4>1. \A q \in D : q[1] > p[1] => G[q] \in Nat
        <5>1. \A q \in D : q[1] > p[1] => rank[q] <= k - 1
          BY <1>1, <2>0, <3>1
        <5> QED BY <2>2, <5>1
      <4> DEFINE a == <<p[1] + 1, p[2]>>
                 b == <<p[1] + 2, p[2] + 1>>
                 c == <<p[1] + 2, p[2] - 1>>
      <4>2. p[1] \in Int /\ a[1] > p[1] /\ b[1] > p[1] /\ c[1] > p[1]
        <5>1. p[1] \in Int
          BY <1>1, <2>0
        <5> QED BY <5>1
      <4>3. /\ ~(p[1] > L) => G[a] \in Nat
            /\ ~(p[1] > L) /\ (Closes(p[1]) \/ Opens(p[1])) =>
                 G[b] \in Nat /\ (p[2] # 1 => G[c] \in Nat)
        <5>1. /\ ~(p[1] > L) => a \in D
              /\ ~(p[1] > L) /\ (Closes(p[1]) \/ Opens(p[1])) => b \in D /\ (p[2] # 1 => c \in D)
          BY <1>2
        <5> HIDE DEF a, b, c
        <5> QED BY <4>1, <4>2, <5>1
      <4>4. Body(p, G) \in Nat
        <5>1. p[1] + 2 \in Nat /\ 0 \in Nat
          BY <1>1, <2>0
        <5> HIDE DEF a, b, c
        <5>2. Body(p, G) = IF p[1] > L THEN 0
                           ELSE IF Closes(p[1]) THEN IF p[2] = 1 THEN p[1] + 2 ELSE G[c]
                           ELSE IF Opens(p[1]) THEN G[b] ELSE G[a]
          BY DEF a, b, c
        <5> HIDE DEF Body
        <5> QED BY <4>3, <5>1, <5>2
      <4> HIDE DEF Body
      <4> QED BY <1>11, <4>4
    <3> QED BY <3>1, <1>1
  <2> HIDE DEF S
  <2> QED BY <1>1, <2>1, <2>2, BoundedInduction
<1>13. \A p \in D : G[p] \in Nat
  <2>0. L \in S
    <3> HIDE DEF S
    <3> QED BY <1>1, <1>12
  <2>1. \A p \in D : rank[p] <= L
    BY <1>1
  <2> HIDE DEF rank, D
  <2> QED BY <2>0, <2>1
<1>14. ASSUME NEW depth \in N
       PROVE  /\ \A j \in 1 .. L + 1 : G[<<j, depth>>] \in Nat
              /\ G[<<L + 1, depth>>] = 0
              /\ \A j \in 1 .. L :
                   G[<<j, depth>>] =
                     IF Closes(j)
                     THEN IF depth = 1 THEN j + 2 ELSE G[<<j + 2, depth - 1>>]
                     ELSE IF Opens(j) THEN G[<<j + 2, depth + 1>>]
                     ELSE G[<<j + 1, depth>>]
  <2>1. \A j \in 1 .. L + 1 : <<j, depth>> \in D
    BY <1>14
  <2>2. L + 1 \in 1 .. L + 1 /\ L + 1 > L /\ \A j \in 1 .. L : j \in 1 .. L + 1 /\ ~(j > L)
    BY <1>1
  <2>3. \A j \in 1 .. L + 1 : G[<<j, depth>>] = Body(<<j, depth>>, G)
    <3> HIDE DEF Body, D
    <3> QED BY <1>11, <2>1
  <2> HIDE DEF D
  <2> QED BY <1>13, <2>1, <2>2, <2>3
<1> QED BY <1>10, <1>14 DEF L, Closes, Opens

-----------------------------------------------------------------------------
(* Where what a turn reads ends.                                           *)

(* Induction from the end: each element follows from those after it.        *)
LEMMA BackwardInduction ==
  ASSUME NEW n \in Nat, NEW S, \A j \in 1 .. n : (\A k \in j + 1 .. n : k \in S) => j \in S
  PROVE  \A j \in 1 .. n : j \in S
<1> DEFINE T == {k \in 0 .. n : \A j \in 1 .. n : n - j < k => j \in S}
<1>1. 0 \in T
  OBVIOUS
<1>2. ASSUME NEW k \in 1 .. n, k - 1 \in T PROVE k \in T
  <2>1. ASSUME NEW j \in 1 .. n, n - j < k PROVE j \in S
    <3>1. \A m \in j + 1 .. n : m \in 1 .. n /\ n - m < k - 1
      BY <2>1
    <3>2. \A m \in j + 1 .. n : m \in S
      BY <1>2, <3>1
    <3> QED BY <3>2
  <2> QED BY <2>1
<1>3. n \in T
  <2>1. n \in 0 .. n
    OBVIOUS
  <2> HIDE DEF T
  <2> QED BY <1>1, <1>2, <2>1, BoundedInduction
<1>4. \A j \in 1 .. n : n - j < n
  OBVIOUS
<1> QED BY <1>3, <1>4

(* Quoted text that ends does so after where it goes on, inside the text.   *)
LEMMA QuotedBounds ==
  ASSUME NEW s \in Texts, NEW closing, closing # "END", NEW backslash \in BOOLEAN,
         NEW doubles \in BOOLEAN, NEW j \in 1 .. Len(s) + 1
  PROVE  LET end == QuotedFrom(s, closing, backslash, doubles)[j]
         IN end = 0 \/ end \in j + 1 .. Len(s) + 1
<1> DEFINE L == Len(s)
           e == QuotedFrom(s, closing, backslash, doubles)
           S == {k \in 1 .. L + 1 : e[k] = 0 \/ e[k] \in k + 1 .. L + 1}
<1>1. /\ L \in Nat
      /\ \A i \in Int : (At(s, i) = "END") <=> i \notin 1 .. L
  BY AtText
<1>2. /\ e[L + 1] = 0
      /\ \A k \in 1 .. L :
           \/ k + 2 \in 1 .. L + 1 /\ e[k] = e[k + 2]
           \/ e[k] = e[k + 1]
           \/ e[k] = k + 1
  <2> HIDE DEF e
  <2>1. /\ e[L + 1] = 0
        /\ \A k \in 1 .. L :
                 e[k] = IF backslash /\ At(s, k) = "\\" /\ k < L THEN e[k + 2]
                        ELSE IF At(s, k) # closing THEN e[k + 1]
                        ELSE IF doubles /\ At(s, k + 1) = closing THEN e[k + 2]
                        ELSE k + 1
    <3>1. QuotedEquation(e, s, closing, backslash, doubles)
      BY QuotedRecursion DEF e
    <3> QED BY <3>1 DEF QuotedEquation
  <2>2. \A k \in 1 .. L : At(s, k + 1) = closing => k + 1 \in 1 .. L
    BY <1>1
  <2> HIDE DEF L
  <2>3. \A k \in 1 .. L : k < L => k + 2 \in 1 .. L + 1
    BY <1>1
  <2>4. \A k \in 1 .. L : k + 1 \in 1 .. L => k < L
    BY <1>1
  <2> QED BY <2>1, <2>2, <2>3, <2>4
<1> HIDE DEF L, e
<1>3. ASSUME NEW k \in 1 .. L + 1, \A m \in k + 1 .. L + 1 : m \in S PROVE k \in S
  <2>1. CASE k = L + 1
    BY <1>2, <2>1
  <2>2. CASE k # L + 1
    <3>1. k \in 1 .. L /\ k + 1 \in k + 1 .. L + 1
      BY <1>1, <2>2
    <3>2. e[k + 1] = 0 \/ e[k + 1] \in k + 2 .. L + 1
      BY <1>1, <1>3, <3>1
    <3>3. k + 2 \in 1 .. L + 1 => e[k + 2] = 0 \/ e[k + 2] \in k + 3 .. L + 1
      <4>1. k + 2 \in 1 .. L + 1 => k + 2 \in k + 1 .. L + 1
        BY <1>1
      <4> QED BY <1>1, <1>3, <4>1
    <3>4. e[k] = 0 \/ e[k] \in k + 1 .. L + 1
      <4>1. \/ k + 2 \in 1 .. L + 1 /\ e[k] = e[k + 2]
            \/ e[k] = e[k + 1]
            \/ e[k] = k + 1
        BY <1>2, <3>1
      <4> QED BY <1>1, <3>1, <3>2, <3>3, <4>1
    <3> QED BY <3>4
  <2> QED BY <2>1, <2>2
<1>4. \A k \in 1 .. L + 1 : k \in S
  <2>1. L + 1 \in Nat
    BY <1>1
  <2> HIDE DEF S
  <2> QED BY <1>3, <2>1, BackwardInduction
<1>5. j \in 1 .. L + 1
  BY DEF L
<1> QED BY <1>4, <1>5 DEF L, e

(* A comment that ends does so at least two characters after where it goes
   on, inside the text. *)
LEMMA CommentBounds ==
  ASSUME NEW s \in Texts, NEW nests \in BOOLEAN, NEW j \in 1 .. Len(s) + 1,
         NEW depth \in Nat \ {0}
  PROVE  LET end == CommentFrom(s, nests)[<<j, depth>>]
         IN end = 0 \/ end \in j + 2 .. Len(s) + 1
<1> DEFINE L == Len(s)
           N == Nat \ {0}
           e == CommentFrom(s, nests)
           S == {k \in 1 .. L + 1 : \A n \in N : e[<<k, n>>] = 0 \/ e[<<k, n>>] \in k + 2 .. L + 1}
<1>1. /\ L \in Nat
      /\ \A i \in Int : (At(s, i) = "END") <=> i \notin 1 .. L
  BY AtText
<1>2. \A n \in N :
        /\ e[<<L + 1, n>>] = 0
        /\ \A k \in 1 .. L :
             \/ e[<<k, n>>] = e[<<k + 1, n>>]
             \/ k + 2 \in 1 .. L + 1 /\ e[<<k, n>>] = k + 2
             \/ k + 2 \in 1 .. L + 1 /\ n - 1 \in N /\ e[<<k, n>>] = e[<<k + 2, n - 1>>]
             \/ k + 2 \in 1 .. L + 1 /\ n + 1 \in N /\ e[<<k, n>>] = e[<<k + 2, n + 1>>]
  <2> HIDE DEF e
  <2>1. \A n \in N :
          /\ e[<<L + 1, n>>] = 0
          /\ \A k \in 1 .. L :
                   e[<<k, n>>] =
                     IF Pair(s, k, "*", "/")
                     THEN IF n = 1 THEN k + 2 ELSE e[<<k + 2, n - 1>>]
                     ELSE IF nests /\ Pair(s, k, "/", "*") THEN e[<<k + 2, n + 1>>]
                     ELSE e[<<k + 1, n>>]
    BY CommentRecursion DEF e
  <2>2. \A k \in 1 .. L : Pair(s, k, "*", "/") \/ Pair(s, k, "/", "*") => k + 2 \in 1 .. L + 1
    <3>1. \A k \in 1 .. L : Pair(s, k, "*", "/") \/ Pair(s, k, "/", "*") => k + 1 \in 1 .. L
      BY <1>1 DEF Pair
    <3> HIDE DEF L
    <3> QED BY <1>1, <3>1
  <2>3. \A n \in N : n + 1 \in N /\ (n # 1 => n - 1 \in N)
    OBVIOUS
  <2> HIDE DEF L, N
  <2> QED BY <2>1, <2>2, <2>3
<1> HIDE DEF L, e
<1>3. ASSUME NEW k \in 1 .. L + 1, \A m \in k + 1 .. L + 1 : m \in S PROVE k \in S
  <2> SUFFICES ASSUME NEW n \in N
               PROVE  e[<<k, n>>] = 0 \/ e[<<k, n>>] \in k + 2 .. L + 1
    OBVIOUS
  <2>1. CASE k = L + 1
    BY <1>2, <2>1
  <2>2. CASE k # L + 1
    <3>1. k \in 1 .. L /\ k + 1 \in k + 1 .. L + 1
      BY <1>1, <2>2
    <3>2. \A m \in N : e[<<k + 1, m>>] = 0 \/ e[<<k + 1, m>>] \in k + 3 .. L + 1
      <4>1. k + 1 + 2 = k + 3
        BY <1>1
      <4> QED BY <1>3, <3>1, <4>1
    <3>3. k + 2 \in 1 .. L + 1 =>
            \A m \in N : e[<<k + 2, m>>] = 0 \/ e[<<k + 2, m>>] \in k + 4 .. L + 1
      <4>1. k + 2 + 2 = k + 4 /\ (k + 2 \in 1 .. L + 1 => k + 2 \in k + 1 .. L + 1)
        BY <1>1
      <4> QED BY <1>3, <4>1
    <3>4. \/ e[<<k, n>>] = e[<<k + 1, n>>]
          \/ k + 2 \in 1 .. L + 1 /\ e[<<k, n>>] = k + 2
          \/ k + 2 \in 1 .. L + 1 /\ n - 1 \in N /\ e[<<k, n>>] = e[<<k + 2, n - 1>>]
          \/ k + 2 \in 1 .. L + 1 /\ n + 1 \in N /\ e[<<k, n>>] = e[<<k + 2, n + 1>>]
      BY <1>2, <3>1
    <3>5. /\ k + 3 .. L + 1 \subseteq k + 2 .. L + 1
          /\ k + 4 .. L + 1 \subseteq k + 2 .. L + 1
          /\ k + 2 \in 1 .. L + 1 => k + 2 \in k + 2 .. L + 1
      BY <1>1
    <3> HIDE DEF N
    <3> QED BY <3>2, <3>3, <3>4, <3>5
  <2> QED BY <2>1, <2>2
<1>4. \A k \in 1 .. L + 1 : k \in S
  <2>1. L + 1 \in Nat
    BY <1>1
  <2> HIDE DEF S
  <2> QED BY <1>3, <2>1, BackwardInduction
<1>5. j \in 1 .. L + 1 /\ depth \in N
  BY DEF L
<1> HIDE DEF N
<1> QED BY <1>4, <1>5 DEF L, e

(* The least element of a set is its Min. *)
LEMMA LeastIsMin ==
  ASSUME NEW S \in SUBSET Nat, NEW j \in S, \A k \in S : j <= k
  PROVE  Min(S) = j
<1>1. Min(S) \in S /\ \A k \in S : Min(S) <= k
  BY MinNatural
<1>2. Min(S) \in Nat /\ j \in Nat /\ Min(S) <= j /\ j <= Min(S)
  BY <1>1
<1> QED BY <1>2

(* After stops at the first character that is none of the given ones. *)
LEMMA AfterStops ==
  ASSUME NEW s \in Texts, NEW i \in 1 .. Len(s) + 1, NEW parts, "END" \notin parts
  PROVE  /\ After(s, i, parts) \in i .. Len(s) + 1
         /\ At(s, After(s, i, parts)) \notin parts
         /\ \A k \in i .. After(s, i, parts) - 1 : At(s, k) \in parts
<1> DEFINE L == Len(s)
           S == {j \in i .. L + 1 : At(s, j) \notin parts}
<1>1. L \in Nat /\ At(s, L + 1) = "END"
  BY AtText
<1>2. L + 1 \in S /\ S \in SUBSET Nat
  BY <1>1
<1>3. Min(S) \in S /\ \A k \in S : Min(S) <= k
  <2> HIDE DEF S
  <2> QED BY <1>2, MinNatural
<1>4. \A k \in i .. Min(S) - 1 : k \in i .. L + 1 /\ k \notin S
  BY <1>1, <1>3
<1>5. After(s, i, parts) = Min(S)
  BY DEF After
<1> QED BY <1>3, <1>4, <1>5

(* And only there. *)
IsAfter(s, i, parts, j) ==
  /\ s \in Texts /\ i \in 1 .. Len(s) + 1 /\ j \in i .. Len(s) + 1 /\ At(s, j) \notin parts
  /\ \A k \in i .. j - 1 : At(s, k) \in parts

(* It is the only such position. *)
LEMMA AfterUnique ==
  ASSUME NEW s, NEW i, NEW parts, NEW j, IsAfter(s, i, parts, j)
  PROVE  After(s, i, parts) = j
<1>0. /\ s \in Texts /\ i \in 1 .. Len(s) + 1 /\ j \in i .. Len(s) + 1 /\ At(s, j) \notin parts
      /\ \A k \in i .. j - 1 : At(s, k) \in parts
  BY DEF IsAfter
<1> DEFINE L == Len(s)
           S == {k \in i .. L + 1 : At(s, k) \notin parts}
<1>1. L \in Nat /\ i \in Nat /\ j \in Nat
  BY <1>0, AtText
<1>2. j \in S /\ S \in SUBSET Nat
  BY <1>0, <1>1
<1>3. \A k \in S : j <= k
  <2> SUFFICES ASSUME NEW k \in S, k < j PROVE FALSE
    BY <1>1
  <2>1. k \in i .. j - 1
    BY <1>1
  <2> QED BY <1>0, <2>1
<1>4. Min(S) = j
  <2> HIDE DEF S
  <2> QED BY <1>2, <1>3, LeastIsMin
<1> QED BY <1>4 DEF After

(* Where lineEnd stops. *)
Stops(d) == LineTerminators(d) \cup {"END"}

(* A line comment ends at the first line terminator of the dialect. *)
LEMMA LineEndStops ==
  ASSUME NEW s \in Texts, NEW i \in 1 .. Len(s) + 1, NEW d
  PROVE  /\ lineEnd(s, i, d) \in i .. Len(s) + 1
         /\ At(s, lineEnd(s, i, d)) \in Stops(d)
         /\ \A k \in i .. lineEnd(s, i, d) - 1 : At(s, k) \notin Stops(d)
<1> DEFINE L == Len(s)
           S == {j \in i .. L + 1 : At(s, j) \in Stops(d)}
<1>1. L \in Nat /\ At(s, L + 1) = "END"
  BY AtText
<1>2. L + 1 \in S /\ S \in SUBSET Nat
  BY <1>1 DEF Stops
<1>3. Min(S) \in S /\ \A k \in S : Min(S) <= k
  <2> HIDE DEF S
  <2> QED BY <1>2, MinNatural
<1>4. \A k \in i .. Min(S) - 1 : k \in i .. L + 1 /\ k \notin S
  BY <1>1, <1>3
<1>5. lineEnd(s, i, d) = Min(S)
  BY DEF lineEnd, Stops
<1> QED BY <1>3, <1>4, <1>5

(* And only there. *)
IsLineEnd(s, i, d, j) ==
  /\ s \in Texts /\ i \in 1 .. Len(s) + 1 /\ j \in i .. Len(s) + 1 /\ At(s, j) \in Stops(d)
  /\ \A k \in i .. j - 1 : At(s, k) \notin Stops(d)

(* It is the only such position. *)
LEMMA LineEndUnique ==
  ASSUME NEW s, NEW i, NEW d, NEW j, IsLineEnd(s, i, d, j)
  PROVE  lineEnd(s, i, d) = j
<1>0. /\ s \in Texts /\ i \in 1 .. Len(s) + 1 /\ j \in i .. Len(s) + 1 /\ At(s, j) \in Stops(d)
      /\ \A k \in i .. j - 1 : At(s, k) \notin Stops(d)
  BY DEF IsLineEnd
<1> DEFINE L == Len(s)
           S == {k \in i .. L + 1 : At(s, k) \in Stops(d)}
<1>1. L \in Nat /\ i \in Nat /\ j \in Nat
  BY <1>0, AtText
<1>2. j \in S /\ S \in SUBSET Nat
  BY <1>0, <1>1
<1>3. \A k \in S : j <= k
  <2> SUFFICES ASSUME NEW k \in S, k < j PROVE FALSE
    BY <1>1
  <2>1. k \in i .. j - 1
    BY <1>1
  <2> QED BY <1>0, <2>1
<1>4. Min(S) = j
  <2> HIDE DEF S
  <2> QED BY <1>2, <1>3, LeastIsMin
<1> QED BY <1>4 DEF lineEnd, Stops

(* Only marks end a text or start a token. *)
LEMMA Unmarked ==
  /\ \A c \in Marks \ {"$", "UNDERSCORE"} :
       c \notin IdentifierParts /\ c \notin NameParts /\ c \notin NameStarts /\ c \notin Digits
  /\ "$" \notin NameParts \cup HighBytes /\ "$" \notin Digits
  /\ "END" \notin NameParts \cup HighBytes
  /\ NameParts \subseteq IdentifierParts
BY CharactersAssumption DEF IdentifierParts, NameParts, NameStarts, Marks

(* Where the delimiter of a dollar-quoted text ends. *)
LEMMA DelimiterBounds ==
  ASSUME NEW s \in Texts, NEW i \in 1 .. Len(s), dollarDelimiter(s, i) # 0
  PROVE  /\ dollarDelimiter(s, i) \in Nat /\ dollarDelimiter(s, i) >= 2
         /\ i + dollarDelimiter(s, i) - 1 \in 1 .. Len(s)
         /\ At(s, i + dollarDelimiter(s, i) - 1) = "$"
<1> DEFINE L == Len(s)
           j == After(s, i + 1, NameParts \cup HighBytes)
<1>1. L \in Nat /\ \A k \in Int : (At(s, k) = "END") <=> k \notin 1 .. L
  BY AtText
<1>2. j \in i + 1 .. L + 1
  <2>1. i + 1 \in 1 .. Len(s) + 1
    BY <1>1
  <2> QED BY <2>1, AfterStops, Unmarked
<1>3. At(s, j) = "$" /\ dollarDelimiter(s, i) = j - i + 1
  BY DEF dollarDelimiter
<1> HIDE DEF j, L
<1>4. j # L + 1
  <2>1. L + 1 \in Int /\ L + 1 \notin 1 .. L
    BY <1>1
  <2> QED BY <1>1, <1>3, <2>1
<1>5. j \in 1 .. L /\ i + (j - i + 1) - 1 = j /\ j - i + 1 >= 2 /\ j - i + 1 \in Nat
  <2>1. i \in Nat
    OBVIOUS
  <2> QED BY <1>1, <1>2, <1>4, <2>1
<1> QED BY <1>3, <1>5 DEF L

(* The cases of a turn exclude each other. *)
IsEscape(s, i)    == Pair(s, i, "\\", ":")
IsQuote(s, i, d)  == At(s, i) \in Quotes(d)
IsHash(s, i, d)   == d = "mysql" /\ At(s, i) = "#"
IsComment(s, i)   == Pair(s, i, "/", "*")
IsDollar(s, i, d) == d = "postgres" /\ At(s, i) = "$" /\ ~identifierPart(At(s, i - 1))
IsColon(s, i)     == At(s, i) = ":"
IsAtSign(s, i, d) == d = "sqlserver" /\ At(s, i) = "@"
IsPlain(s, i, d)  ==
  ~(\/ IsEscape(s, i) \/ IsQuote(s, i, d) \/ StartsDashComment(s, i, d) \/ IsHash(s, i, d)
    \/ IsComment(s, i) \/ IsDollar(s, i, d) \/ IsColon(s, i) \/ IsNative(s, i, d)
    \/ IsAtSign(s, i, d))

(* At most one of the cases of a turn holds, and it tells the turn. *)
LEMMA LexemeCases ==
  ASSUME NEW s, NEW i, NEW d
  PROVE  /\ IsEscape(s, i) => Lexeme(s, i, d) = Parameter(i + 2, <<>>)
         /\ IsQuote(s, i, d) => Lexeme(s, i, d) = Quoted(s, i, d)
         /\ StartsDashComment(s, i, d) => Lexeme(s, i, d) = Skip(lineEnd(s, i + 2, d))
         /\ IsHash(s, i, d) => Lexeme(s, i, d) = Skip(lineEnd(s, i + 1, d))
         /\ IsComment(s, i) => Lexeme(s, i, d) = Comment(s, i, d)
         /\ IsDollar(s, i, d) => Lexeme(s, i, d) = Dollar(s, i)
         /\ IsColon(s, i) => Lexeme(s, i, d) = Colon(s, i)
         /\ IsNative(s, i, d) => Lexeme(s, i, d) = Fail("mixed")
         /\ IsAtSign(s, i, d) => Lexeme(s, i, d) = AtSign(s, i)
         /\ IsPlain(s, i, d) => Lexeme(s, i, d) = Skip(i + 1)
<1> DEFINE c == At(s, i)
           t == Lexeme(s, i, d)
<1>1. /\ IsEscape(s, i) => c = "\\"
      /\ IsQuote(s, i, d) => c \in {"'", "QUOTE", "BACKQUOTE", "["}
      /\ StartsDashComment(s, i, d) => c = "-"
      /\ IsHash(s, i, d) => c = "#"
      /\ IsComment(s, i) => c = "/"
      /\ IsDollar(s, i, d) => d = "postgres" /\ c = "$"
      /\ IsColon(s, i) => c = ":"
      /\ IsNative(s, i, d) => c = "?" \/ (d = "sqlite" /\ c \in {"@", "$"})
      /\ IsAtSign(s, i, d) => d = "sqlserver" /\ c = "@"
  BY DEF IsEscape, IsQuote, IsHash, IsComment, IsDollar, IsColon, IsAtSign,
         StartsDashComment, IsNative, Pair, Quotes
<1>2. t = CASE IsEscape(s, i) -> Parameter(i + 2, <<>>)
            [] IsQuote(s, i, d) -> Quoted(s, i, d)
            [] StartsDashComment(s, i, d) -> Skip(lineEnd(s, i + 2, d))
            [] IsHash(s, i, d) -> Skip(lineEnd(s, i + 1, d))
            [] IsComment(s, i) -> Comment(s, i, d)
            [] IsDollar(s, i, d) -> Dollar(s, i)
            [] IsColon(s, i) -> Colon(s, i)
            [] IsNative(s, i, d) -> Fail("mixed")
            [] IsAtSign(s, i, d) -> AtSign(s, i)
            [] OTHER -> Skip(i + 1)
  BY DEF Lexeme, IsEscape, IsQuote, IsHash, IsComment, IsDollar, IsColon, IsAtSign
<1> HIDE DEF c, t
<1>3. /\ IsEscape(s, i) => t = Parameter(i + 2, <<>>)
      /\ IsQuote(s, i, d) => t = Quoted(s, i, d)
      /\ StartsDashComment(s, i, d) => t = Skip(lineEnd(s, i + 2, d))
      /\ IsHash(s, i, d) => t = Skip(lineEnd(s, i + 1, d))
      /\ IsComment(s, i) => t = Comment(s, i, d)
  BY <1>1, <1>2
<1>4. /\ IsDollar(s, i, d) => t = Dollar(s, i)
      /\ IsColon(s, i) => t = Colon(s, i)
      /\ IsNative(s, i, d) => t = Fail("mixed")
      /\ IsAtSign(s, i, d) => t = AtSign(s, i)
  BY <1>1, <1>2
<1>5. IsPlain(s, i, d) => t = Skip(i + 1)
  BY <1>2 DEF IsPlain
<1> QED BY <1>3, <1>4, <1>5 DEF t

(* What a turn at i finds lies in the text: it ends after i and, for a
   parameter, is a colon and a valid name. *)
TurnOK(s, i, t) ==
  /\ t.kind \in Errors \cup {"text", "token", "executable"}
  /\ t.kind \notin Errors => t.next \in i + 1 .. Len(s) + 1
  /\ t.kind = "token" =>
       \/ IsEscape(s, i) /\ t.name = <<>> /\ t.next = i + 2
       \/ IsColon(s, i) /\ t.name = SubSeq(s, i + 1, t.next - 1) /\ validName(t.name)
  /\ t.kind = "executable" => t.next \in i + 5 .. Len(s) + 1

(* Each form of a turn is one when it ends after i inside the text. *)
LEMMA TurnForms ==
  ASSUME NEW s, NEW i
  PROVE  /\ \A n \in i + 1 .. Len(s) + 1 : TurnOK(s, i, Skip(n))
         /\ \A n \in i + 5 .. Len(s) + 1 : n \in i + 1 .. Len(s) + 1 => TurnOK(s, i, Executable(n))
         /\ TurnOK(s, i, Fail("syntax")) /\ TurnOK(s, i, Fail("mixed"))
         /\ TurnOK(s, i, Fail("invalid"))
BY DEF TurnOK, Skip, Executable, Fail, Turn, Errors

(* Quoted text, where it starts and how it ends. *)
LEMMA QuoteIs ==
  ASSUME NEW s \in Texts, NEW i \in 1 .. Len(s), NEW d \in Dialects, IsQuote(s, i, d)
  PROVE  /\ Closing(At(s, i)) \in {"'", "QUOTE", "BACKQUOTE", "]"}
         /\ BackslashEscapes(s, i, d) \in BOOLEAN /\ Doubles(At(s, i), d) \in BOOLEAN
BY DEF IsQuote, Quotes, Closing, BackslashEscapes, Doubles

(* Every turn is one that lies in the text. *)
LEMMA TurnBounds ==
  ASSUME NEW s \in Texts, NEW i \in 1 .. Len(s), NEW d \in Dialects
  PROVE  TurnOK(s, i, Lexeme(s, i, d))
<1> DEFINE L == Len(s)
           t == Lexeme(s, i, d)
<1>1. /\ L \in Nat /\ i \in Nat /\ i \in 1 .. L
      /\ \A j \in Int : (At(s, j) = "END") <=> j \notin 1 .. L
  BY AtText
<1>2. i + 1 \in i + 1 .. L + 1 /\ i + 1 \in 1 .. L + 1
  BY <1>1
<1>3. CASE IsEscape(s, i)
  <2>1. t = Parameter(i + 2, <<>>)
    BY <1>3, LexemeCases
  <2>2. i + 1 \in 1 .. L
    BY <1>1, <1>3 DEF IsEscape, Pair
  <2>3. i + 2 \in i + 1 .. L + 1
    BY <1>1, <2>2
  <2> QED BY <1>3, <2>1, <2>3 DEF TurnOK, Parameter, Turn, Errors
<1>4. CASE IsQuote(s, i, d)
  <2>1. t = Quoted(s, i, d)
    BY <1>4, LexemeCases
  <2>2. QuotedEnd(s, i, d) = 0 \/ QuotedEnd(s, i, d) \in i + 1 + 1 .. L + 1
    <3> DEFINE c == Closing(At(s, i))
               b == BackslashEscapes(s, i, d)
               o == Doubles(At(s, i), d)
               k == i + 1
    <3>1. c # "END" /\ b \in BOOLEAN /\ o \in BOOLEAN /\ k \in 1 .. Len(s) + 1
      BY <1>2, <1>4, QuoteIs
    <3>2. QuotedEnd(s, i, d) = QuotedFrom(s, c, b, o)[k]
      BY DEF QuotedEnd
    <3> HIDE DEF c, b, o, k
    <3>3. QuotedFrom(s, c, b, o)[k] = 0 \/ QuotedFrom(s, c, b, o)[k] \in k + 1 .. Len(s) + 1
      BY <3>1, QuotedBounds
    <3> QED BY <3>2, <3>3 DEF k
  <2>3. i + 1 + 1 .. L + 1 \subseteq i + 1 .. L + 1
    BY <1>1
  <2> QED BY <2>1, <2>2, <2>3, TurnForms DEF Quoted
<1>5. CASE StartsDashComment(s, i, d)
  <2>1. t = Skip(lineEnd(s, i + 2, d))
    BY <1>5, LexemeCases
  <2>2. i + 1 \in 1 .. L
    BY <1>1, <1>5 DEF StartsDashComment
  <2>3. i + 2 \in 1 .. L + 1 /\ i + 2 .. L + 1 \subseteq i + 1 .. L + 1
    BY <1>1, <2>2
  <2>4. lineEnd(s, i + 2, d) \in i + 2 .. L + 1
    BY <2>3, LineEndStops
  <2> QED BY <2>1, <2>3, <2>4, TurnForms
<1>6. CASE IsHash(s, i, d)
  <2>1. t = Skip(lineEnd(s, i + 1, d))
    BY <1>6, LexemeCases
  <2>2. lineEnd(s, i + 1, d) \in i + 1 .. L + 1
    BY <1>2, LineEndStops
  <2> QED BY <2>1, <2>2, TurnForms
<1>7. CASE IsComment(s, i)
  <2>1. t = Comment(s, i, d)
    BY <1>7, LexemeCases
  <2>2. i + 1 \in 1 .. L
    BY <1>1, <1>7 DEF IsComment, Pair
  <2>3. i + 2 \in 1 .. Len(s) + 1 /\ i + 3 \in Int /\ i + 2 \in Int
    BY <1>1, <2>2
  <2> DEFINE k == i + 2
             n == Nests(d)
             e == CommentFrom(s, n)
  <2>4. n \in BOOLEAN
    BY DEF Nests
  <2>5. \A j \in 1 .. Len(s) + 1 : e[<<j, 1>>] = 0 \/ e[<<j, 1>>] \in j + 2 .. Len(s) + 1
    <3>1. 1 \in Nat \ {0}
      OBVIOUS
    <3> HIDE DEF n
    <3> QED BY <2>4, <3>1, CommentBounds
  <2>6. e[<<k, 1>>] = 0 \/ e[<<k, 1>>] \in i + 4 .. L + 1
    <3>1. k + 2 = i + 4
      BY <1>1
    <3> HIDE DEF e
    <3> QED BY <2>3, <2>5, <3>1
  <2>7. At(s, i + 2) = "!" => e[<<k, 1>>] = 0 \/ e[<<k, 1>>] \in i + 5 .. L + 1
    <3> HAVE At(s, i + 2) = "!"
    <3>1. k \in 1 .. Len(s)
      BY <1>1, <2>3
    <3>2. e[<<k, 1>>] = e[<<k + 1, 1>>]
      <4>1. 1 \in Nat \ {0} /\ ~Pair(s, k, "*", "/") /\ ~Pair(s, k, "/", "*")
        BY DEF Pair
      <4> HIDE DEF k, n
      <4>2. e[<<k, 1>>] = IF Pair(s, k, "*", "/")
                     THEN IF 1 = 1 THEN k + 2 ELSE e[<<k + 2, 1 - 1>>]
                     ELSE IF n /\ Pair(s, k, "/", "*") THEN e[<<k + 2, 1 + 1>>]
                     ELSE e[<<k + 1, 1>>]
        BY <2>4, <3>1, <4>1, CommentRecursion
      <4> HIDE DEF e
      <4> QED BY <4>1, <4>2
    <3>3. k + 1 \in 1 .. Len(s) + 1 /\ k + 1 + 2 = i + 5
      BY <1>1, <3>1
    <3> HIDE DEF e, k
    <3> QED BY <2>5, <3>2, <3>3
  <2>8. CommentEnd(s, i, d) = e[<<k, 1>>]
    BY DEF CommentEnd
  <2>9. i + 4 .. L + 1 \subseteq i + 1 .. L + 1 /\ i + 5 .. L + 1 \subseteq i + 1 .. L + 1
        /\ L + 1 \in i + 1 .. L + 1 /\ 0 \notin i + 4 .. L + 1
    BY <1>1
  <2> HIDE DEF e, k, L
  <2> QED BY <2>1, <2>6, <2>7, <2>8, <2>9, TurnForms DEF Comment, IsExecutable, L
<1>8. CASE IsDollar(s, i, d)
  <2> DEFINE n == dollarDelimiter(s, i)
             C == Closers(s, i, n)
  <2>1. t = IF n = 0 THEN IF At(s, i + 1) \in Digits THEN Fail("mixed") ELSE Skip(i + 1)
            ELSE IF C = {} THEN Fail("syntax") ELSE Skip(Min(C) + n)
    BY <1>8, LexemeCases DEF Dollar
  <2>2. n # 0 /\ C # {} => Min(C) + n \in i + 1 .. L + 1
    <3> HAVE n # 0 /\ C # {}
    <3>1. n \in Nat /\ n >= 2
      BY DelimiterBounds
    <3> HIDE DEF n
    <3>2. C \in SUBSET (i + n .. L - n + 1)
      BY DEF Closers
    <3> HIDE DEF C, L
    <3>3. C \in SUBSET Nat
      BY <1>1, <3>1, <3>2
    <3>4. Min(C) \in i + n .. L - n + 1
      BY <3>2, <3>3, MinNatural
    <3> QED BY <1>1, <3>1, <3>4
  <2> HIDE DEF n, C
  <2> QED BY <1>2, <2>1, <2>2, TurnForms
<1>9. CASE IsColon(s, i)
  <2> DEFINE next == After(s, i + 1, IdentifierParts)
             name == SubSeq(s, i + 1, next - 1)
  <2>1. t = IF At(s, i + 1) \in {":", "="} THEN Skip(i + 2)
            ELSE IF ~nameStart(At(s, i + 1)) THEN Skip(i + 1)
            ELSE IF ~validName(name) THEN Fail("invalid")
            ELSE Parameter(next, name)
    BY <1>9, LexemeCases DEF Colon
  <2>2. next \in i + 1 .. L + 1
    <3>1. "END" \notin IdentifierParts
      BY Unmarked DEF Marks
    <3> QED BY <1>2, <3>1, AfterStops
  <2>3. At(s, i + 1) \in {":", "="} => i + 2 \in i + 1 .. L + 1
    <3>1. At(s, i + 1) \in {":", "="} => i + 1 \in 1 .. L
      BY <1>1
    <3> QED BY <1>1, <3>1
  <2>4. TurnOK(s, i, Parameter(next, name)) \/ ~validName(name)
    <3> HIDE DEF next
    <3> QED BY <1>9, <2>2 DEF TurnOK, Parameter, Turn, Errors
  <2> HIDE DEF next, name
  <2> QED BY <1>2, <2>1, <2>3, <2>4, TurnForms
<1>10. CASE IsNative(s, i, d)
  BY <1>10, LexemeCases, TurnForms
<1>11. CASE IsAtSign(s, i, d)
  <2>1. \/ t = Fail("mixed") \/ t = Skip(i + 1)
        \/ At(s, i + 1) = "@" /\ t = Skip(After(s, i + 2, IdentifierParts))
    BY <1>11, LexemeCases DEF AtSign
  <2>2. At(s, i + 1) = "@" => After(s, i + 2, IdentifierParts) \in i + 1 .. L + 1
    <3> HAVE At(s, i + 1) = "@"
    <3>1. i + 1 \in 1 .. L
      BY <1>1
    <3>2. i + 2 \in 1 .. Len(s) + 1 /\ i + 2 .. L + 1 \subseteq i + 1 .. L + 1
      BY <1>1, <3>1
    <3>3. "END" \notin IdentifierParts
      BY Unmarked DEF Marks
    <3> QED BY <3>2, <3>3, AfterStops
  <2> QED BY <1>2, <2>1, <2>2, TurnForms
<1>12. CASE IsPlain(s, i, d)
  BY <1>2, <1>12, LexemeCases, TurnForms
<1> QED BY <1>3, <1>4, <1>5, <1>6, <1>7, <1>8, <1>9, <1>10, <1>11, <1>12 DEF IsPlain

-----------------------------------------------------------------------------
(* What a scan returns.                                                    *)

(* The tokens of a scan, and what it returns. *)
Token == [start : Nat, next : Nat, name : Seq(Bytes)]

(* What a scan returns. *)
Results == [err : Errors \cup {NoError}, tokens : Seq(Token)]

(* The text up to position q. *)
Cut(s, q) == SubSeq(s, 1, q)

(* A text that is cut holds the same characters up to there. *)
LEMMA CutText ==
  ASSUME NEW s \in Texts, NEW q \in 0 .. Len(s)
  PROVE  /\ Cut(s, q) \in Texts /\ Len(Cut(s, q)) = q
         /\ \A j \in Int : At(Cut(s, q), j) = IF j \in 1 .. q THEN At(s, j) ELSE "END"
<1>1. s \in Seq(Bytes) /\ Len(s) \in Nat /\ DOMAIN s = 1 .. Len(s)
  BY AtText DEF Texts
<1>2. /\ Cut(s, q) \in Seq(Bytes) /\ Len(Cut(s, q)) = q
      /\ \A j \in 1 .. q : Cut(s, q)[j] = s[j]
  <2>1. q = 0 => Cut(s, q) = <<>>
    BY <1>1 DEF Cut
  <2>2. Len(Cut(s, q)) = q /\ \A j \in 1 .. q : Cut(s, q)[j] = s[j]
    BY <1>1 DEF Cut
  <2> QED BY <1>1, <2>1, <2>2 DEF Cut
<1>3. DOMAIN Cut(s, q) = 1 .. q
  BY <1>2
<1> HIDE DEF Cut
<1>4. 1 .. q \subseteq 1 .. Len(s)
  BY <1>1
<1> QED BY <1>1, <1>2, <1>3, <1>4 DEF At, Texts

(* The characters of a part of a text. *)
LEMMA PartText ==
  ASSUME NEW s \in Texts, NEW a \in 1 .. Len(s) + 1, NEW b \in 0 .. Len(s), a <= b + 1
  PROVE  /\ SubSeq(s, a, b) \in Texts /\ Len(SubSeq(s, a, b)) = b - a + 1
         /\ \A j \in 1 .. b - a + 1 : SubSeq(s, a, b)[j] = At(s, a + j - 1)
         /\ \A j \in Int : At(SubSeq(s, a, b), j) = IF j \in 1 .. b - a + 1 THEN At(s, a + j - 1) ELSE "END"
<1>1. s \in Seq(Bytes) /\ Len(s) \in Nat /\ DOMAIN s = 1 .. Len(s)
  BY AtText DEF Texts
<1> DEFINE p == SubSeq(s, a, b)
           n == b - a + 1
<1>2. n \in Nat /\ Len(p) = n /\ \A j \in 1 .. n : p[j] = s[a + j - 1]
  BY <1>1
<1>3. \A j \in 1 .. n : a + j - 1 \in 1 .. Len(s)
  BY <1>1
<1>4. p \in Seq(Bytes)
  BY <1>1
<1>5. DOMAIN p = 1 .. n
  BY <1>2, <1>4
<1> HIDE DEF p, n
<1>6. \A j \in 1 .. n : p[j] = At(s, a + j - 1)
  BY <1>1, <1>2, <1>3 DEF At
<1>7. \A j \in Int : At(p, j) = IF j \in 1 .. n THEN At(s, a + j - 1) ELSE "END"
  BY <1>5, <1>6 DEF At
<1> QED BY <1>2, <1>4, <1>6, <1>7 DEF Texts, p, n

(* What Joined yields is a result, and rests on the rest of the text and on
   a text that may be executed only when it uses them. *)
LEMMA JoinedOK ==
  ASSUME NEW i \in Nat, NEW t, t.kind \notin Errors => t.next \in Nat,
         t.kind = "token" => t.name \in Seq(Bytes),
         NEW inner, t.kind = "executable" => inner \in Results,
         NEW rest, t.kind \notin Errors => rest \in Results
  PROVE  Joined(i, t, inner, rest) \in Results
<1>1. CASE t.kind \in Errors
  <2>1. Joined(i, t, inner, rest) = Found(t.kind, <<>>) /\ <<>> \in Seq(Token)
    BY <1>1 DEF Joined
  <2> QED BY <1>1, <2>1 DEF Found, Results
<1>2. CASE t.kind = "executable" /\ inner # Nothing
  <2>1. inner \in Results /\ <<>> \in Seq(Token)
    BY <1>2
  <2>2. Joined(i, t, inner, rest) = Found(IF inner.err = NoError THEN "syntax" ELSE inner.err, <<>>)
    BY <1>2 DEF Joined, Errors
  <2> QED BY <2>1, <2>2 DEF Results, Found, Errors
<1>3. CASE t.kind = "token"
  <2> DEFINE token == [start |-> i, next |-> t.next, name |-> t.name]
  <2>1. t.kind \notin Errors
    BY <1>3 DEF Errors
  <2>2. token \in Token /\ rest \in Results
    BY <1>3, <2>1 DEF Token
  <2>3. Joined(i, t, inner, rest) = Preceded(token, rest)
    BY <1>3, <2>1 DEF Joined
  <2> HIDE DEF token
  <2>4. <<token>> \o rest.tokens \in Seq(Token)
    <3>1. <<token>> \in Seq(Token) /\ rest.tokens \in Seq(Token)
      BY <2>2 DEF Results
    <3> QED BY <3>1, ConcatProperties
  <2>5. Found(NoError, <<token>> \o rest.tokens) \in Results
    BY <2>4 DEF Found, Results
  <2> QED BY <2>2, <2>3, <2>5 DEF Preceded
<1>4. CASE t.kind \notin Errors /\ ~(t.kind = "executable" /\ inner # Nothing) /\ t.kind # "token"
  BY <1>4 DEF Joined
<1> QED BY <1>1, <1>2, <1>3, <1>4

(* Joined is the same for parts that are the same where it uses them. *)
LEMMA JoinedSame ==
  ASSUME NEW i, NEW t, NEW inner, NEW inner2, t.kind = "executable" => inner = inner2,
         NEW rest, NEW rest2, t.kind \notin Errors => rest = rest2
  PROVE  Joined(i, t, inner, rest) = Joined(i, t, inner2, rest2)
<1>1. CASE t.kind \in Errors
  BY <1>1 DEF Joined
<1>2. CASE t.kind \notin Errors /\ t.kind = "executable"
  <2>1. inner = inner2 /\ rest = rest2
    BY <1>2
  <2> QED BY <2>1
<1>3. CASE t.kind \notin Errors /\ t.kind # "executable"
  <2>1. rest = rest2
    BY <1>3
  <2> QED BY <1>3, <2>1 DEF Joined
<1> QED BY <1>1, <1>2, <1>3

(* The recursion of FoundIn. *)
FoundEquation(f, s, d) ==
  /\ \A i \in 1 .. Len(s) + 1, q \in 0 .. Len(s) : f[<<i, q>>] \in Results
  /\ \A i \in 1 .. Len(s) + 1, q \in 0 .. Len(s) : i > q => f[<<i, q>>] = Nothing
  /\ \A i \in 1 .. Len(s), q \in 0 .. Len(s) :
       i <= q => LET t == Lexeme(Cut(s, q), i, d)
                 IN f[<<i, q>>] = Joined(i, t, f[<<i + 3, t.next - 3>>], f[<<t.next, q>>])

(* The places where a turn at i in the text up to q goes on. *)
LEMMA TurnPlaces ==
  ASSUME NEW s \in Texts, NEW d \in Dialects, NEW i \in 1 .. Len(s) + 1,
         NEW q \in 0 .. Len(s), i <= q
  PROVE  LET t == Lexeme(Cut(s, q), i, d)
         IN /\ TurnOK(Cut(s, q), i, t)
            /\ t.kind \notin Errors => t.next \in i + 1 .. q + 1 /\ t.next \in 1 .. Len(s) + 1
            /\ t.kind = "executable" => /\ t.next - 3 \in 0 .. Len(s) /\ t.next - 3 < q
                                        /\ i + 3 \in 1 .. Len(s) + 1
                                        /\ i + 3 <= t.next - 3 + 1
            /\ t.kind = "token" => t.name \in Seq(Bytes)
<1> DEFINE c == Cut(s, q)
           t == Lexeme(c, i, d)
<1>1. c \in Texts /\ Len(c) = q /\ Len(s) \in Nat
  BY CutText, AtText
<1>2. i \in 1 .. Len(c)
  BY <1>1
<1> HIDE DEF c
<1>3. TurnOK(c, i, t)
  BY <1>1, <1>2, TurnBounds
<1> HIDE DEF t
<1>4. t.kind \notin Errors => t.next \in i + 1 .. q + 1 /\ t.next \in 1 .. Len(s) + 1
  BY <1>1, <1>3 DEF TurnOK
<1>5. t.kind = "executable" => t.next \in i + 5 .. q + 1
  BY <1>1, <1>3 DEF TurnOK
<1>6. t.kind = "executable" => /\ t.next - 3 \in 0 .. Len(s) /\ t.next - 3 < q
                               /\ i + 3 \in 1 .. Len(s) + 1
                               /\ i + 3 <= t.next - 3 + 1
  BY <1>1, <1>5
<1>7. t.kind = "token" => t.name \in Seq(Bytes)
  <2> HAVE t.kind = "token"
  <2>1. t.next \in i + 1 .. q + 1
    BY <1>4 DEF Errors
  <2>2. t.name = <<>> \/ t.name = SubSeq(c, i + 1, t.next - 1)
    BY <1>3 DEF TurnOK
  <2>3. i + 1 \in 1 .. Len(c) + 1 /\ t.next - 1 \in 0 .. Len(c) /\ i + 1 <= t.next - 1 + 1
    BY <1>1, <1>2, <2>1
  <2>4. SubSeq(c, i + 1, t.next - 1) \in Texts
    <3> DEFINE a == i + 1
               b == t.next - 1
    <3>1. a \in 1 .. Len(c) + 1 /\ b \in 0 .. Len(c) /\ a <= b + 1
      BY <2>3
    <3> HIDE DEF a, b
    <3>2. SubSeq(c, a, b) \in Texts
      BY <1>1, <3>1, PartText
    <3> QED BY <3>2 DEF a, b
  <2>5. <<>> \in Texts
    BY DEF Texts
  <2>6. t.name \in Texts
    BY <2>2, <2>4, <2>5, Zenon
  <2> QED BY <2>6 DEF Texts
<1> QED BY <1>3, <1>4, <1>6, <1>7 DEF c, t

(* FoundIn is what its definition says. *)
LEMMA FoundRecursion ==
  ASSUME NEW s \in Texts, NEW d \in Dialects
  PROVE  FoundEquation(FoundIn(s, d), s, d)
<1> DEFINE L == Len(s)
           D == (1 .. L + 1) \X (0 .. L)
           X == [D -> Results]
           turn(p) == Lexeme(SubSeq(s, 1, p[2]), p[1], d)
           inside(p) == <<p[1] + 3, turn(p).next - 3>>
           after(p) == <<turn(p).next, p[2]>>
           Body(p, g) == IF p[1] > p[2] THEN Nothing
                         ELSE Joined(p[1], turn(p), g[inside(p)], g[after(p)])
           G == CHOOSE g : g = [p \in D |-> Body(p, g)]
           rank == [p \in D |-> L + p[2] + 1 - p[1]]
           step == [p \in D |-> [g \in X |-> Body(p, g)]]
<1>1. L \in Nat
  BY AtText
<1>2. ASSUME NEW p \in D
      PROVE  /\ p[1] \in 1 .. L + 1 /\ p[2] \in 0 .. L
             /\ rank[p] = L + p[2] + 1 - p[1]
             /\ ~(p[1] > p[2]) =>
                  /\ turn(p).kind \notin Errors =>
                       after(p) \in D /\ rank[after(p)] < rank[p] /\ turn(p).next \in Nat
                  /\ turn(p).kind = "executable" =>
                       inside(p) \in D /\ rank[inside(p)] < rank[p]
                  /\ turn(p).kind = "token" => turn(p).name \in Seq(Bytes)
  <2> DEFINE i == p[1]
             q == p[2]
             t == turn(p)
  <2>1. i \in 1 .. L + 1 /\ q \in 0 .. L /\ rank[p] = L + q + 1 - i
    OBVIOUS
  <2>2. t = Lexeme(Cut(s, q), i, d) /\ after(p) = <<t.next, q>> /\ inside(p) = <<i + 3, t.next - 3>>
    BY DEF Cut
  <2> HIDE DEF i, q, t
  <2>3. ~(i > q) =>
            /\ t.kind \notin Errors => t.next \in i + 1 .. q + 1 /\ t.next \in 1 .. L + 1
            /\ t.kind = "executable" => /\ t.next - 3 \in 0 .. L /\ t.next - 3 < q
                                        /\ i + 3 \in 1 .. L + 1
            /\ t.kind = "token" => t.name \in Seq(Bytes)
    <3> HAVE ~(i > q)
    <3>1. i \in 1 .. Len(s) + 1 /\ q \in 0 .. Len(s) /\ i <= q
      BY <1>1, <2>1
    <3> DEFINE u == Lexeme(Cut(s, q), i, d)
    <3>2. /\ u.kind \notin Errors => u.next \in i + 1 .. q + 1 /\ u.next \in 1 .. Len(s) + 1
          /\ u.kind = "executable" => /\ u.next - 3 \in 0 .. Len(s) /\ u.next - 3 < q
                                      /\ i + 3 \in 1 .. Len(s) + 1
          /\ u.kind = "token" => u.name \in Seq(Bytes)
      BY <3>1, TurnPlaces
    <3>3. t = u
      BY <2>2
    <3> HIDE DEF u
    <3> QED BY <3>2, <3>3
  <2>4. t.kind = "executable" => t.kind \notin Errors
    BY DEF Errors
  <2>5. \A a \in 1 .. L + 1, b \in 0 .. L : <<a, b>> \in D /\ rank[<<a, b>>] = L + b + 1 - a
    OBVIOUS
  <2> HIDE DEF D, rank
  <2>6. ~(i > q) /\ t.kind \notin Errors =>
          <<t.next, q>> \in D /\ rank[<<t.next, q>>] < rank[p] /\ t.next \in Nat
    BY <1>1, <2>1, <2>3, <2>5
  <2>7. ~(i > q) /\ t.kind = "executable" =>
          <<i + 3, t.next - 3>> \in D /\ rank[<<i + 3, t.next - 3>>] < rank[p]
    <3> HAVE ~(i > q) /\ t.kind = "executable"
    <3>1. t.next \in i + 1 .. q + 1 /\ t.next - 3 \in 0 .. L /\ i + 3 \in 1 .. L + 1 /\ t.next - 3 < q
      BY <2>3, <2>4
    <3> DEFINE a == i + 3
               b == t.next - 3
    <3>2. a \in 1 .. L + 1 /\ b \in 0 .. L /\ L + b + 1 - a < L + q + 1 - i
      BY <1>1, <2>1, <3>1, SMTT(30)
    <3> HIDE DEF a, b
    <3>3. <<a, b>> \in D /\ rank[<<a, b>>] < rank[p]
      BY <2>1, <2>5, <3>2
    <3> QED BY <3>3 DEF a, b
  <2> HIDE DEF after, inside
  <2> QED BY <2>1, <2>2, <2>3, <2>6, <2>7 DEF i, q, t
<1>3. rank \in [D -> 0 .. L + L]
  BY <1>1
<1> HIDE DEF turn, after, inside
<1>4. ASSUME NEW p \in D, NEW g \in X PROVE Body(p, g) \in Results
  <2>1. CASE p[1] > p[2]
    <3>1. Nothing \in Results
      BY DEF Nothing, Found, Results
    <3> QED BY <2>1, <3>1
  <2>2. CASE ~(p[1] > p[2])
    <3> DEFINE i == p[1]
               t == turn(p)
               inner == g[inside(p)]
               rest == g[after(p)]
    <3>1. /\ i \in Nat
          /\ t.kind \notin Errors => t.next \in Nat
          /\ t.kind = "token" => t.name \in Seq(Bytes)
          /\ t.kind = "executable" => inside(p) \in D
          /\ t.kind \notin Errors => after(p) \in D
      <4> HIDE DEF D, rank
      <4> QED BY <1>1, <1>2, <2>2
    <3>2. /\ t.kind = "executable" => inner \in Results
          /\ t.kind \notin Errors => rest \in Results
      <4> HIDE DEF D
      <4> QED BY <3>1
    <3>3. Body(p, g) = Joined(i, t, inner, rest)
      BY <2>2
    <3> HIDE DEF i, t, inner, rest, Body
    <3>4. Joined(i, t, inner, rest) \in Results
      BY <3>1, <3>2, JoinedOK
    <3> QED BY <3>3, <3>4
  <2> QED BY <2>1, <2>2
<1>5. step \in [D -> [X -> Results]]
  <2> HIDE DEF Body, X, D
  <2> QED BY <1>4
<1>6. ASSUME NEW p \in D, NEW g \in X, NEW h \in X, \A r \in D : rank[r] < rank[p] => g[r] = h[r]
      PROVE  step[p][g] = step[p][h]
  <2>1. Body(p, g) = Body(p, h)
    <3>1. CASE p[1] > p[2]
      BY <3>1
    <3>2. CASE ~(p[1] > p[2])
      <4> DEFINE t == turn(p)
                 a == g[inside(p)]
                 b == h[inside(p)]
                 c == g[after(p)]
                 e == h[after(p)]
      <4>1. /\ t.kind = "executable" => a = b
            /\ t.kind \notin Errors => c = e
        <5>1. /\ t.kind = "executable" => inside(p) \in D /\ rank[inside(p)] < rank[p]
              /\ t.kind \notin Errors => after(p) \in D /\ rank[after(p)] < rank[p]
          <6> HIDE DEF D, rank
          <6> QED BY <1>2, <3>2
        <5> HIDE DEF D, rank, t
        <5> QED BY <1>6, <5>1
      <4>2. Body(p, g) = Joined(p[1], t, a, c) /\ Body(p, h) = Joined(p[1], t, b, e)
        BY <3>2
      <4> HIDE DEF t, a, b, c, e, Body
      <4>3. Joined(p[1], t, a, c) = Joined(p[1], t, b, e)
        BY <4>1, JoinedSame
      <4> QED BY <4>2, <4>3
    <3> QED BY <3>1, <3>2
  <2> HIDE DEF Body, X, D
  <2> QED BY <2>1
<1>7. PICK f \in [D -> Results] : \A p \in D : f[p] = step[p][f]
  <2>1. IsRecursion(D, Results, L + L, rank, step)
    <3>1. Results # {} /\ L + L \in Nat
      <4>1. Nothing \in Results
        BY DEF Nothing, Found, Results
      <4> QED BY <1>1, <4>1
    <3> HIDE DEF step, rank, D
    <3>2. step \in [D -> [[D -> Results] -> Results]]
      BY <1>5
    <3>3. \A p \in D : \A g, h \in [D -> Results] :
            (\A r \in D : rank[r] < rank[p] => g[r] = h[r]) => step[p][g] = step[p][h]
      BY <1>6
    <3> QED BY <1>3, <3>1, <3>2, <3>3 DEF IsRecursion
  <2> HIDE DEF step, rank, D
  <2> QED BY <2>1, Recursion
<1>8. f = [p \in D |-> Body(p, f)]
  <2>1. \A p \in D : f[p] = Body(p, f)
    <3> HIDE DEF Body, D
    <3> QED BY <1>7
  <2> HIDE DEF Body, D
  <2> QED BY <1>7, <2>1
<1>9. G = [p \in D |-> Body(p, G)]
  <2> HIDE DEF Body, D
  <2> QED BY <1>8
<1>10. G = FoundIn(s, d)
  BY DEF FoundIn, G, Body, D, L, turn, after, inside
<1> HIDE DEF G
<1>11. \A p \in D : G[p] = Body(p, G)
  <2> HIDE DEF Body, D
  <2> QED BY <1>9
<1>12. ASSUME NEW p \in D, \A r \in D : rank[r] < rank[p] => G[r] \in Results
       PROVE  G[p] \in Results
  <2>1. CASE p[1] > p[2]
    <3>1. Nothing \in Results
      BY DEF Nothing, Found, Results
    <3>2. Body(p, G) = Nothing
      BY <2>1
    <3> HIDE DEF Body, D
    <3> QED BY <1>11, <3>1, <3>2
  <2>2. CASE ~(p[1] > p[2])
    <3> DEFINE i == p[1]
               t == turn(p)
               inner == G[inside(p)]
               rest == G[after(p)]
    <3>1. /\ i \in Nat
          /\ t.kind \notin Errors => t.next \in Nat
          /\ t.kind = "token" => t.name \in Seq(Bytes)
          /\ t.kind = "executable" => inside(p) \in D /\ rank[inside(p)] < rank[p]
          /\ t.kind \notin Errors => after(p) \in D /\ rank[after(p)] < rank[p]
      <4> HIDE DEF D, rank
      <4> QED BY <1>1, <1>2, <2>2
    <3>2. /\ t.kind = "executable" => inner \in Results
          /\ t.kind \notin Errors => rest \in Results
      <4> HIDE DEF D, rank, t
      <4> QED BY <1>12, <3>1
    <3>3. Body(p, G) = Joined(i, t, inner, rest)
      BY <2>2
    <3> HIDE DEF i, t, inner, rest, Body, D
    <3>4. Joined(i, t, inner, rest) \in Results
      BY <3>1, <3>2, JoinedOK
    <3> QED BY <1>11, <3>3, <3>4
  <2> QED BY <2>1, <2>2
<1>13. \A p \in D : G[p] \in Results
  <2>0. \A p \in D : rank[p] \in 0 .. L + L
    <3> HIDE DEF D, rank
    <3> QED BY <1>3
  <2> HIDE DEF D, rank
  <2>1. L + L \in Nat
    BY <1>1
  <2> DEFINE T == {k \in 0 .. L + L : \A p \in D : rank[p] < k => G[p] \in Results}
  <2>2. 0 \in T
    BY <2>0, <2>1
  <2>3. ASSUME NEW k \in 1 .. L + L, k - 1 \in T PROVE k \in T
    <3> SUFFICES ASSUME NEW p \in D, rank[p] < k PROVE G[p] \in Results
      BY <2>1
    <3>1. \A r \in D : rank[r] < rank[p] => rank[r] < k - 1
      BY <2>0, <2>1
    <3>2. \A r \in D : rank[r] < rank[p] => G[r] \in Results
      BY <2>3, <3>1
    <3> QED BY <1>12, <3>2
  <2>4. \A k \in 0 .. L + L : k \in T
    <3> HIDE DEF T
    <3>1. 0 .. L + L \subseteq T
      BY <2>1, <2>2, <2>3, BoundedInduction
    <3> QED BY <3>1
  <2>5. ASSUME NEW p \in D PROVE G[p] \in Results
    <3>1. \A r \in D : rank[r] < rank[p] => G[r] \in Results
      BY <2>0, <2>4
    <3> QED BY <1>12, <3>1
  <2> QED BY <2>5
<1>14. \A i \in 1 .. L + 1, q \in 0 .. L :
         /\ <<i, q>> \in D
         /\ G[<<i, q>>] \in Results
         /\ i > q => G[<<i, q>>] = Nothing
  <2> TAKE i \in 1 .. L + 1, q \in 0 .. L
  <2>1. <<i, q>> \in D
    OBVIOUS
  <2>2. G[<<i, q>>] = Body(<<i, q>>, G)
    <3> HIDE DEF Body, D
    <3> QED BY <1>11, <2>1
  <2>3. i > q => Body(<<i, q>>, G) = Nothing
    OBVIOUS
  <2> HIDE DEF D, Body
  <2> QED BY <1>13, <2>1, <2>2, <2>3
<1>15. ASSUME NEW i \in 1 .. L, NEW q \in 0 .. L, i <= q
       PROVE  LET t == Lexeme(Cut(s, q), i, d)
              IN G[<<i, q>>] = Joined(i, t, G[<<i + 3, t.next - 3>>], G[<<t.next, q>>])
  <2>1. i \in 1 .. L + 1 /\ ~(i > q)
    BY <1>1, <1>15
  <2>2. <<i, q>> \in D
    BY <2>1
  <2>3. G[<<i, q>>] = Body(<<i, q>>, G)
    <3> HIDE DEF Body, D
    <3> QED BY <1>11, <2>2
  <2>4. Body(<<i, q>>, G) = Joined(i, turn(<<i, q>>), G[inside(<<i, q>>)], G[after(<<i, q>>)])
    BY <2>1
  <2>5. turn(<<i, q>>) = Lexeme(Cut(s, q), i, d)
    BY DEF turn, Cut
  <2>6. /\ inside(<<i, q>>) = <<i + 3, turn(<<i, q>>).next - 3>>
        /\ after(<<i, q>>) = <<turn(<<i, q>>).next, q>>
    BY DEF inside, after
  <2> HIDE DEF Body
  <2> QED BY <2>3, <2>4, <2>5, <2>6
<1> QED BY <1>10, <1>14, <1>15 DEF FoundEquation, L

(* What is found from position i on. *)
From(s, d, i) == FoundIn(s, d)[<<i, Len(s)>>]

(* What may be executed in the turn at i. *)
Inner(s, d, i) == FoundIn(s, d)[<<i + 3, Lexeme(s, i, d).next - 3>>]

(* One turn of a scan, and its end. *)
LEMMA FromStep ==
  ASSUME NEW s \in Texts, NEW d \in Dialects
  PROVE  /\ scan(s, d) = From(s, d, 1)
         /\ From(s, d, Len(s) + 1) = Nothing
         /\ \A i \in 1 .. Len(s) + 1 : From(s, d, i) \in Results
         /\ \A i \in 1 .. Len(s) :
              From(s, d, i) = Joined(i, Lexeme(s, i, d), Inner(s, d, i), From(s, d, Lexeme(s, i, d).next))
<1>1. FoundEquation(FoundIn(s, d), s, d)
  BY FoundRecursion
<1>2. Len(s) \in Nat
  BY AtText
<1>3. Cut(s, Len(s)) = s
  <2>1. s \in Seq(Bytes)
    BY DEF Texts
  <2>2. SubSeq(s, 1, Len(s)) \in Seq(Bytes) /\ Len(SubSeq(s, 1, Len(s))) = Len(s)
        /\ \A j \in 1 .. Len(s) : SubSeq(s, 1, Len(s))[j] = s[j]
    BY <1>2, <2>1
  <2> QED BY <2>1, <2>2, SeqEqual DEF Cut
<1>4. Len(s) \in 0 .. Len(s) /\ Len(s) + 1 \in 1 .. Len(s) + 1 /\ Len(s) + 1 > Len(s)
  BY <1>2
<1> DEFINE f == FoundIn(s, d)
           L == Len(s)
<1>5. f[<<L + 1, L>>] = Nothing /\ \A i \in 1 .. L + 1 : f[<<i, L>>] \in Results
  <2> HIDE DEF f
  <2> QED BY <1>1, <1>4 DEF FoundEquation, f
<1>6. ASSUME NEW i \in 1 .. L
      PROVE  LET t == Lexeme(s, i, d)
             IN f[<<i, L>>] = Joined(i, t, f[<<i + 3, t.next - 3>>], f[<<t.next, L>>])
  <2>1. i <= L
    BY <1>2
  <2>2. LET t == Lexeme(Cut(s, L), i, d)
        IN f[<<i, L>>] = Joined(i, t, f[<<i + 3, t.next - 3>>], f[<<t.next, L>>])
    <3> HIDE DEF f
    <3> QED BY <1>1, <1>4, <2>1 DEF FoundEquation, f
  <2> QED BY <1>3, <2>2
<1>7. scan(s, d) = f[<<1, L>>]
  BY DEF scan
<1> QED BY <1>5, <1>6, <1>7 DEF From, Inner

(* A token of a statement: an escape, or a colon and a valid name. *)
TokenOK(s, t) ==
  /\ t \in Token
  /\ t.start \in 1 .. Len(s) /\ t.next \in t.start + 1 .. Len(s) + 1
  /\ \/ IsEscape(s, t.start) /\ t.name = <<>> /\ t.next = t.start + 2
     \/ /\ IsColon(s, t.start) /\ t.name = SubSeq(s, t.start + 1, t.next - 1)
        /\ validName(t.name)

(* Tokens that stand in the text from i on, one after the other. *)
TokensFrom(s, i, ts) ==
  /\ ts \in Seq(Token)
  /\ \A k \in 1 .. Len(ts) : /\ TokenOK(s, ts[k]) /\ ts[k].start >= i
                             /\ k > 1 => ts[k - 1].next <= ts[k].start

(* The elements of a sequence with another one before it. *)
LEMMA ConsElements ==
  ASSUME NEW X, NEW x \in X, NEW ts \in Seq(X)
  PROVE  /\ <<x>> \o ts \in Seq(X) /\ Len(<<x>> \o ts) = Len(ts) + 1
         /\ (<<x>> \o ts)[1] = x
         /\ \A k \in 1 .. Len(ts) : (<<x>> \o ts)[k + 1] = ts[k]
         /\ \A k \in 2 .. Len(ts) + 1 : (<<x>> \o ts)[k] = ts[k - 1] /\ k - 1 \in 1 .. Len(ts)
<1>1. <<x>> \in Seq(X) /\ Len(<<x>>) = 1 /\ <<x>>[1] = x /\ Len(ts) \in Nat
  OBVIOUS
<1> DEFINE u == <<x>>
<1>2. u \in Seq(X) /\ Len(u) = 1 /\ u[1] = x
  BY <1>1
<1> HIDE DEF u
<1>3. /\ u \o ts \in Seq(X) /\ Len(u \o ts) = Len(u) + Len(ts)
      /\ \A i \in 1 .. Len(u) + Len(ts) : (u \o ts)[i] = IF i <= Len(u) THEN u[i] ELSE ts[i - Len(u)]
  BY <1>2, ConcatProperties
<1>4. \A k \in 1 .. Len(ts) : k + 1 \in 1 .. 1 + Len(ts) /\ ~(k + 1 <= 1) /\ k + 1 - 1 = k
  BY <1>1
<1>5. \A k \in 2 .. Len(ts) + 1 : k \in 1 .. 1 + Len(ts) /\ ~(k <= 1) /\ k - 1 \in 1 .. Len(ts)
  BY <1>1
<1>6. 1 \in 1 .. 1 + Len(ts) /\ 1 <= 1
  BY <1>1
<1>7. u \o ts \in Seq(X) /\ Len(u \o ts) = Len(ts) + 1
  BY <1>1, <1>2, <1>3
<1>8. (u \o ts)[1] = x
  BY <1>2, <1>3, <1>6
<1>9. \A k \in 1 .. Len(ts) : (u \o ts)[k + 1] = ts[k]
  BY <1>2, <1>3, <1>4
<1>10. \A k \in 2 .. Len(ts) + 1 : (u \o ts)[k] = ts[k - 1] /\ k - 1 \in 1 .. Len(ts)
  BY <1>2, <1>3, <1>5
<1> QED BY <1>7, <1>8, <1>9, <1>10 DEF u

(* A token before the tokens that follow it. *)
LEMMA TokensCons ==
  ASSUME NEW s \in Texts, NEW t, TokenOK(s, t), NEW ts, TokensFrom(s, t.next, ts)
  PROVE  TokensFrom(s, t.start, <<t>> \o ts)
<1> DEFINE u == <<t>> \o ts
           n == Len(ts)
<1>1. t \in Token /\ ts \in Seq(Token) /\ n \in Nat
  BY DEF TokenOK, TokensFrom
<1>2. /\ u \in Seq(Token) /\ Len(u) = n + 1 /\ u[1] = t
      /\ \A k \in 2 .. n + 1 : u[k] = ts[k - 1] /\ k - 1 \in 1 .. n
  BY <1>1, ConsElements
<1> HIDE DEF u, n
<1>3. t.start \in Nat /\ t.next \in Nat /\ t.start < t.next
  <2>1. Len(s) \in Nat
    BY AtText
  <2> QED BY <2>1 DEF TokenOK
<1>4. ASSUME NEW k \in 1 .. n + 1
      PROVE  /\ TokenOK(s, u[k]) /\ u[k].start >= t.start
             /\ k > 1 => u[k - 1].next <= u[k].start
  <2>1. CASE k = 1
    BY <1>2, <1>3, <2>1
  <2>2. CASE k # 1
    <3>1. k \in 2 .. n + 1 /\ k - 1 \in 1 .. n
      BY <1>1, <2>2
    <3>2. u[k] = ts[k - 1] /\ TokenOK(s, ts[k - 1]) /\ ts[k - 1].start >= t.next
      BY <1>2, <3>1 DEF TokensFrom, n
    <3>3. u[k].start \in Nat
      BY <3>2 DEF TokenOK, Token
    <3>4. CASE k = 2
      <4>1. k - 1 = 1
        BY <3>4
      <4> QED BY <1>2, <1>3, <3>2, <3>3, <4>1
    <3>5. CASE k # 2
      <4>1. k - 1 \in 2 .. n + 1 /\ k - 1 > 1 /\ k - 1 \in 1 .. n
        BY <1>1, <3>1, <3>5
      <4>2. u[k - 1] = ts[k - 1 - 1]
        BY <1>2, <4>1
      <4>3. ts[k - 1 - 1].next <= ts[k - 1].start
        BY <4>1 DEF TokensFrom, n
      <4> QED BY <1>3, <3>2, <3>3, <4>2, <4>3
    <3> QED BY <3>4, <3>5
  <2> QED BY <2>1, <2>2
<1> QED BY <1>2, <1>4 DEF TokensFrom, u

(* The token of a turn. *)
TokenAt(i, t) == [start |-> i, next |-> t.next, name |-> t.name]

(* The token of a turn is a token of the statement. *)
LEMMA TurnToken ==
  ASSUME NEW s \in Texts, NEW i \in 1 .. Len(s), NEW t, TurnOK(s, i, t), t.kind = "token"
  PROVE  /\ TokenOK(s, TokenAt(i, t))
         /\ TokenAt(i, t).start = i /\ TokenAt(i, t).next = t.next /\ TokenAt(i, t).name = t.name
<1>1. t.next \in i + 1 .. Len(s) + 1 /\ i \in Nat /\ Len(s) \in Nat
  <2>1. t.kind \notin Errors
    BY DEF Errors
  <2> QED BY <2>1, AtText DEF TurnOK
<1>2. t.name \in Seq(Bytes)
  <2>1. t.name = <<>> \/ t.name = SubSeq(s, i + 1, t.next - 1)
    BY DEF TurnOK
  <2> DEFINE a == i + 1
             b == t.next - 1
  <2>2. a \in 1 .. Len(s) + 1 /\ b \in 0 .. Len(s) /\ a <= b + 1
    BY <1>1
  <2> HIDE DEF a, b
  <2>3. SubSeq(s, a, b) \in Texts
    BY <2>2, PartText
  <2>4. <<>> \in Texts
    BY DEF Texts
  <2>5. t.name \in Texts
    BY <2>1, <2>3, <2>4, Zenon DEF a, b
  <2> QED BY <2>5 DEF Texts
<1>3. /\ TokenAt(i, t).start = i /\ TokenAt(i, t).next = t.next /\ TokenAt(i, t).name = t.name
      /\ TokenAt(i, t) \in Token
  BY <1>1, <1>2 DEF TokenAt, Token
<1> HIDE DEF TokenAt
<1>4. \/ IsEscape(s, i) /\ t.name = <<>> /\ t.next = i + 2
      \/ IsColon(s, i) /\ t.name = SubSeq(s, i + 1, t.next - 1) /\ validName(t.name)
  BY DEF TurnOK
<1> QED BY <1>1, <1>3, <1>4 DEF TokenOK

(* The tokens of a scan stand in the text one after the other. *)
LEMMA ScanTokens ==
  ASSUME NEW s \in Texts, NEW d \in Dialects
  PROVE  /\ scan(s, d) \in Results
         /\ \A i \in 1 .. Len(s) + 1 : TokensFrom(s, i, From(s, d, i).tokens)
<1> DEFINE L == Len(s)
           F(i) == From(s, d, i)
           Good(i) == TokensFrom(s, i, F(i).tokens)
           S == {i \in 1 .. L + 1 : Good(i)}
<1>1. L \in Nat
  BY AtText
<1>2. \A ts : ts = <<>> => \A i : TokensFrom(s, i, ts)
  BY DEF TokensFrom
<1>3. ASSUME NEW i \in 1 .. L + 1, \A k \in i + 1 .. L + 1 : k \in S PROVE i \in S
  <2>1. CASE i = L + 1
    <3>1. F(i).tokens = <<>>
      BY <2>1, FromStep DEF Nothing, Found
    <3> HIDE DEF F
    <3> QED BY <1>2, <3>1
  <2>2. CASE i # L + 1
    <3> DEFINE t == Lexeme(s, i, d)
               inner == Inner(s, d, i)
    <3>1. i \in 1 .. Len(s)
      BY <1>1, <2>2
    <3>2. TurnOK(s, i, t)
      BY <3>1, TurnBounds
    <3>3. F(i) = Joined(i, t, inner, F(t.next))
      BY <3>1, FromStep
    <3> HIDE DEF t, inner, F
    <3>4. t.kind \notin Errors => t.next \in i + 1 .. L + 1 /\ Good(t.next) /\ i < t.next
      <4>1. t.kind \notin Errors => t.next \in i + 1 .. L + 1
        BY <3>2 DEF TurnOK
      <4> QED BY <1>1, <1>3, <4>1
    <3>5. CASE F(i).tokens = <<>>
      BY <1>2, <3>5
    <3>6. CASE t.kind = "token" /\ F(i) = Found(NoError, <<TokenAt(i, t)>> \o F(t.next).tokens)
      <4>1. t.kind \notin Errors
        BY <3>6 DEF Errors
      <4>2. TokenOK(s, TokenAt(i, t)) /\ TokenAt(i, t).start = i /\ TokenAt(i, t).next = t.next
        BY <3>1, <3>2, <3>6, TurnToken
      <4>3. TokensFrom(s, TokenAt(i, t).next, F(t.next).tokens)
        BY <3>4, <4>1, <4>2
      <4>4. TokensFrom(s, TokenAt(i, t).start, <<TokenAt(i, t)>> \o F(t.next).tokens)
        BY <4>2, <4>3, TokensCons
      <4>5. F(i).tokens = <<TokenAt(i, t)>> \o F(t.next).tokens
        BY <3>6 DEF Found
      <4> QED BY <4>2, <4>4, <4>5, Zenon
    <3>7. CASE t.kind \notin Errors /\ F(i) = F(t.next)
      <4>1. TokensFrom(s, t.next, F(t.next).tokens) /\ i < t.next /\ i \in Nat /\ t.next \in Nat
        BY <1>1, <3>1, <3>4, <3>7
      <4> DEFINE ts == F(t.next).tokens
      <4>2. \A k \in 1 .. Len(ts) : ts[k].start \in Nat
        BY <4>1 DEF TokensFrom, TokenOK, Token
      <4>3. TokensFrom(s, i, ts)
        <5> HIDE DEF ts
        <5> QED BY <4>1, <4>2 DEF TokensFrom, ts
      <4> QED BY <3>7, <4>3
    <3>9. \/ F(i).tokens = <<>>
          \/ t.kind = "token" /\ F(i) = Found(NoError, <<TokenAt(i, t)>> \o F(t.next).tokens)
          \/ t.kind \notin Errors /\ F(i) = F(t.next)
      BY <3>3 DEF Joined, Preceded, TokenAt, Found, Errors
    <3> QED BY <3>5, <3>6, <3>7, <3>9
  <2> QED BY <2>1, <2>2
<1>4. \A i \in 1 .. L + 1 : i \in S
  <2>1. L + 1 \in Nat
    BY <1>1
  <2> HIDE DEF S
  <2> QED BY <1>3, <2>1, BackwardInduction
<1>5. scan(s, d) \in Results
  <2>1. 1 \in 1 .. Len(s) + 1
    BY <1>1
  <2> QED BY <2>1, FromStep
<1> QED BY <1>4, <1>5

(* Texts of the same length with the same characters are the same. *)
LEMMA TextEqual ==
  ASSUME NEW u \in Texts, NEW v \in Texts, Len(u) = Len(v),
         \A j \in 1 .. Len(u) : At(u, j) = At(v, j)
  PROVE  u = v
<1>1. \A j \in 1 .. Len(u) : u[j] = v[j]
  BY AtText
<1> QED BY <1>1, SeqEqual DEF Texts

(* The characters of two texts one after the other. *)
LEMMA JoinText ==
  ASSUME NEW u \in Texts, NEW v \in Texts
  PROVE  /\ u \o v \in Texts /\ Len(u \o v) = Len(u) + Len(v)
         /\ \A j \in Int : At(u \o v, j) = IF j <= Len(u) THEN At(u, j) ELSE At(v, j - Len(u))
<1> DEFINE w == u \o v
<1>1. /\ w \in Texts /\ Len(w) = Len(u) + Len(v)
      /\ \A i \in 1 .. Len(u) + Len(v) : w[i] = IF i <= Len(u) THEN u[i] ELSE v[i - Len(u)]
  BY ConcatProperties DEF Texts
<1> HIDE DEF w
<1>2. /\ Len(u) \in Nat /\ Len(v) \in Nat
      /\ \A i \in 1 .. Len(u) : At(u, i) = u[i]
      /\ \A i \in 1 .. Len(v) : At(v, i) = v[i]
      /\ \A i \in 1 .. Len(w) : At(w, i) = w[i]
      /\ \A i \in Int : i \notin 1 .. Len(w) => At(w, i) = "END"
      /\ \A i \in Int : i \notin 1 .. Len(u) => At(u, i) = "END"
      /\ \A i \in Int : i \notin 1 .. Len(v) => At(v, i) = "END"
  BY <1>1, AtText
<1>3. ASSUME NEW j \in Int
      PROVE  At(w, j) = IF j <= Len(u) THEN At(u, j) ELSE At(v, j - Len(u))
  <2>1. CASE j \in 1 .. Len(w)
    <3>1. CASE j <= Len(u)
      <4>1. j \in 1 .. Len(u) /\ j \in 1 .. Len(u) + Len(v)
        BY <1>1, <1>2, <2>1, <3>1
      <4>2. w[j] = u[j] /\ At(w, j) = w[j] /\ At(u, j) = u[j]
        BY <1>1, <1>2, <2>1, <3>1, <4>1
      <4> QED BY <3>1, <4>2
    <3>2. CASE ~(j <= Len(u))
      <4>1. j - Len(u) \in 1 .. Len(v) /\ j \in 1 .. Len(u) + Len(v)
        BY <1>1, <1>2, <2>1, <3>2
      <4>2. w[j] = v[j - Len(u)] /\ At(w, j) = w[j] /\ At(v, j - Len(u)) = v[j - Len(u)]
        BY <1>1, <1>2, <2>1, <3>2, <4>1
      <4> QED BY <3>2, <4>2
    <3> QED BY <3>1, <3>2
  <2>2. CASE j \notin 1 .. Len(w)
    <3>1. At(w, j) = "END"
      BY <1>2, <2>2
    <3>2. j <= Len(u) => j \notin 1 .. Len(u)
      BY <1>1, <1>2, <2>2
    <3>3. ~(j <= Len(u)) => j - Len(u) \in Int /\ j - Len(u) \notin 1 .. Len(v)
      BY <1>1, <1>2, <2>2
    <3> QED BY <1>2, <3>1, <3>2, <3>3
  <2> QED BY <2>1, <2>2
<1> QED BY <1>1, <1>3 DEF w

(* The marks are characters, and short texts are made of them. *)
LEMMA ShortText ==
  /\ <<>> \in Texts /\ Len(<<>>) = 0
  /\ \A c \in Bytes : <<c>> \in Texts /\ Len(<<c>>) = 1 /\ At(<<c>>, 1) = c
  /\ \A c, e \in Bytes : /\ <<c, e>> \in Texts /\ Len(<<c, e>>) = 2
                         /\ At(<<c, e>>, 1) = c /\ At(<<c, e>>, 2) = e
  /\ Marks \ {"END"} \subseteq Bytes
  /\ "END" \notin Bytes
<1>1. <<>> \in Texts /\ Len(<<>>) = 0
  BY DEF Texts
<1>2. ASSUME NEW c \in Bytes PROVE <<c>> \in Texts /\ Len(<<c>>) = 1 /\ At(<<c>>, 1) = c
  <2>1. <<c>> \in Seq(Bytes) /\ Len(<<c>>) = 1 /\ <<c>>[1] = c
    OBVIOUS
  <2>2. <<c>> \in Texts
    BY <2>1 DEF Texts
  <2> DEFINE u == <<c>>
  <2>3. u \in Texts /\ Len(u) = 1 /\ u[1] = c
    BY <2>1, <2>2
  <2> HIDE DEF u
  <2>4. 1 \in 1 .. Len(u)
    BY <2>3
  <2>5. At(u, 1) = c
    BY <2>3, <2>4, AtText
  <2> QED BY <2>3, <2>5 DEF u
<1>3. ASSUME NEW c \in Bytes, NEW e \in Bytes
      PROVE  /\ <<c, e>> \in Texts /\ Len(<<c, e>>) = 2
             /\ At(<<c, e>>, 1) = c /\ At(<<c, e>>, 2) = e
  <2> DEFINE u == <<c, e>>
  <2>1. u \in Seq(Bytes) /\ Len(u) = 2 /\ u[1] = c /\ u[2] = e
    OBVIOUS
  <2> HIDE DEF u
  <2>2. u \in Texts /\ 1 \in 1 .. Len(u) /\ 2 \in 1 .. Len(u)
    BY <2>1 DEF Texts
  <2>3. At(u, 1) = c /\ At(u, 2) = e
    BY <2>1, <2>2, AtText
  <2> QED BY <2>1, <2>2, <2>3 DEF u
<1>4. Marks \ {"END"} \subseteq Bytes
  BY DEF Bytes
<1>5. "END" \notin Bytes
  <2>1. "END" \notin UNION {profile[2] : profile \in Profiles}
    BY ProfilesAssumption
  <2> QED BY <2>1 DEF Bytes
<1> QED BY <1>1, <1>2, <1>3, <1>4, <1>5

(* A part of a text after its first character. *)
LEMMA PartCons ==
  ASSUME NEW s \in Texts, NEW a \in 1 .. Len(s), NEW b \in a .. Len(s)
  PROVE  SubSeq(s, a, b) = <<At(s, a)>> \o SubSeq(s, a + 1, b)
<1> DEFINE p == SubSeq(s, a, b)
           r == SubSeq(s, a + 1, b)
           c == At(s, a)
           u == <<c>>
<1>1. /\ Len(s) \in Nat /\ a \in Nat /\ b \in Nat /\ a \in Int /\ b \in Int /\ c \in Bytes
  BY AtText
<1>2. /\ p \in Texts /\ Len(p) = b - a + 1
      /\ \A j \in Int : At(p, j) = IF j \in 1 .. b - a + 1 THEN At(s, a + j - 1) ELSE "END"
  <2>1. a \in 1 .. Len(s) + 1 /\ b \in 0 .. Len(s) /\ a <= b + 1
    BY <1>1
  <2> QED BY <2>1, PartText
<1>3. /\ r \in Texts /\ Len(r) = b - (a + 1) + 1
      /\ \A j \in Int : At(r, j) = IF j \in 1 .. b - (a + 1) + 1 THEN At(s, a + 1 + j - 1) ELSE "END"
  <2> DEFINE k == a + 1
  <2>1. k \in 1 .. Len(s) + 1 /\ b \in 0 .. Len(s) /\ k <= b + 1
    BY <1>1
  <2> HIDE DEF k
  <2>2. /\ SubSeq(s, k, b) \in Texts /\ Len(SubSeq(s, k, b)) = b - k + 1
        /\ \A j \in Int : At(SubSeq(s, k, b), j) = IF j \in 1 .. b - k + 1 THEN At(s, k + j - 1) ELSE "END"
    BY <2>1, PartText
  <2> QED BY <2>2 DEF k
<1>4. u \in Texts /\ Len(u) = 1 /\ At(u, 1) = c
  BY <1>1, ShortText
<1> HIDE DEF p, r, u
<1>5. /\ u \o r \in Texts /\ Len(u \o r) = 1 + Len(r)
      /\ \A j \in Int : At(u \o r, j) = IF j <= 1 THEN At(u, j) ELSE At(r, j - 1)
  <2>1. /\ u \o r \in Texts /\ Len(u \o r) = Len(u) + Len(r)
        /\ \A j \in Int : At(u \o r, j) = IF j <= Len(u) THEN At(u, j) ELSE At(r, j - Len(u))
    <3>1. u \in Texts /\ r \in Texts
      BY <1>3, <1>4
    <3> QED BY <3>1, JoinText
  <2>2. Len(u) = 1
    BY <1>4
  <2> QED BY <2>1, <2>2
<1>6. Len(p) = Len(u \o r)
  BY <1>1, <1>2, <1>3, <1>5
<1>7. ASSUME NEW j \in 1 .. Len(p) PROVE At(p, j) = At(u \o r, j)
  <2>1. j \in Int /\ j \in 1 .. b - a + 1
    BY <1>2
  <2>2. At(p, j) = At(s, a + j - 1)
    BY <1>2, <2>1
  <2>3. CASE j = 1
    <3>1. a + j - 1 = a
      BY <1>1, <2>3
    <3> QED BY <1>4, <1>5, <2>1, <2>2, <2>3, <3>1
  <2>4. CASE j # 1
    <3>1. j - 1 \in 1 .. b - (a + 1) + 1 /\ ~(j <= 1) /\ a + 1 + (j - 1) - 1 = a + j - 1 /\ j - 1 \in Int
      BY <1>1, <2>1, <2>4
    <3> QED BY <1>3, <1>5, <2>1, <2>2, <3>1
  <2> QED BY <2>3, <2>4
<1>8. p = u \o r
  BY <1>2, <1>5, <1>6, <1>7, TextEqual
<1> QED BY <1>8 DEF p, r, u

(* The text of a token. *)
LEMMA TokenText ==
  ASSUME NEW s \in Texts, NEW t, TokenOK(s, t)
  PROVE  SubSeq(s, t.start, t.next - 1) = IF t.name = <<>> THEN <<"\\", ":">> ELSE <<":">> \o t.name
<1> DEFINE a == t.start
           b == t.next - 1
<1>1. /\ Len(s) \in Nat /\ a \in 1 .. Len(s) /\ b \in a .. Len(s) /\ t.next \in Nat
  <2>1. Len(s) \in Nat
    BY AtText
  <2> QED BY <2>1, SMTT(30) DEF TokenOK
<1>2. CASE IsEscape(s, a) /\ t.name = <<>> /\ t.next = a + 2
  <2> DEFINE p == SubSeq(s, a, b)
             u == <<"\\", ":">>
  <2>1. b = a + 1 /\ a \in 1 .. Len(s) + 1 /\ b \in 0 .. Len(s) /\ a <= b + 1 /\ b - a + 1 = 2
    BY <1>1, <1>2
  <2> HIDE DEF a, b
  <2>2. /\ p \in Texts /\ Len(p) = b - a + 1
        /\ \A j \in 1 .. b - a + 1 : p[j] = At(s, a + j - 1)
    BY <2>1, PartText
  <2>3. p[1] = At(s, a) /\ p[2] = At(s, a + 1)
    <3>1. 1 \in 1 .. b - a + 1 /\ 2 \in 1 .. b - a + 1 /\ a + 1 - 1 = a /\ a + 2 - 1 = a + 1
      BY <2>1
    <3> QED BY <2>2, <3>1
  <2>4. At(s, a) = "\\" /\ At(s, a + 1) = ":"
    BY <1>2 DEF IsEscape, Pair
  <2>5. p \in Seq(Bytes) /\ Len(p) = 2 /\ p[1] = "\\" /\ p[2] = ":"
    BY <2>1, <2>2, <2>3, <2>4 DEF Texts
  <2> HIDE DEF p
  <2>6. p = <<"\\", ":">>
    BY <2>5
  <2> QED BY <1>2, <2>6 DEF p, a, b
<1>3. CASE IsColon(s, a) /\ t.name = SubSeq(s, a + 1, b) /\ validName(t.name)
  <2>1. SubSeq(s, a, b) = <<At(s, a)>> \o SubSeq(s, a + 1, b)
    <3> HIDE DEF a, b
    <3> QED BY <1>1, PartCons
  <2>2. t.name # <<>> /\ At(s, a) = ":"
    BY <1>3 DEF validName, IsColon
  <2> QED BY <1>3, <2>1, <2>2
<1> QED BY <1>2, <1>3 DEF TokenOK

-----------------------------------------------------------------------------
(* What WriteCharacter keeps. *)
Typed == dialect \in Dialects /\ alphabet \subseteq Bytes /\ sql \in Texts

(* The first statement is a text. *)
LEMMA TypedInit == Init => Typed
<1> SUFFICES ASSUME Init PROVE Typed
  OBVIOUS
<1>1. PICK profile \in Profiles : dialect = profile[1] /\ alphabet = profile[2]
  BY DEF Init
<1>2. dialect \in Dialects
  BY <1>1, ProfilesAssumption
<1>3. alphabet \subseteq Bytes
  BY <1>1 DEF Bytes
<1>4. sql \in Texts
  BY ShortText DEF Init
<1> QED BY <1>2, <1>3, <1>4 DEF Typed

(* A character more makes a text. *)
LEMMA TypedStep == Typed /\ [WriteCharacter]_vars => Typed'
<1> SUFFICES ASSUME Typed, [WriteCharacter]_vars PROVE Typed'
  OBVIOUS
<1>1. CASE WriteCharacter
  <2>1. PICK c \in alphabet : sql' = Append(sql, c)
    BY <1>1 DEF WriteCharacter
  <2>2. c \in Bytes /\ sql \in Seq(Bytes)
    BY DEF Typed, Texts
  <2>3. sql' \in Seq(Bytes)
    BY <2>1, <2>2
  <2> QED BY <1>1, <2>3 DEF WriteCharacter, Typed, Texts
<1>2. CASE UNCHANGED vars
  BY <1>2 DEF Typed, vars
<1> QED BY <1>1, <1>2

(* The statements are texts of the dialects. *)
LEMMA AlwaysTyped == Spec => []Typed
<1> QED BY TypedInit, TypedStep, PTL DEF Spec

(* What is found in a text is what TypeOK says. *)
LEMMA TypedTypeOK == Typed => TypeOK
<1> SUFFICES ASSUME Typed PROVE TypeOK
  OBVIOUS
<1>1. sql \in Texts /\ dialect \in Dialects /\ Len(sql) \in Nat
  BY AtText DEF Typed
<1>2. scan(sql, dialect) \in Results /\ scan(sql, dialect) = From(sql, dialect, 1)
  BY <1>1, ScanTokens, FromStep
<1>3. TokensFrom(sql, 1, tokens)
  <2>1. 1 \in 1 .. Len(sql) + 1
    BY <1>1
  <2> QED BY <1>1, <1>2, <2>1, ScanTokens DEF tokens
<1>4. scan(sql, dialect).err \in Errors \cup {NoError}
  BY <1>2 DEF Results
<1>5. DOMAIN tokens = 1 .. Len(tokens)
  BY <1>3 DEF TokensFrom
<1>6. ASSUME NEW k \in 1 .. Len(tokens)
      PROVE  LET t == tokens[k]
             IN /\ t = [start |-> t.start, next |-> t.next, name |-> t.name]
                /\ t.start \in 1 .. t.next - 1 /\ t.next <= Len(sql) + 1
                /\ k > 1 => tokens[k - 1].next <= t.start
                /\ SubSeq(sql, t.start, t.next - 1)
                     = IF t.name = <<>> THEN <<"\\", ":">> ELSE <<":">> \o t.name
                /\ t.name # <<>> => validName(t.name)
  <2> DEFINE t == tokens[k]
  <2>1. TokenOK(sql, t) /\ (k > 1 => tokens[k - 1].next <= t.start)
    BY <1>3 DEF TokensFrom
  <2> HIDE DEF t
  <2>2. t = [start |-> t.start, next |-> t.next, name |-> t.name]
    BY <2>1 DEF TokenOK, Token
  <2>3. t.start \in 1 .. t.next - 1 /\ t.next <= Len(sql) + 1
    BY <1>1, <2>1 DEF TokenOK
  <2>4. SubSeq(sql, t.start, t.next - 1)
          = IF t.name = <<>> THEN <<"\\", ":">> ELSE <<":">> \o t.name
    BY <1>1, <2>1, TokenText
  <2>5. t.name # <<>> => validName(t.name)
    BY <2>1 DEF TokenOK
  <2> QED BY <2>1, <2>2, <2>3, <2>4, <2>5 DEF t
<1> HIDE DEF tokens
<1> QED BY <1>4, <1>5, <1>6 DEF TypeOK

(* TypeOK always. *)
THEOREM LexerTyped == Spec => []TypeOK
<1> QED BY AlwaysTyped, TypedTypeOK, PTL

-----------------------------------------------------------------------------
(* Texts that read alike yield alike: a turn.                              *)

(* From i to hi, s reads as t does k characters further on.                *)
Window(s, t, k, i, hi) ==
  /\ s \in Texts /\ t \in Texts /\ k \in Int /\ hi \in Nat
  /\ i \in 1 .. hi + 1 /\ hi <= Len(s) /\ i + k >= 1 /\ hi + k <= Len(t)
  /\ \A j \in i .. hi : At(t, j + k) = At(s, j)

(* After finds the same position in both. *)
LEMMA AfterMoved ==
  ASSUME NEW s, NEW t, NEW k, NEW i, NEW hi, Window(s, t, k, i, hi),
         NEW j \in i .. hi + 1, NEW parts, "END" \notin parts,
         At(s, hi + 1) \notin parts, At(t, hi + 1 + k) \notin parts
  PROVE  /\ After(s, j, parts) \in j .. hi + 1
         /\ After(t, j + k, parts) = After(s, j, parts) + k
<1> DEFINE a == After(s, j, parts)
<1>1. /\ s \in Texts /\ t \in Texts /\ k \in Int /\ hi \in Nat /\ i \in 1 .. hi + 1
      /\ hi <= Len(s) /\ i + k >= 1 /\ hi + k <= Len(t) /\ Len(s) \in Nat /\ Len(t) \in Nat
      /\ \A m \in i .. hi : At(t, m + k) = At(s, m)
  BY AtText DEF Window
<1>2. /\ a \in j .. Len(s) + 1 /\ At(s, a) \notin parts
      /\ \A m \in j .. a - 1 : At(s, m) \in parts
  <2>1. j \in 1 .. Len(s) + 1
    BY <1>1
  <2> QED BY <1>1, <2>1, AfterStops
<1> HIDE DEF a
<1>3. a \in j .. hi + 1
  <2> SUFFICES ASSUME a > hi + 1 PROVE FALSE
    BY <1>1, <1>2
  <2>1. hi + 1 \in j .. a - 1
    BY <1>1, <1>2
  <2> QED BY <1>2, <2>1
<1>4. At(t, a + k) \notin parts
  <2>1. CASE a = hi + 1
    BY <2>1
  <2>2. CASE a # hi + 1
    <3>1. a \in i .. hi
      BY <1>1, <1>3, <2>2
    <3> QED BY <1>1, <1>2, <3>1
  <2> QED BY <2>1, <2>2
<1>5. ASSUME NEW m \in j + k .. (a + k) - 1 PROVE At(t, m) \in parts
  <2>1. m - k \in i .. hi /\ m - k \in j .. a - 1 /\ m - k + k = m
    BY <1>1, <1>3
  <2>2. At(t, m - k + k) = At(s, m - k)
    BY <1>1, <2>1
  <2> QED BY <1>2, <2>1, <2>2
<1>6. After(t, j + k, parts) = a + k
  <2> DEFINE p == j + k
             q == a + k
  <2>1. p \in 1 .. Len(t) + 1 /\ q \in p .. Len(t) + 1
    BY <1>1, <1>3
  <2>2. At(t, q) \notin parts /\ \A m \in p .. q - 1 : At(t, m) \in parts
    BY <1>4, <1>5
  <2> HIDE DEF p, q
  <2>3. IsAfter(t, p, parts, q)
    BY <1>1, <2>1, <2>2 DEF IsAfter
  <2> QED BY <2>3, AfterUnique DEF p, q
<1> QED BY <1>3, <1>6 DEF a

(* A line ends at the same position in both. *)
LEMMA LineEndMoved ==
  ASSUME NEW s, NEW t, NEW k, NEW i, NEW hi, Window(s, t, k, i, hi),
         NEW j \in i .. hi + 1, NEW d, lineEnd(s, j, d) <= hi + 1,
         lineEnd(s, j, d) = hi + 1 => At(t, hi + 1 + k) \in Stops(d)
  PROVE  lineEnd(t, j + k, d) = lineEnd(s, j, d) + k
<1> DEFINE a == lineEnd(s, j, d)
<1>1. /\ s \in Texts /\ t \in Texts /\ k \in Int /\ hi \in Nat /\ i \in 1 .. hi + 1
      /\ hi <= Len(s) /\ i + k >= 1 /\ hi + k <= Len(t) /\ Len(s) \in Nat /\ Len(t) \in Nat
      /\ \A m \in i .. hi : At(t, m + k) = At(s, m)
  BY AtText DEF Window
<1>2. /\ a \in j .. Len(s) + 1 /\ At(s, a) \in Stops(d)
      /\ \A m \in j .. a - 1 : At(s, m) \notin Stops(d)
  <2>1. j \in 1 .. Len(s) + 1
    BY <1>1
  <2> QED BY <1>1, <2>1, LineEndStops
<1>3. a \in j .. hi + 1 /\ (a = hi + 1 => At(t, hi + 1 + k) \in Stops(d))
  BY <1>1, <1>2
<1> HIDE DEF a
<1>4. At(t, a + k) \in Stops(d)
  <2>1. CASE a = hi + 1
    BY <1>3, <2>1
  <2>2. CASE a # hi + 1
    <3>1. a \in i .. hi
      BY <1>1, <1>3, <2>2
    <3> QED BY <1>1, <1>2, <3>1
  <2> QED BY <2>1, <2>2
<1>5. ASSUME NEW m \in j + k .. (a + k) - 1 PROVE At(t, m) \notin Stops(d)
  <2>1. m - k \in i .. hi /\ m - k \in j .. a - 1 /\ m - k + k = m
    BY <1>1, <1>3
  <2>2. At(t, m - k + k) = At(s, m - k)
    BY <1>1, <2>1
  <2> QED BY <1>2, <2>1, <2>2
<1>6. lineEnd(t, j + k, d) = a + k
  <2> DEFINE p == j + k
             q == a + k
  <2>1. p \in 1 .. Len(t) + 1 /\ q \in p .. Len(t) + 1
    BY <1>1, <1>3
  <2>2. At(t, q) \in Stops(d) /\ \A m \in p .. q - 1 : At(t, m) \notin Stops(d)
    BY <1>4, <1>5
  <2> HIDE DEF p, q
  <2>3. IsLineEnd(t, p, d, q)
    BY <1>1, <2>1, <2>2 DEF IsLineEnd
  <2> QED BY <2>3, LineEndUnique DEF p, q
<1> QED BY <1>6 DEF a

(* Quoted text that ends in the window ends at the same position in both. *)
LEMMA QuotedMoved ==
  ASSUME NEW s, NEW t, NEW k, NEW i, NEW hi, Window(s, t, k, i, hi),
         NEW closing, closing # "END", closing # "\\", NEW backslash \in BOOLEAN, NEW doubles \in BOOLEAN,
         At(s, hi + 1) # closing, At(t, hi + 1 + k) # closing,
         NEW j0 \in i .. hi + 1,
         QuotedFrom(s, closing, backslash, doubles)[j0] # 0,
         QuotedFrom(s, closing, backslash, doubles)[j0] <= hi + 1
  PROVE  QuotedFrom(t, closing, backslash, doubles)[j0 + k]
           = QuotedFrom(s, closing, backslash, doubles)[j0] + k
<1> DEFINE e == QuotedFrom(s, closing, backslash, doubles)
           f == QuotedFrom(t, closing, backslash, doubles)
           L == Len(s)
           M == Len(t)
           Good(j) == j >= i /\ e[j] # 0 /\ e[j] <= hi + 1 => f[j + k] = e[j] + k
           S == {j \in 1 .. hi + 1 : Good(j)}
<1>1. /\ s \in Texts /\ t \in Texts /\ k \in Int /\ hi \in Nat /\ i \in 1 .. hi + 1
      /\ hi <= L /\ i + k >= 1 /\ hi + k <= M /\ L \in Nat /\ M \in Nat
      /\ \A m \in i .. hi : At(t, m + k) = At(s, m)
  BY AtText DEF Window
<1>2. /\ \A j \in 1 .. L + 1 : e[j] = 0 \/ e[j] \in j + 1 .. L + 1
      /\ \A j \in 1 .. L :
           e[j] = IF backslash /\ At(s, j) = "\\" /\ j < L THEN e[j + 2]
                  ELSE IF At(s, j) # closing THEN e[j + 1]
                  ELSE IF doubles /\ At(s, j + 1) = closing THEN e[j + 2]
                  ELSE j + 1
  <2>1. QuotedEquation(e, s, closing, backslash, doubles)
    BY <1>1, QuotedRecursion
  <2>2. \A j \in 1 .. L + 1 : e[j] = 0 \/ e[j] \in j + 1 .. L + 1
    BY <1>1, QuotedBounds
  <2> HIDE DEF e
  <2> QED BY <2>1, <2>2 DEF QuotedEquation
<1>3. \A j \in 1 .. M :
        f[j] = IF backslash /\ At(t, j) = "\\" /\ j < M THEN f[j + 2]
               ELSE IF At(t, j) # closing THEN f[j + 1]
               ELSE IF doubles /\ At(t, j + 1) = closing THEN f[j + 2]
               ELSE j + 1
  <2>1. QuotedEquation(f, t, closing, backslash, doubles)
    BY <1>1, QuotedRecursion
  <2> HIDE DEF f
  <2> QED BY <2>1 DEF QuotedEquation
<1>4. j0 \in 1 .. hi + 1 /\ j0 >= i /\ e[j0] # 0 /\ e[j0] <= hi + 1
  BY <1>1
<1> HIDE DEF e, f, L, M
<1>5. ASSUME NEW j \in 1 .. hi + 1, \A m \in j + 1 .. hi + 1 : m \in S PROVE j \in S
  <2> SUFFICES ASSUME j >= i, e[j] # 0, e[j] <= hi + 1 PROVE f[j + k] = e[j] + k
    OBVIOUS
  <2>1. /\ j \in i .. hi /\ j \in 1 .. L /\ j + k \in 1 .. M /\ j + k + 1 = j + 1 + k
        /\ j + k + 2 = j + 2 + k /\ j + 1 \in 1 .. L + 1
    <3>1. j \in 1 .. L + 1
      BY <1>1
    <3>2. e[j] \in j + 1 .. L + 1
      BY <1>2, <3>1
    <3> QED BY <1>1, <3>2
  <2>2. At(t, j + k) = At(s, j)
    BY <1>1, <2>1
  <2>3. At(s, j + 1) = closing <=> At(t, j + k + 1) = closing
    <3>1. CASE j = hi
      BY <2>1, <3>1
    <3>2. CASE j # hi
      <4>1. j + 1 \in i .. hi
        BY <1>1, <2>1, <3>2
      <4> QED BY <1>1, <2>1, <4>1
    <3> QED BY <3>1, <3>2
  <2>4. ASSUME e[j] = e[j + 1] PROVE f[j + k + 1] = e[j] + k
    <3>1. j + 1 \in j + 1 .. hi + 1 /\ j + 1 >= i
      BY <1>1, <2>1
    <3>2. Good(j + 1)
      BY <1>5, <3>1
    <3> QED BY <2>1, <2>4, <3>1, <3>2
  <2>5. ASSUME e[j] = e[j + 2], j < L PROVE f[j + k + 2] = e[j] + k
    <3>1. j + 2 \in 1 .. L + 1
      BY <1>1, <2>1, <2>5
    <3>2. e[j + 2] \in j + 3 .. L + 1
      BY <1>2, <2>1, <2>5, <3>1
    <3>3. j + 2 \in j + 1 .. hi + 1 /\ j + 2 >= i
      BY <1>1, <2>1, <2>5, <3>2
    <3>4. Good(j + 2)
      BY <1>5, <3>3
    <3> QED BY <2>1, <2>5, <3>3, <3>4
  <2>6. e[j] = IF backslash /\ At(s, j) = "\\" /\ j < L THEN e[j + 2]
               ELSE IF At(s, j) # closing THEN e[j + 1]
               ELSE IF doubles /\ At(s, j + 1) = closing THEN e[j + 2]
               ELSE j + 1
    BY <1>2, <2>1
  <2>7. f[j + k] = IF backslash /\ At(t, j + k) = "\\" /\ j + k < M THEN f[j + k + 2]
                   ELSE IF At(t, j + k) # closing THEN f[j + k + 1]
                   ELSE IF doubles /\ At(t, j + k + 1) = closing THEN f[j + k + 2]
                   ELSE j + k + 1
    BY <1>3, <2>1
  <2>8. CASE backslash /\ At(s, j) = "\\" /\ j < L
    <3>1. e[j] = e[j + 2]
      BY <2>6, <2>8
    <3>2. j + k < M
      <4>1. j + 2 \in 1 .. L + 1
        BY <1>1, <2>1, <2>8
      <4>2. e[j + 2] \in j + 3 .. L + 1
        BY <1>2, <3>1, <4>1
      <4> QED BY <1>1, <2>1, <3>1, <4>2
    <3> QED BY <2>2, <2>5, <2>7, <2>8, <3>1, <3>2
  <2>9. CASE ~(backslash /\ At(s, j) = "\\" /\ j < L)
    <3>1. backslash /\ At(s, j) = "\\" => At(s, j) = closing
      <4> SUFFICES ASSUME backslash, At(s, j) = "\\", At(s, j) # closing PROVE FALSE
        OBVIOUS
      <4>1. j = L
        BY <1>1, <2>1, <2>9
      <4>2. e[j] = e[j + 1] /\ j + 1 = L + 1
        BY <2>6, <2>9, <4>1
      <4>3. e[L + 1] = 0 \/ e[L + 1] \in L + 1 + 1 .. L + 1
        <5>1. L + 1 \in 1 .. L + 1
          BY <1>1
        <5> QED BY <1>2, <5>1
      <4> QED BY <1>1, <4>2, <4>3
    <3>2. CASE At(s, j) # closing
      <4>1. e[j] = e[j + 1]
        BY <2>6, <2>9, <3>2
      <4> QED BY <2>2, <2>4, <2>7, <3>1, <3>2, <4>1
    <3>4. CASE At(s, j) = closing
      <4>1. CASE doubles /\ At(s, j + 1) = closing
        <5>1. j < L
          <6>1. j # hi
            BY <4>1
          <6> QED BY <1>1, <2>1, <6>1
        <5>2. e[j] = e[j + 2]
          BY <2>6, <3>4, <4>1
        <5> QED BY <2>2, <2>3, <2>5, <2>7, <3>4, <4>1, <5>1, <5>2
      <4>2. CASE ~(doubles /\ At(s, j + 1) = closing)
        <5>1. e[j] = j + 1
          BY <2>6, <3>4, <4>2
        <5>2. f[j + k] = j + k + 1
          BY <2>2, <2>3, <2>7, <3>4, <4>2
        <5> QED BY <2>1, <5>1, <5>2
      <4> QED BY <4>1, <4>2
    <3> QED BY <3>2, <3>4
  <2> QED BY <2>8, <2>9
<1>6. \A j \in 1 .. hi + 1 : j \in S
  <2>1. hi + 1 \in Nat
    BY <1>1
  <2> HIDE DEF S
  <2> QED BY <1>5, <2>1, BackwardInduction
<1>7. Good(j0)
  BY <1>4, <1>6
<1> QED BY <1>4, <1>7 DEF e, f

(* A comment that ends in the window ends at the same position in both. *)
LEMMA CommentMoved ==
  ASSUME NEW s, NEW t, NEW k, NEW i, NEW hi, Window(s, t, k, i, hi),
         NEW nests \in BOOLEAN, NEW j0 \in i .. hi + 1,
         CommentFrom(s, nests)[<<j0, 1>>] # 0, CommentFrom(s, nests)[<<j0, 1>>] <= hi + 1
  PROVE  CommentFrom(t, nests)[<<j0 + k, 1>>] = CommentFrom(s, nests)[<<j0, 1>>] + k
<1> DEFINE e == CommentFrom(s, nests)
           f == CommentFrom(t, nests)
           L == Len(s)
           M == Len(t)
           N == Nat \ {0}
           Good(j) == j >= i => \A n \in N :
                        e[<<j, n>>] # 0 /\ e[<<j, n>>] <= hi + 1
                        => f[<<j + k, n>>] = e[<<j, n>>] + k
           S == {j \in 1 .. hi + 1 : Good(j)}
<1>1. /\ s \in Texts /\ t \in Texts /\ k \in Int /\ hi \in Nat /\ i \in 1 .. hi + 1
      /\ hi <= L /\ i + k >= 1 /\ hi + k <= M /\ L \in Nat /\ M \in Nat
      /\ \A m \in i .. hi : At(t, m + k) = At(s, m)
  BY AtText DEF Window
<1>2. \A n \in N : \A j \in 1 .. L + 1 : e[<<j, n>>] = 0 \/ e[<<j, n>>] \in j + 2 .. L + 1
  BY <1>1, CommentBounds
<1>3. \A n \in N : \A j \in 1 .. L :
        e[<<j, n>>] = IF Pair(s, j, "*", "/")
                      THEN IF n = 1 THEN j + 2 ELSE e[<<j + 2, n - 1>>]
                      ELSE IF nests /\ Pair(s, j, "/", "*") THEN e[<<j + 2, n + 1>>]
                      ELSE e[<<j + 1, n>>]
  BY <1>1, CommentRecursion
<1>4. \A n \in N : \A j \in 1 .. M :
        f[<<j, n>>] = IF Pair(t, j, "*", "/")
                      THEN IF n = 1 THEN j + 2 ELSE f[<<j + 2, n - 1>>]
                      ELSE IF nests /\ Pair(t, j, "/", "*") THEN f[<<j + 2, n + 1>>]
                      ELSE f[<<j + 1, n>>]
  BY <1>1, CommentRecursion
<1>5. j0 \in 1 .. hi + 1 /\ j0 >= i /\ e[<<j0, 1>>] # 0 /\ e[<<j0, 1>>] <= hi + 1 /\ 1 \in N
  BY <1>1
<1> HIDE DEF e, f, L, M
<1>6. ASSUME NEW j \in 1 .. hi + 1, \A m \in j + 1 .. hi + 1 : m \in S PROVE j \in S
  <2> SUFFICES ASSUME j >= i, NEW n \in N, e[<<j, n>>] # 0, e[<<j, n>>] <= hi + 1
               PROVE  f[<<j + k, n>>] = e[<<j, n>>] + k
    OBVIOUS
  <2>1. /\ j \in i .. hi /\ j + 1 \in i .. hi /\ j \in 1 .. L /\ j + k \in 1 .. M
        /\ j + k + 1 = j + 1 + k /\ j + k + 2 = j + 2 + k
        /\ j + 1 \in j + 1 .. hi + 1 /\ j + 2 \in j + 1 .. hi + 1
    <3>1. j \in 1 .. L + 1
      BY <1>1
    <3>2. e[<<j, n>>] \in j + 2 .. L + 1
      BY <1>2, <3>1
    <3> QED BY <1>1, <3>2
  <2>2. At(t, j + k) = At(s, j) /\ At(t, j + k + 1) = At(s, j + 1)
    BY <1>1, <2>1
  <2>3. /\ Pair(t, j + k, "*", "/") <=> Pair(s, j, "*", "/")
        /\ Pair(t, j + k, "/", "*") <=> Pair(s, j, "/", "*")
    BY <2>2 DEF Pair
  <2>4. /\ \A m \in N : e[<<j + 1, m>>] # 0 /\ e[<<j + 1, m>>] <= hi + 1
                        => f[<<j + k + 1, m>>] = e[<<j + 1, m>>] + k
        /\ \A m \in N : e[<<j + 2, m>>] # 0 /\ e[<<j + 2, m>>] <= hi + 1
                        => f[<<j + k + 2, m>>] = e[<<j + 2, m>>] + k
    <3>1. j + 1 \in S /\ j + 2 \in S
      BY <1>6, <2>1
    <3>2. j + 1 >= i /\ j + 2 >= i
      BY <1>1, <2>1
    <3> QED BY <2>1, <3>1, <3>2
  <2>5. e[<<j, n>>] = IF Pair(s, j, "*", "/")
                      THEN IF n = 1 THEN j + 2 ELSE e[<<j + 2, n - 1>>]
                      ELSE IF nests /\ Pair(s, j, "/", "*") THEN e[<<j + 2, n + 1>>]
                      ELSE e[<<j + 1, n>>]
    BY <1>3, <2>1
  <2>6. f[<<j + k, n>>] = IF Pair(t, j + k, "*", "/")
                      THEN IF n = 1 THEN j + k + 2 ELSE f[<<j + k + 2, n - 1>>]
                      ELSE IF nests /\ Pair(t, j + k, "/", "*") THEN f[<<j + k + 2, n + 1>>]
                      ELSE f[<<j + k + 1, n>>]
    BY <1>4, <2>1
  <2>7. n + 1 \in N /\ (n # 1 => n - 1 \in N)
    OBVIOUS
  <2>8. CASE Pair(s, j, "*", "/") /\ n = 1
    BY <2>1, <2>3, <2>5, <2>6, <2>8
  <2>9. CASE Pair(s, j, "*", "/") /\ n # 1
    BY <2>3, <2>4, <2>5, <2>6, <2>7, <2>9
  <2>10. CASE ~Pair(s, j, "*", "/")
    BY <2>3, <2>4, <2>5, <2>6, <2>7, <2>10
  <2> QED BY <2>8, <2>9, <2>10
<1>7. \A j \in 1 .. hi + 1 : j \in S
  <2>1. hi + 1 \in Nat
    BY <1>1
  <2> HIDE DEF S
  <2> QED BY <1>6, <2>1, BackwardInduction
<1>8. Good(j0)
  BY <1>5, <1>7
<1> HIDE DEF N
<1> QED BY <1>5, <1>8 DEF e, f

(* What may stand after the part of a text that reads the same in another. *)
EdgeMarks == {"END", "NL", ":", "\\"}

(* A character up to the one past the window is in a set without edge
   marks in both or in none. *)
LEMMA SamePeek ==
  ASSUME NEW s, NEW t, NEW k, NEW i, NEW hi, Window(s, t, k, i, hi),
         At(s, hi + 1) \in EdgeMarks, At(t, hi + 1 + k) \in EdgeMarks,
         NEW j \in i .. hi + 1, NEW P, P \cap EdgeMarks = {}
  PROVE  At(t, j + k) \in P <=> At(s, j) \in P
<1>1. CASE j = hi + 1
  BY <1>1
<1>2. CASE j # hi + 1
  <2>1. j \in i .. hi
    BY <1>2 DEF Window
  <2> QED BY <2>1 DEF Window
<1> QED BY <1>1, <1>2

(* The sets that the scanner looks for hold no edge mark. *)
LEMMA EdgeSets ==
  /\ IdentifierParts \cap EdgeMarks = {}
  /\ NameStarts \cap EdgeMarks = {}
  /\ NameParts \cap EdgeMarks = {}
  /\ (NameParts \cup HighBytes) \cap EdgeMarks = {}
  /\ Digits \cap EdgeMarks = {}
  /\ {"p", "P"} \cap EdgeMarks = {}
  /\ \A c : c \notin EdgeMarks => {c} \cap EdgeMarks = {}
<1>1. EdgeMarks \subseteq Marks \ {"$", "UNDERSCORE"}
  BY DEF EdgeMarks, Marks
<1>2. HighBytes \cap EdgeMarks = {}
  BY <1>1, CharactersAssumption
<1>3. IdentifierParts \cap EdgeMarks = {} /\ NameStarts \cap EdgeMarks = {}
      /\ NameParts \cap EdgeMarks = {} /\ Digits \cap EdgeMarks = {}
  BY <1>1, Unmarked
<1>4. {"p", "P"} \cap EdgeMarks = {}
  BY DEF EdgeMarks
<1> QED BY <1>2, <1>3, <1>4

(* The delimiter at the start of the window is the same. *)
LEMMA DelimiterMoved ==
  ASSUME NEW s, NEW t, NEW k, NEW i, NEW hi, Window(s, t, k, i, hi), i <= hi,
         At(s, hi + 1) \in EdgeMarks, At(t, hi + 1 + k) \in EdgeMarks
  PROVE  dollarDelimiter(t, i + k) = dollarDelimiter(s, i)
<1> DEFINE P == NameParts \cup HighBytes
           j == i + 1
           a == After(s, j, P)
           b == After(t, j + k, P)
<1>1. i \in Nat /\ k \in Int /\ hi \in Nat /\ j \in i .. hi + 1 /\ i + k + 1 = j + k
  BY DEF Window
<1>2. a \in j .. hi + 1 /\ b = a + k
  <2>1. "END" \notin P /\ At(s, hi + 1) \notin P /\ At(t, hi + 1 + k) \notin P
    <3>1. "END" \in EdgeMarks
      BY DEF EdgeMarks
    <3> QED BY <3>1, EdgeSets
  <2> HIDE DEF P, j
  <2> QED BY <1>1, <2>1, AfterMoved
<1> HIDE DEF a, b, j, P
<1>3. a \in i .. hi + 1 /\ a \in Int /\ b - (i + k) + 1 = a - i + 1
  BY <1>1, <1>2 DEF j
<1>4. At(t, b) \in {"$"} <=> At(s, a) \in {"$"}
  <2>1. {"$"} \cap EdgeMarks = {}
    BY DEF EdgeMarks
  <2> QED BY <1>2, <1>3, <2>1, SamePeek
<1>5. At(t, j + k) \in Digits <=> At(s, j) \in Digits
  BY <1>1, EdgeSets, SamePeek
<1>6. dollarDelimiter(s, i) = IF At(s, a) = "$" /\ At(s, j) \notin Digits THEN a - i + 1 ELSE 0
  BY DEF dollarDelimiter, a, P, j
<1>7. dollarDelimiter(t, i + k)
        = IF At(t, b) = "$" /\ At(t, j + k) \notin Digits THEN b - (i + k) + 1 ELSE 0
  <2>1. dollarDelimiter(t, i + k)
          = IF At(t, After(t, i + k + 1, P)) = "$" /\ At(t, i + k + 1) \notin Digits
            THEN After(t, i + k + 1, P) - (i + k) + 1 ELSE 0
    BY DEF dollarDelimiter, P
  <2> QED BY <1>1, <2>1 DEF b
<1> QED BY <1>3, <1>4, <1>5, <1>6, <1>7

(* So is the place where it closes. *)
LEMMA ClosersMoved ==
  ASSUME NEW s, NEW t, NEW k, NEW i, NEW hi, Window(s, t, k, i, hi), i <= hi,
         NEW n \in Nat, n >= 1, Closers(s, i, n) # {}, Min(Closers(s, i, n)) + n <= hi + 1
  PROVE  /\ Closers(t, i + k, n) # {}
         /\ Min(Closers(t, i + k, n)) = Min(Closers(s, i, n)) + k
<1> DEFINE C == Closers(s, i, n)
           E == Closers(t, i + k, n)
           m == Min(C)
           L == Len(s)
           M == Len(t)
<1>1. /\ s \in Texts /\ t \in Texts /\ k \in Int /\ hi \in Nat /\ i \in 1 .. hi
      /\ hi <= L /\ i + k >= 1 /\ hi + k <= M /\ L \in Nat /\ M \in Nat
      /\ \A j \in i .. hi : At(t, j + k) = At(s, j)
  BY AtText DEF Window
<1>2. \A j : j \in C <=> /\ j \in i + n .. L - n + 1
                         /\ \A x \in 0 .. n - 1 : At(s, j + x) = At(s, i + x)
  BY DEF Closers
<1>3. \A j : j \in E <=> /\ j \in i + k + n .. M - n + 1
                         /\ \A x \in 0 .. n - 1 : At(t, j + x) = At(t, i + k + x)
  BY DEF Closers
<1>4. m \in C /\ (\A j \in C : m <= j) /\ m + n <= hi + 1
  <2>1. C \in SUBSET Nat
    BY <1>1, <1>2
  <2> HIDE DEF C
  <2> QED BY <2>1, MinNatural DEF C
<1> HIDE DEF C, E, m, L, M
<1>5. m \in i + n .. L - n + 1 /\ m \in Nat
  BY <1>1, <1>2, <1>4
<1>6. \A x \in 0 .. n - 1 : At(t, i + k + x) = At(s, i + x)
  <2> TAKE x \in 0 .. n - 1
  <2>1. i + x \in i .. hi /\ i + x + k = i + k + x
    BY <1>1, <1>4, <1>5
  <2> QED BY <1>1, <2>1
<1>7. ASSUME NEW j \in Int, j + k \in i + k + n .. m + k
      PROVE  j + k \in E <=> j \in C
  <2>1. \A x \in 0 .. n - 1 : At(t, j + k + x) = At(s, j + x)
    <3> TAKE x \in 0 .. n - 1
    <3>1. j + x \in i .. hi /\ j + x + k = j + k + x
      BY <1>1, <1>4, <1>5, <1>7
    <3> QED BY <1>1, <3>1
  <2>2. j \in i + n .. L - n + 1 /\ j + k \in i + k + n .. M - n + 1
    BY <1>1, <1>4, <1>5, <1>7
  <2> QED BY <1>2, <1>3, <1>6, <2>1, <2>2
<1>8. m + k \in E
  BY <1>1, <1>4, <1>5, <1>7
<1>9. E \in SUBSET Nat
  BY <1>1, <1>3
<1>10. \A y \in E : m + k <= y
  <2> SUFFICES ASSUME NEW y \in E, y < m + k PROVE FALSE
    BY <1>1, <1>5, <1>9
  <2> DEFINE j == y - k
  <2>1. j \in Int /\ j + k = y /\ y \in i + k + n .. M - n + 1
    BY <1>1, <1>3, <1>9
  <2>2. j + k \in i + k + n .. m + k
    BY <1>1, <1>5, <1>9, <2>1
  <2> HIDE DEF j
  <2>3. j \in C
    BY <1>7, <2>1, <2>2
  <2> QED BY <1>1, <1>4, <1>5, <1>9, <2>1, <2>3
<1>11. Min(E) = m + k
  BY <1>8, <1>9, <1>10, LeastIsMin
<1> QED BY <1>8, <1>11 DEF C, E, m

(* A turn k characters further on. *)
TurnMoved(turn, k) ==
  IF turn.kind \in Errors THEN turn ELSE Turn(turn.kind, turn.next + k, turn.name)

(* Each form of a turn, moved. *)
LEMMA FormsMoved ==
  ASSUME NEW k
  PROVE  /\ \A n : TurnMoved(Skip(n), k) = Skip(n + k)
         /\ \A n : TurnMoved(Executable(n), k) = Executable(n + k)
         /\ \A n, name : TurnMoved(Parameter(n, name), k) = Parameter(n + k, name)
         /\ \A err \in Errors : TurnMoved(Fail(err), k) = Fail(err)
BY DEF TurnMoved, Skip, Executable, Parameter, Fail, Turn, Errors

(* The kind and the end of each form of a turn. *)
LEMMA Forms ==
  /\ \A n : Skip(n).kind \notin Errors /\ Skip(n).next = n
  /\ \A n : Executable(n).kind \notin Errors /\ Executable(n).next = n
  /\ \A n, name : Parameter(n, name).kind \notin Errors /\ Parameter(n, name).next = n
  /\ \A err : Fail(err).kind = err
  /\ "syntax" \in Errors /\ "mixed" \in Errors /\ "invalid" \in Errors
BY DEF Skip, Executable, Parameter, Fail, Turn, Errors

(* What PostgreSQL looks at before a quote or a dollar is the same. *)
SameBehind(s, i, t, j) ==
  /\ identifierPart(At(s, i - 1)) <=> identifierPart(At(t, j - 1))
  /\ (At(s, i - 1) \in {"E", "e"} /\ ~identifierPart(At(s, i - 2)))
       <=> (At(t, j - 1) \in {"E", "e"} /\ ~identifierPart(At(t, j - 2)))

(* Both texts end with the window. *)
SameEnd(s, t, k, hi) == hi = Len(s) /\ hi + k = Len(t)

(* The turn of s at i ends before a newline or an escape is put in. *)
EndsBefore(s, t, k, i, hi, d) ==
  /\ Lexeme(s, i, d).kind \notin Errors /\ Lexeme(s, i, d).next <= hi + 1
  /\ \/ /\ hi = Len(s) /\ At(t, hi + 1 + k) = "NL"
        /\ d = "sqlite" => ~IsComment(s, i)
     \/ At(s, hi + 1) \in {":", "\\"} /\ At(t, hi + 1 + k) = "\\"

(* s reads as t does k characters further on, for a turn at i. *)
Reads(s, t, k, i, hi, d) ==
  /\ Window(s, t, k, i, hi) /\ i <= hi /\ d \in Dialects
  /\ SameBehind(s, i, t, i + k)
  /\ SameEnd(s, t, k, hi) \/ EndsBefore(s, t, k, i, hi, d)

(* What the proofs use of a window. *)
LEMMA WindowFacts ==
  ASSUME NEW s, NEW t, NEW k, NEW i, NEW hi, Window(s, t, k, i, hi)
  PROVE  /\ s \in Texts /\ t \in Texts /\ k \in Int /\ hi \in Nat /\ i \in Nat
         /\ i \in 1 .. hi + 1 /\ hi <= Len(s) /\ i + k >= 1 /\ hi + k <= Len(t)
         /\ Len(s) \in Nat /\ Len(t) \in Nat
         /\ i + 1 + k = i + k + 1 /\ i + 2 + k = i + k + 2
         /\ \A j \in i .. hi : At(t, j + k) = At(s, j)
<1>1. /\ s \in Texts /\ t \in Texts /\ k \in Int /\ hi \in Nat /\ i \in Nat
      /\ i \in 1 .. hi + 1 /\ hi <= Len(s) /\ i + k >= 1 /\ hi + k <= Len(t)
      /\ Len(s) \in Nat /\ Len(t) \in Nat
      /\ \A j \in i .. hi : At(t, j + k) = At(s, j)
  BY AtText DEF Window
<1>2. i + 1 + k = i + k + 1 /\ i + 2 + k = i + k + 2
  BY <1>1
<1> QED BY <1>1, <1>2

(* And t as s does k characters before. *)
LEMMA WindowBack ==
  ASSUME NEW s, NEW t, NEW k, NEW i, NEW hi, Window(s, t, k, i, hi)
  PROVE  Window(t, s, -k, i + k, hi + k) /\ -k \in Int
<1>1. /\ s \in Texts /\ t \in Texts /\ k \in Int /\ hi \in Nat /\ i \in Nat
      /\ i \in 1 .. hi + 1 /\ hi <= Len(s) /\ i + k >= 1 /\ hi + k <= Len(t)
      /\ \A j \in i .. hi : At(t, j + k) = At(s, j)
  BY WindowFacts
<1>2. \A j \in i + k .. hi + k : At(s, j + (-k)) = At(t, j)
  <2> TAKE j \in i + k .. hi + k
  <2>1. j + (-k) \in i .. hi /\ j + (-k) + k = j
    BY <1>1
  <2> QED BY <1>1, <2>1
<1>3. /\ i + k \in 1 .. hi + k + 1 /\ hi + k \in Nat /\ i + k + (-k) >= 1
      /\ hi + k + (-k) <= Len(s) /\ -k \in Int
  BY <1>1
<1> QED BY <1>1, <1>2, <1>3 DEF Window

(* What the proofs use of Reads. *)
LEMMA ReadsFacts ==
  ASSUME NEW s, NEW t, NEW k, NEW i, NEW hi, NEW d, Reads(s, t, k, i, hi, d)
  PROVE  /\ Window(s, t, k, i, hi) /\ i <= hi /\ d \in Dialects
         /\ i \in 1 .. Len(s) /\ i + k \in 1 .. Len(t)
         /\ At(t, i + k) = At(s, i)
         /\ At(s, hi + 1) \in EdgeMarks /\ At(t, hi + 1 + k) \in EdgeMarks
         /\ At(t, hi + 1 + k) # ":"
         /\ \/ At(s, hi + 1) = "END" /\ At(t, hi + 1 + k) \in {"END", "NL"}
            \/ At(s, hi + 1) \in {":", "\\"} /\ At(t, hi + 1 + k) = "\\"
         /\ SameEnd(s, t, k, hi) => /\ At(s, hi + 1) = "END" /\ At(t, hi + 1 + k) = "END"
                                    /\ Lexeme(s, i, d).kind \notin Errors =>
                                         Lexeme(s, i, d).next <= hi + 1
         /\ Lexeme(s, i, d).kind \in Errors \/ Lexeme(s, i, d).next <= hi + 1
<1>1. Window(s, t, k, i, hi) /\ i <= hi /\ d \in Dialects
  BY DEF Reads
<1>2. /\ s \in Texts /\ t \in Texts /\ k \in Int /\ hi \in Nat /\ i \in Nat
      /\ i \in 1 .. hi + 1 /\ hi <= Len(s) /\ i + k >= 1 /\ hi + k <= Len(t)
      /\ Len(s) \in Nat /\ Len(t) \in Nat
      /\ \A j \in i .. hi : At(t, j + k) = At(s, j)
  BY <1>1, WindowFacts
<1>3. i \in 1 .. Len(s) /\ i + k \in 1 .. Len(t) /\ At(t, i + k) = At(s, i)
  BY <1>1, <1>2
<1>4. hi = Len(s) => At(s, hi + 1) = "END"
  BY <1>2, AtText
<1>5. hi + k = Len(t) => At(t, hi + 1 + k) = "END"
  <2>1. hi + k = Len(t) => hi + 1 + k \in Int /\ hi + 1 + k \notin 1 .. Len(t)
    BY <1>2
  <2> QED BY <1>2, <2>1, AtText
<1>6. \/ At(s, hi + 1) = "END" /\ At(t, hi + 1 + k) \in {"END", "NL"}
      \/ At(s, hi + 1) \in {":", "\\"} /\ At(t, hi + 1 + k) = "\\"
  <2>1. CASE SameEnd(s, t, k, hi)
    BY <1>4, <1>5, <2>1 DEF SameEnd
  <2>2. CASE EndsBefore(s, t, k, i, hi, d)
    BY <1>4, <2>2 DEF EndsBefore
  <2> QED BY <2>1, <2>2 DEF Reads
<1>9. /\ At(s, hi + 1) \in EdgeMarks /\ At(t, hi + 1 + k) \in EdgeMarks
      /\ At(t, hi + 1 + k) # ":"
  BY <1>6 DEF EdgeMarks
<1>7. SameEnd(s, t, k, hi) => /\ At(s, hi + 1) = "END" /\ At(t, hi + 1 + k) = "END"
                              /\ Lexeme(s, i, d).kind \notin Errors =>
                                   Lexeme(s, i, d).next <= hi + 1
  <2>1. TurnOK(s, i, Lexeme(s, i, d))
    BY <1>1, <1>2, <1>3, TurnBounds
  <2>2. Lexeme(s, i, d).kind \notin Errors => Lexeme(s, i, d).next \in i + 1 .. Len(s) + 1
    BY <2>1 DEF TurnOK
  <2> QED BY <1>2, <1>4, <1>5, <2>2 DEF SameEnd
<1>8. Lexeme(s, i, d).kind \in Errors \/ Lexeme(s, i, d).next <= hi + 1
  BY <1>7 DEF Reads, EndsBefore
<1> QED BY <1>1, <1>3, <1>6, <1>7, <1>8, <1>9

(* A character that stands at no edge is read in both. *)
LEMMA PeekChar ==
  ASSUME NEW s, NEW t, NEW k, NEW i, NEW hi, NEW d, Reads(s, t, k, i, hi, d),
         NEW j \in i .. hi + 1, NEW c, c \notin EdgeMarks
  PROVE  /\ At(t, j + k) = c <=> At(s, j) = c
         /\ At(s, j) = c => j \in i .. hi
<1>1. Window(s, t, k, i, hi) /\ At(s, hi + 1) \in EdgeMarks /\ At(t, hi + 1 + k) \in EdgeMarks
  BY ReadsFacts
<1>2. At(t, j + k) \in {c} <=> At(s, j) \in {c}
  BY <1>1, EdgeSets, SamePeek
<1>3. hi \in Nat /\ i \in Nat
  BY <1>1, WindowFacts
<1>4. At(s, j) = c => j # hi + 1
  BY <1>1
<1> QED BY <1>2, <1>3, <1>4

(* A character of a set without edge marks lies in the window. *)
LEMMA PeekSet ==
  ASSUME NEW s, NEW t, NEW k, NEW i, NEW hi, NEW d, Reads(s, t, k, i, hi, d),
         NEW j \in i .. hi + 1, NEW P, P \cap EdgeMarks = {}
  PROVE  /\ At(t, j + k) \in P <=> At(s, j) \in P
         /\ At(s, j) \in P => j \in i .. hi
<1>1. Window(s, t, k, i, hi) /\ At(s, hi + 1) \in EdgeMarks /\ At(t, hi + 1 + k) \in EdgeMarks
  BY ReadsFacts
<1>2. At(t, j + k) \in P <=> At(s, j) \in P
  BY <1>1, SamePeek
<1>3. hi \in Nat /\ i \in Nat
  BY <1>1, WindowFacts
<1>4. At(s, j) \in P => j # hi + 1
  BY <1>1
<1> QED BY <1>2, <1>3, <1>4

(* So is a colon that the turn takes together with what it starts with. *)
LEMMA PeekColon ==
  ASSUME NEW s, NEW t, NEW k, NEW i, NEW hi, NEW d, Reads(s, t, k, i, hi, d),
         At(s, i) \in {"\\", ":"}
  PROVE  At(t, i + k + 1) = ":" <=> At(s, i + 1) = ":"
<1>1. Window(s, t, k, i, hi) /\ i <= hi
  BY ReadsFacts
<1>2. /\ k \in Int /\ hi \in Nat /\ i \in Nat /\ i + 1 + k = i + k + 1
      /\ \A j \in i .. hi : At(t, j + k) = At(s, j)
  BY <1>1, WindowFacts
<1>3. CASE i + 1 <= hi
  BY <1>2, <1>3
<1>4. CASE i = hi
  <2>1. At(t, i + k + 1) # ":"
    BY <1>2, <1>4, ReadsFacts
  <2>2. ASSUME At(s, i + 1) = ":" PROVE FALSE
    <3>1. Lexeme(s, i, d) = Parameter(i + 2, <<>>) \/ Lexeme(s, i, d) = Skip(i + 2)
      <4>1. IsEscape(s, i) \/ IsColon(s, i)
        BY <2>2 DEF IsEscape, IsColon, Pair
      <4>2. IsColon(s, i) => Colon(s, i) = Skip(i + 2)
        BY <2>2 DEF Colon
      <4> QED BY <4>1, <4>2, LexemeCases
    <3>2. Lexeme(s, i, d).kind \notin Errors /\ Lexeme(s, i, d).next = i + 2
      BY <3>1 DEF Skip, Parameter, Turn, Errors
    <3>3. Lexeme(s, i, d).next <= hi + 1
      BY <3>2, ReadsFacts
    <3> QED BY <1>2, <1>4, <3>2, <3>3
  <2> QED BY <2>1, <2>2
<1> QED BY <1>1, <1>2, <1>3, <1>4

(* The turn is of the same case. *)
LEMMA GuardsMoved ==
  ASSUME NEW s, NEW t, NEW k, NEW i, NEW hi, NEW d, Reads(s, t, k, i, hi, d)
  PROVE  /\ IsEscape(t, i + k) <=> IsEscape(s, i)
         /\ IsQuote(t, i + k, d) <=> IsQuote(s, i, d)
         /\ StartsDashComment(t, i + k, d) <=> StartsDashComment(s, i, d)
         /\ IsHash(t, i + k, d) <=> IsHash(s, i, d)
         /\ IsComment(t, i + k) <=> IsComment(s, i)
         /\ IsDollar(t, i + k, d) <=> IsDollar(s, i, d)
         /\ IsColon(t, i + k) <=> IsColon(s, i)
         /\ IsNative(t, i + k, d) <=> IsNative(s, i, d)
         /\ IsAtSign(t, i + k, d) <=> IsAtSign(s, i, d)
         /\ IsPlain(t, i + k, d) <=> IsPlain(s, i, d)
<1>1. Window(s, t, k, i, hi) /\ i <= hi /\ At(t, i + k) = At(s, i)
  BY ReadsFacts
<1>2. /\ k \in Int /\ hi \in Nat /\ i \in Nat /\ i + 1 + k = i + k + 1 /\ i + 2 + k = i + k + 2
      /\ i + 1 \in i .. hi + 1 /\ (i + 1 \in i .. hi => i + 2 \in i .. hi + 1)
      /\ \A j \in i .. hi : At(t, j + k) = At(s, j)
  BY <1>1, WindowFacts, SMTT(30)
<1>3. IsEscape(t, i + k) <=> IsEscape(s, i)
  BY <1>1, PeekColon DEF IsEscape, Pair
<1>4. StartsDashComment(t, i + k, d) <=> StartsDashComment(s, i, d)
  <2>1. /\ At(t, i + k + 1) = "-" <=> At(s, i + 1) = "-"
        /\ At(s, i + 1) = "-" => i + 1 \in i .. hi
    <3>1. "-" \notin EdgeMarks
      BY DEF EdgeMarks
    <3> DEFINE j == i + 1
    <3>2. j \in i .. hi + 1 /\ j + k = i + k + 1
      BY <1>2
    <3> HIDE DEF j
    <3>3. /\ At(t, j + k) = "-" <=> At(s, j) = "-"
          /\ At(s, j) = "-" => j \in i .. hi
      BY <3>1, <3>2, PeekChar
    <3> QED BY <3>2, <3>3 DEF j
  <2>2. i + 1 \in i .. hi => (At(t, i + k + 2) \in {"END", "SPACE", "NL", "CR"}
                               <=> At(s, i + 2) \in {"END", "SPACE", "NL", "CR"})
    <3> HAVE i + 1 \in i .. hi
    <3>1. CASE i + 2 \in i .. hi
      BY <1>2, <3>1
    <3>2. CASE i + 2 \notin i .. hi
      <4>1. hi + 1 = i + 2 /\ hi + 1 + k = i + k + 2
        BY <1>1, <1>2, <3>2
      <4>3. \/ At(s, hi + 1) = "END" /\ At(t, hi + 1 + k) \in {"END", "NL"}
            \/ At(s, hi + 1) \in {":", "\\"} /\ At(t, hi + 1 + k) = "\\"
        BY ReadsFacts
      <4> QED BY <4>1, <4>3
    <3> QED BY <3>1, <3>2
  <2> QED BY <1>1, <2>1, <2>2 DEF StartsDashComment
<1>5. IsComment(t, i + k) <=> IsComment(s, i)
  <2>1. At(t, i + k + 1) = "*" <=> At(s, i + 1) = "*"
    <3>1. "*" \notin EdgeMarks
      BY DEF EdgeMarks
    <3>2. At(t, i + 1 + k) = "*" <=> At(s, i + 1) = "*"
      BY <1>2, <3>1, PeekChar
    <3> QED BY <1>2, <3>2
  <2> QED BY <1>1, <2>1 DEF IsComment, Pair
<1>6. IsDollar(t, i + k, d) <=> IsDollar(s, i, d)
  BY <1>1 DEF IsDollar, Reads, SameBehind
<1>7. IsNative(t, i + k, d) <=> IsNative(s, i, d)
  <2>1. At(t, i + 1 + k) \in IdentifierParts <=> At(s, i + 1) \in IdentifierParts
    BY <1>2, EdgeSets, PeekSet
  <2>2. identifierPart(At(t, i + k + 1)) <=> identifierPart(At(s, i + 1))
    BY <1>2, <2>1 DEF identifierPart
  <2> QED BY <1>1, <2>2 DEF IsNative
<1>8. /\ IsQuote(t, i + k, d) <=> IsQuote(s, i, d)
      /\ IsHash(t, i + k, d) <=> IsHash(s, i, d)
      /\ IsColon(t, i + k) <=> IsColon(s, i)
      /\ IsAtSign(t, i + k, d) <=> IsAtSign(s, i, d)
  BY <1>1 DEF IsQuote, IsHash, IsColon, IsAtSign
<1> QED BY <1>3, <1>4, <1>5, <1>6, <1>7, <1>8 DEF IsPlain

(* A line comment ends at the same terminator, or at the newline put in. *)
LEMMA LineMoved ==
  ASSUME NEW s, NEW t, NEW k, NEW i, NEW hi, NEW d, Reads(s, t, k, i, hi, d),
         NEW j \in i .. hi + 1, lineEnd(s, j, d) <= hi + 1
  PROVE  lineEnd(t, j + k, d) = lineEnd(s, j, d) + k
<1>1. Window(s, t, k, i, hi)
  BY ReadsFacts
<1>2. s \in Texts /\ hi \in Nat /\ i \in Nat /\ hi <= Len(s) /\ Len(s) \in Nat /\ i \in 1 .. hi + 1
  BY <1>1, WindowFacts
<1>3. lineEnd(s, j, d) = hi + 1 => At(t, hi + 1 + k) \in Stops(d)
  <2> HAVE lineEnd(s, j, d) = hi + 1
  <2>1. At(s, hi + 1) \in Stops(d)
    <3>1. j \in 1 .. Len(s) + 1
      BY <1>2
    <3> QED BY <1>2, <3>1, LineEndStops
  <2>2. At(s, hi + 1) \notin {":", "\\"}
    BY <2>1 DEF Stops, LineTerminators
  <2>3. At(t, hi + 1 + k) \in {"END", "NL"}
    BY <2>2, ReadsFacts
  <2> QED BY <2>3 DEF Stops, LineTerminators
<1> QED BY <1>1, <1>3, LineEndMoved

(* A turn at a line comment is the same. *)
LEMMA DashTurnMoved ==
  ASSUME NEW s, NEW t, NEW k, NEW i, NEW hi, NEW d, Reads(s, t, k, i, hi, d),
         StartsDashComment(s, i, d)
  PROVE  Lexeme(t, i + k, d) = TurnMoved(Lexeme(s, i, d), k)
<1>1. Window(s, t, k, i, hi)
  BY ReadsFacts
<1>2. /\ hi \in Nat /\ i \in Nat /\ k \in Int /\ i + 2 + k = i + k + 2 /\ i \in 1 .. hi + 1
      /\ i <= hi
  BY <1>1, ReadsFacts, WindowFacts
<1>3. i + 1 \in i .. hi
  <2>1. i + 1 \in i .. hi + 1
    BY <1>2
  <2>2. "-" \notin EdgeMarks /\ At(s, i + 1) = "-"
    BY DEF EdgeMarks, StartsDashComment
  <2> QED BY <2>1, <2>2, PeekChar
<1>4. Lexeme(s, i, d) = Skip(lineEnd(s, i + 2, d))
  BY LexemeCases
<1>5. Lexeme(t, i + k, d) = Skip(lineEnd(t, i + k + 2, d))
  BY GuardsMoved, LexemeCases
<1>6. lineEnd(s, i + 2, d) <= hi + 1
  <2>1. Lexeme(s, i, d).kind \in Errors \/ Lexeme(s, i, d).next <= hi + 1
    BY ReadsFacts
  <2> QED BY <1>4, <2>1, Forms
<1>7. lineEnd(t, i + 2 + k, d) = lineEnd(s, i + 2, d) + k
  <2>1. i + 2 \in i .. hi + 1
    BY <1>2, <1>3
  <2> QED BY <1>6, <2>1, LineMoved
<1> QED BY <1>2, <1>4, <1>5, <1>7, FormsMoved

(* So is one at a line comment of MySQL. *)
LEMMA HashTurnMoved ==
  ASSUME NEW s, NEW t, NEW k, NEW i, NEW hi, NEW d, Reads(s, t, k, i, hi, d),
         IsHash(s, i, d)
  PROVE  Lexeme(t, i + k, d) = TurnMoved(Lexeme(s, i, d), k)
<1>1. Window(s, t, k, i, hi)
  BY ReadsFacts
<1>2. /\ hi \in Nat /\ i \in Nat /\ k \in Int /\ i + 1 + k = i + k + 1 /\ i \in 1 .. hi + 1
      /\ i <= hi
  BY <1>1, ReadsFacts, WindowFacts
<1>4. Lexeme(s, i, d) = Skip(lineEnd(s, i + 1, d))
  BY LexemeCases
<1>5. Lexeme(t, i + k, d) = Skip(lineEnd(t, i + k + 1, d))
  BY GuardsMoved, LexemeCases
<1>6. lineEnd(s, i + 1, d) <= hi + 1
  <2>1. Lexeme(s, i, d).kind \in Errors \/ Lexeme(s, i, d).next <= hi + 1
    BY ReadsFacts
  <2> QED BY <1>4, <2>1, Forms
<1>7. lineEnd(t, i + 1 + k, d) = lineEnd(s, i + 1, d) + k
  <2>1. i + 1 \in i .. hi + 1
    BY <1>2
  <2> QED BY <1>6, <2>1, LineMoved
<1> QED BY <1>2, <1>4, <1>5, <1>7, FormsMoved

(* Quoted text ends at the same quote, or in neither. *)
LEMMA QuoteTurnMoved ==
  ASSUME NEW s, NEW t, NEW k, NEW i, NEW hi, NEW d, Reads(s, t, k, i, hi, d),
         IsQuote(s, i, d)
  PROVE  Lexeme(t, i + k, d) = TurnMoved(Lexeme(s, i, d), k)
<1> DEFINE c == Closing(At(s, i))
           b == BackslashEscapes(s, i, d)
           o == Doubles(At(s, i), d)
           j == i + 1
           e == QuotedFrom(s, c, b, o)[j]
           f == QuotedFrom(t, c, b, o)[j + k]
<1>1. /\ Window(s, t, k, i, hi) /\ i <= hi /\ d \in Dialects /\ i \in 1 .. Len(s)
      /\ At(t, i + k) = At(s, i)
      /\ At(s, hi + 1) \in EdgeMarks /\ At(t, hi + 1 + k) \in EdgeMarks
  BY ReadsFacts
<1>2. /\ s \in Texts /\ t \in Texts /\ k \in Int /\ hi \in Nat /\ i \in Nat
      /\ i \in 1 .. hi + 1 /\ hi <= Len(s) /\ i + k >= 1 /\ hi + k <= Len(t)
      /\ Len(s) \in Nat /\ Len(t) \in Nat /\ j + k = i + k + 1
  BY <1>1, WindowFacts
<1>3. /\ c # "END" /\ c # "\\" /\ c \notin EdgeMarks /\ b \in BOOLEAN /\ o \in BOOLEAN
  <2>1. /\ Closing(At(s, i)) \in {"'", "QUOTE", "BACKQUOTE", "]"}
        /\ BackslashEscapes(s, i, d) \in BOOLEAN /\ Doubles(At(s, i), d) \in BOOLEAN
    BY <1>1, <1>2, QuoteIs
  <2> QED BY <2>1 DEF EdgeMarks
<1>4. BackslashEscapes(t, i + k, d) = b
  BY <1>1 DEF BackslashEscapes, Reads, SameBehind
<1>5. Lexeme(s, i, d) = IF e = 0 THEN Fail("syntax") ELSE Skip(e)
  <2>1. Lexeme(s, i, d) = Quoted(s, i, d)
    BY LexemeCases
  <2>2. QuotedEnd(s, i, d) = e
    BY DEF QuotedEnd
  <2> QED BY <2>1, <2>2 DEF Quoted
<1>6. Lexeme(t, i + k, d) = IF f = 0 THEN Fail("syntax") ELSE Skip(f)
  <2>1. Lexeme(t, i + k, d) = Quoted(t, i + k, d)
    BY GuardsMoved, LexemeCases
  <2>2. QuotedEnd(t, i + k, d) = f
    BY <1>1, <1>2, <1>4 DEF QuotedEnd
  <2> QED BY <2>1, <2>2 DEF Quoted
<1>7. j \in i .. hi + 1 /\ j \in 1 .. Len(s) + 1 /\ j + k \in 1 .. Len(t) + 1 /\ j \in Nat
      /\ j = i + 1
  BY <1>1, <1>2
<1> HIDE DEF c, b, o, j
<1>8. /\ e = 0 \/ e \in j + 1 .. Len(s) + 1
      /\ f = 0 \/ f \in j + k + 1 .. Len(t) + 1
  <2>1. e = 0 \/ e \in j + 1 .. Len(s) + 1
    BY <1>2, <1>3, <1>7, QuotedBounds
  <2> DEFINE m == j + k
  <2>2. m \in 1 .. Len(t) + 1
    BY <1>7
  <2> HIDE DEF m
  <2>3. QuotedFrom(t, c, b, o)[m] = 0 \/ QuotedFrom(t, c, b, o)[m] \in m + 1 .. Len(t) + 1
    BY <1>2, <1>3, <2>2, QuotedBounds
  <2> QED BY <2>1, <2>3 DEF m
<1>9. At(s, hi + 1) # c /\ At(t, hi + 1 + k) # c
  BY <1>1, <1>3
<1>10. e # 0 => e <= hi + 1
  <2>1. Lexeme(s, i, d).kind \in Errors \/ Lexeme(s, i, d).next <= hi + 1
    BY ReadsFacts
  <2> HIDE DEF e
  <2> QED BY <1>5, <2>1, Forms
<1>11. e # 0 /\ e <= hi + 1 => f = e + k
  BY <1>1, <1>3, <1>7, <1>9, QuotedMoved
<1>12. e = 0 /\ SameEnd(s, t, k, hi) => f = 0
  <2> SUFFICES ASSUME e = 0, SameEnd(s, t, k, hi), f # 0 PROVE FALSE
    OBVIOUS
  <2>1. f \in j + k + 1 .. hi + k + 1 /\ hi = Len(s) /\ hi + k = Len(t)
    BY <1>8 DEF SameEnd
  <2> DEFINE n == -k
             a == i + k
             h == hi + k
             m == j + k
  <2>2. Window(t, s, n, a, h)
    BY <1>1, WindowBack
  <2>3. /\ h + 1 = hi + 1 + k /\ h + 1 + n = hi + 1 /\ m \in a .. h + 1 /\ m + n = j
        /\ n \in Int /\ f + n = f - k /\ f <= h + 1
    BY <1>2, <1>7, <2>1
  <2>4. At(t, h + 1) # c /\ At(s, h + 1 + n) # c
    BY <1>9, <2>3
  <2>5. QuotedFrom(t, c, b, o)[m] # 0 /\ QuotedFrom(t, c, b, o)[m] <= h + 1
    BY <2>3
  <2> HIDE DEF n, a, h, m
  <2>6. QuotedFrom(s, c, b, o)[m + n] = QuotedFrom(t, c, b, o)[m] + n
    BY <1>3, <2>2, <2>3, <2>4, <2>5, QuotedMoved
  <2>7. e = f - k
    BY <2>3, <2>6 DEF m
  <2> QED BY <1>2, <1>7, <2>1, <2>7
<1> HIDE DEF e, f
<1>13. CASE e = 0
  <2>1. SameEnd(s, t, k, hi)
    BY <1>5, <1>13 DEF Reads, EndsBefore, Fail, Turn, Errors
  <2> QED BY <1>5, <1>6, <1>12, <1>13, <2>1, FormsMoved DEF Errors
<1>14. CASE e # 0
  <2>1. f = e + k /\ f # 0
    <3>1. f = e + k
      BY <1>10, <1>11, <1>14
    <3>2. e \in j + 1 .. Len(s) + 1
      BY <1>8, <1>14
    <3>3. e + k # 0
      BY <1>2, <1>7, <3>2
    <3> QED BY <3>1, <3>3
  <2> QED BY <1>5, <1>6, <1>14, <2>1, FormsMoved
<1> QED BY <1>13, <1>14

(* A comment ends at the same place, or in neither. *)
LEMMA CommentTurnMoved ==
  ASSUME NEW s, NEW t, NEW k, NEW i, NEW hi, NEW d, Reads(s, t, k, i, hi, d),
         IsComment(s, i)
  PROVE  Lexeme(t, i + k, d) = TurnMoved(Lexeme(s, i, d), k)
<1> DEFINE o == Nests(d)
           j == i + 2
           e == CommentFrom(s, o)[<<j, 1>>]
           f == CommentFrom(t, o)[<<j + k, 1>>]
           x == IsExecutable(s, i, d)
<1>1. /\ Window(s, t, k, i, hi) /\ i <= hi /\ d \in Dialects
      /\ At(s, hi + 1) \in EdgeMarks /\ At(t, hi + 1 + k) \in EdgeMarks
  BY ReadsFacts
<1>2. /\ s \in Texts /\ t \in Texts /\ k \in Int /\ hi \in Nat /\ i \in Nat
      /\ i \in 1 .. hi + 1 /\ hi <= Len(s) /\ i + k >= 1 /\ hi + k <= Len(t)
      /\ Len(s) \in Nat /\ Len(t) \in Nat /\ j + k = i + k + 2
  BY <1>1, WindowFacts
<1>3. i + 1 \in i .. hi
  <2>1. i + 1 \in i .. hi + 1
    BY <1>1, <1>2
  <2>2. "*" \notin EdgeMarks /\ At(s, i + 1) = "*"
    BY DEF EdgeMarks, IsComment, Pair
  <2> QED BY <2>1, <2>2, PeekChar
<1>4. /\ j \in i .. hi + 1 /\ j \in 1 .. Len(s) + 1 /\ j + k \in 1 .. Len(t) + 1
      /\ j \in Nat /\ j = i + 2
  BY <1>2, <1>3
<1>5. IsExecutable(t, i + k, d) <=> x
  <2>1. At(t, j + k) = "!" <=> At(s, j) = "!"
    <3>1. "!" \notin EdgeMarks
      BY DEF EdgeMarks
    <3> HIDE DEF j
    <3> QED BY <1>4, <3>1, PeekChar
  <2> QED BY <1>2, <2>1 DEF IsExecutable
<1>6. Lexeme(s, i, d) = IF e = 0 THEN IF d = "sqlite" THEN Skip(Len(s) + 1) ELSE Fail("syntax")
                        ELSE IF x THEN Executable(e) ELSE Skip(e)
  <2>1. Lexeme(s, i, d) = Comment(s, i, d)
    BY LexemeCases
  <2>2. CommentEnd(s, i, d) = e
    BY DEF CommentEnd
  <2> QED BY <2>1, <2>2 DEF Comment
<1>7. Lexeme(t, i + k, d)
        = IF f = 0 THEN IF d = "sqlite" THEN Skip(Len(t) + 1) ELSE Fail("syntax")
          ELSE IF x THEN Executable(f) ELSE Skip(f)
  <2>1. Lexeme(t, i + k, d) = Comment(t, i + k, d)
    BY GuardsMoved, LexemeCases
  <2>2. CommentEnd(t, i + k, d) = f
    BY <1>2 DEF CommentEnd
  <2> HIDE DEF f, x
  <2> QED BY <1>5, <2>1, <2>2 DEF Comment
<1>8. o \in BOOLEAN /\ 1 \in Nat \ {0}
  BY DEF Nests
<1> HIDE DEF o, j, x
<1>9. /\ e = 0 \/ e \in j + 2 .. Len(s) + 1
      /\ f = 0 \/ f \in j + k + 2 .. Len(t) + 1
  <2>1. e = 0 \/ e \in j + 2 .. Len(s) + 1
    BY <1>2, <1>4, <1>8, CommentBounds
  <2> DEFINE m == j + k
  <2>2. m \in 1 .. Len(t) + 1
    BY <1>4
  <2> HIDE DEF m
  <2>3. CommentFrom(t, o)[<<m, 1>>] = 0 \/ CommentFrom(t, o)[<<m, 1>>] \in m + 2 .. Len(t) + 1
    BY <1>2, <1>8, <2>2, CommentBounds
  <2> QED BY <2>1, <2>3 DEF m
<1>10. Lexeme(s, i, d).kind \in Errors \/ Lexeme(s, i, d).next <= hi + 1
  BY ReadsFacts
<1>11. e # 0 => e <= hi + 1
  <2> HIDE DEF e
  <2> QED BY <1>6, <1>10, Forms
<1>12. e # 0 /\ e <= hi + 1 => f = e + k
  BY <1>1, <1>4, <1>8, CommentMoved
<1>13. e = 0 /\ SameEnd(s, t, k, hi) => f = 0
  <2> SUFFICES ASSUME e = 0, SameEnd(s, t, k, hi), f # 0 PROVE FALSE
    OBVIOUS
  <2>1. f \in j + k + 2 .. hi + k + 1 /\ hi = Len(s) /\ hi + k = Len(t)
    BY <1>9 DEF SameEnd
  <2> DEFINE n == -k
             a == i + k
             h == hi + k
             m == j + k
  <2>2. Window(t, s, n, a, h)
    BY <1>1, WindowBack
  <2>3. /\ m \in a .. h + 1 /\ m + n = j /\ n \in Int /\ f + n = f - k /\ f <= h + 1
    BY <1>2, <1>4, <2>1
  <2>5. CommentFrom(t, o)[<<m, 1>>] # 0 /\ CommentFrom(t, o)[<<m, 1>>] <= h + 1
    BY <2>3
  <2> HIDE DEF n, a, h, m
  <2>6. CommentFrom(s, o)[<<m + n, 1>>] = CommentFrom(t, o)[<<m, 1>>] + n
    BY <1>8, <2>2, <2>3, <2>5, CommentMoved
  <2>7. e = f - k
    BY <2>3, <2>6 DEF m
  <2> HIDE DEF e, f
  <2>8. f - k >= j + 2
    BY <1>2, <1>4, <2>1
  <2> QED BY <1>4, <2>7, <2>8
<1> HIDE DEF e, f
<1>14. CASE e # 0
  <2>1. f = e + k /\ f # 0
    <3>1. f = e + k
      BY <1>11, <1>12, <1>14
    <3>2. e \in j + 2 .. Len(s) + 1
      BY <1>9, <1>14
    <3>3. e + k # 0
      BY <1>2, <1>4, <3>2
    <3> QED BY <3>1, <3>3
  <2>2. /\ TurnMoved(Skip(e), k) = Skip(e + k)
        /\ TurnMoved(Executable(e), k) = Executable(e + k)
    BY FormsMoved
  <2> QED BY <1>6, <1>7, <1>14, <2>1, <2>2
<1>15. CASE e = 0
  <2>1. SameEnd(s, t, k, hi)
    <3> SUFFICES ASSUME EndsBefore(s, t, k, i, hi, d) PROVE FALSE
      BY DEF Reads
    <3>1. d = "sqlite" /\ Lexeme(s, i, d).next = Len(s) + 1
      BY <1>6, <1>15, Forms DEF EndsBefore
    <3>2. At(s, hi + 1) \in {":", "\\"}
      BY <3>1 DEF EndsBefore
    <3>3. hi = Len(s)
      BY <1>2, <3>1 DEF EndsBefore
    <3>4. At(s, Len(s) + 1) = "END"
      BY <1>2, AtText
    <3> QED BY <3>2, <3>3, <3>4
  <2>2. f = 0 /\ Len(t) + 1 = Len(s) + 1 + k
    BY <1>2, <1>13, <1>15, <2>1 DEF SameEnd
  <2>3. /\ TurnMoved(Skip(Len(s) + 1), k) = Skip(Len(s) + 1 + k)
        /\ TurnMoved(Fail("syntax"), k) = Fail("syntax")
    BY FormsMoved, Forms
  <2> QED BY <1>6, <1>7, <1>15, <2>2, <2>3
<1> QED BY <1>14, <1>15

(* So does dollar-quoted text. *)
LEMMA DollarTurnMoved ==
  ASSUME NEW s, NEW t, NEW k, NEW i, NEW hi, NEW d, Reads(s, t, k, i, hi, d),
         IsDollar(s, i, d)
  PROVE  Lexeme(t, i + k, d) = TurnMoved(Lexeme(s, i, d), k)
<1> DEFINE n == dollarDelimiter(s, i)
           C == Closers(s, i, n)
           E == Closers(t, i + k, n)
<1>1. /\ Window(s, t, k, i, hi) /\ i <= hi /\ i \in 1 .. Len(s)
      /\ At(s, hi + 1) \in EdgeMarks /\ At(t, hi + 1 + k) \in EdgeMarks
  BY ReadsFacts
<1>2. /\ s \in Texts /\ t \in Texts /\ k \in Int /\ hi \in Nat /\ i \in Nat
      /\ i \in 1 .. hi + 1 /\ hi <= Len(s) /\ i + k >= 1 /\ hi + k <= Len(t)
      /\ Len(s) \in Nat /\ Len(t) \in Nat /\ i + 1 + k = i + k + 1
  BY <1>1, WindowFacts
<1>3. dollarDelimiter(t, i + k) = n
  BY <1>1, DelimiterMoved
<1>4. At(t, i + k + 1) \in Digits <=> At(s, i + 1) \in Digits
  <2> DEFINE j == i + 1
  <2>1. j \in i .. hi + 1 /\ j + k = i + k + 1
    BY <1>1, <1>2
  <2> HIDE DEF j
  <2>2. At(t, j + k) \in Digits <=> At(s, j) \in Digits
    BY <2>1, EdgeSets, PeekSet
  <2> QED BY <2>1, <2>2 DEF j
<1>5. Lexeme(s, i, d) = IF n = 0
                        THEN IF At(s, i + 1) \in Digits THEN Fail("mixed") ELSE Skip(i + 1)
                        ELSE IF C = {} THEN Fail("syntax") ELSE Skip(Min(C) + n)
  <2>1. Lexeme(s, i, d) = Dollar(s, i)
    BY LexemeCases
  <2> QED BY <2>1 DEF Dollar
<1>6. Lexeme(t, i + k, d) = IF n = 0
                        THEN IF At(t, i + k + 1) \in Digits THEN Fail("mixed") ELSE Skip(i + k + 1)
                        ELSE IF E = {} THEN Fail("syntax") ELSE Skip(Min(E) + n)
  <2>1. Lexeme(t, i + k, d) = Dollar(t, i + k)
    BY GuardsMoved, LexemeCases
  <2> HIDE DEF n
  <2> QED BY <1>3, <2>1 DEF Dollar
<1>7. n # 0 => n \in Nat /\ n >= 1
  <2> HAVE n # 0
  <2>1. n \in Nat /\ n >= 2
    BY <1>1, <1>2, DelimiterBounds
  <2> HIDE DEF n
  <2> QED BY <2>1
<1> HIDE DEF n
<1>8. n # 0 /\ C # {} => Min(C) \in Nat /\ Min(C) + n <= Len(s) + 1
  <2> HAVE n # 0 /\ C # {}
  <2>1. C \in SUBSET (i + n .. Len(s) - n + 1)
    BY DEF Closers
  <2> HIDE DEF C
  <2>2. C \in SUBSET Nat
    BY <1>2, <1>7, <2>1
  <2>3. Min(C) \in C
    BY <2>2, MinNatural
  <2>4. Min(C) \in i + n .. Len(s) - n + 1 /\ Min(C) \in Nat
    BY <2>1, <2>2, <2>3
  <2>5. n \in Nat /\ Len(s) \in Nat
    BY <1>2, <1>7
  <2>6. \A m \in Nat : m <= Len(s) - n + 1 => m + n <= Len(s) + 1
    BY <2>5
  <2>7. \A m \in i + n .. Len(s) - n + 1 : m <= Len(s) - n + 1
    BY <1>2, <2>5
  <2> QED BY <2>4, <2>6, <2>7
<1>9. n # 0 /\ E # {} => Min(E) \in Nat /\ Min(E) + n <= Len(t) + 1
  <2> HAVE n # 0 /\ E # {}
  <2>1. E \in SUBSET (i + k + n .. Len(t) - n + 1)
    BY DEF Closers
  <2> HIDE DEF E
  <2>2. E \in SUBSET Nat
    BY <1>2, <1>7, <2>1
  <2>3. Min(E) \in E
    BY <2>2, MinNatural
  <2>4. Min(E) \in i + k + n .. Len(t) - n + 1 /\ Min(E) \in Nat
    BY <2>1, <2>2, <2>3
  <2>5. n \in Nat /\ Len(t) \in Nat
    BY <1>2, <1>7
  <2>6. \A m \in Nat : m <= Len(t) - n + 1 => m + n <= Len(t) + 1
    BY <2>5
  <2>7. \A m \in i + k + n .. Len(t) - n + 1 : m <= Len(t) - n + 1
    BY <1>2, <2>5
  <2> QED BY <2>4, <2>6, <2>7
<1>10. n # 0 /\ C # {} => Min(C) + n <= hi + 1
  <2>1. Lexeme(s, i, d).kind \in Errors \/ Lexeme(s, i, d).next <= hi + 1
    BY ReadsFacts
  <2> HIDE DEF C
  <2> QED BY <1>5, <2>1, Forms
<1>11. n # 0 /\ C # {} => E # {} /\ Min(E) = Min(C) + k
  BY <1>1, <1>7, <1>10, ClosersMoved
<1>12. n # 0 /\ C = {} /\ SameEnd(s, t, k, hi) => E = {}
  <2> SUFFICES ASSUME n # 0, C = {}, SameEnd(s, t, k, hi), E # {} PROVE FALSE
    OBVIOUS
  <2> DEFINE r == -k
             a == i + k
             h == hi + k
  <2>1. Window(t, s, r, a, h) /\ a <= h /\ a + r = i
    <3>1. Window(t, s, r, a, h)
      BY <1>1, WindowBack
    <3>2. a <= h /\ a + r = i
      BY <1>1, <1>2
    <3> QED BY <3>1, <3>2
  <2>2. Closers(t, a, n) # {} /\ Min(Closers(t, a, n)) + n <= h + 1
    BY <1>9 DEF SameEnd
  <2>3. n \in Nat /\ n >= 1
    BY <1>7
  <2> HIDE DEF r, a, h
  <2>4. Closers(s, a + r, n) # {}
    BY <2>1, <2>2, <2>3, ClosersMoved
  <2> QED BY <2>1, <2>4
<1> HIDE DEF C, E
<1>13. /\ TurnMoved(Skip(i + 1), k) = Skip(i + 1 + k)
       /\ TurnMoved(Skip(Min(C) + n), k) = Skip(Min(C) + n + k)
       /\ TurnMoved(Fail("syntax"), k) = Fail("syntax")
       /\ TurnMoved(Fail("mixed"), k) = Fail("mixed")
  BY FormsMoved, Forms
<1>14. CASE n = 0
  BY <1>2, <1>4, <1>5, <1>6, <1>13, <1>14
<1>15. CASE n # 0 /\ C = {}
  <2>1. SameEnd(s, t, k, hi)
    BY <1>5, <1>15, Forms DEF Reads, EndsBefore
  <2> QED BY <1>5, <1>6, <1>12, <1>13, <1>15, <2>1
<1>16. CASE n # 0 /\ C # {}
  <2>1. Min(E) + n = Min(C) + n + k
    BY <1>2, <1>7, <1>8, <1>11, <1>16
  <2> QED BY <1>5, <1>6, <1>11, <1>13, <1>16, <2>1
<1> QED BY <1>14, <1>15, <1>16

(* A part of what reads the same is the same text. *)
Part(s, a, b) == SubSeq(s, a, b)

(* A part of the window is the same. *)
LEMMA PartMoved ==
  ASSUME NEW s, NEW t, NEW k, NEW i, NEW hi, Window(s, t, k, i, hi),
         NEW a \in i .. hi + 1, NEW b \in a - 1 .. hi
  PROVE  Part(t, a + k, b + k) = Part(s, a, b)
<1>1. /\ s \in Texts /\ t \in Texts /\ k \in Int /\ hi \in Nat /\ i \in Nat
      /\ i \in 1 .. hi + 1 /\ hi <= Len(s) /\ i + k >= 1 /\ hi + k <= Len(t)
      /\ Len(s) \in Nat /\ Len(t) \in Nat
      /\ \A j \in i .. hi : At(t, j + k) = At(s, j)
  BY WindowFacts
<1> DEFINE p == SubSeq(s, a, b)
           q == SubSeq(t, a + k, b + k)
<1>2. /\ p \in Texts /\ Len(p) = b - a + 1
      /\ \A j \in Int : At(p, j) = IF j \in 1 .. b - a + 1 THEN At(s, a + j - 1) ELSE "END"
  <2>1. a \in 1 .. Len(s) + 1 /\ b \in 0 .. Len(s) /\ a <= b + 1
    BY <1>1
  <2> QED BY <1>1, <2>1, PartText
<1>3. /\ q \in Texts /\ Len(q) = b - a + 1
      /\ \A j \in Int : At(q, j) = IF j \in 1 .. b - a + 1 THEN At(t, a + k + j - 1) ELSE "END"
  <2> DEFINE x == a + k
             y == b + k
  <2>1. x \in 1 .. Len(t) + 1 /\ y \in 0 .. Len(t) /\ x <= y + 1 /\ y - x + 1 = b - a + 1
    BY <1>1
  <2> HIDE DEF x, y
  <2>2. /\ SubSeq(t, x, y) \in Texts /\ Len(SubSeq(t, x, y)) = y - x + 1
        /\ \A j \in Int : At(SubSeq(t, x, y), j) = IF j \in 1 .. y - x + 1 THEN At(t, x + j - 1) ELSE "END"
    BY <1>1, <2>1, PartText
  <2> QED BY <2>1, <2>2 DEF x, y
<1> HIDE DEF p, q
<1>4. \A j \in 1 .. Len(p) : At(p, j) = At(q, j)
  <2> TAKE j \in 1 .. Len(p)
  <2>1. j \in Int /\ j \in 1 .. b - a + 1 /\ a + j - 1 \in i .. hi /\ a + j - 1 + k = a + k + j - 1
    BY <1>1, <1>2
  <2> QED BY <1>1, <1>2, <1>3, <2>1
<1>5. p = q
  BY <1>2, <1>3, <1>4, TextEqual
<1> QED BY <1>5 DEF p, q, Part

(* A parameter has the same name. *)
LEMMA ColonTurnMoved ==
  ASSUME NEW s, NEW t, NEW k, NEW i, NEW hi, NEW d, Reads(s, t, k, i, hi, d),
         IsColon(s, i)
  PROVE  Lexeme(t, i + k, d) = TurnMoved(Lexeme(s, i, d), k)
<1> DEFINE j == i + 1
           next == After(s, j, IdentifierParts)
           name == SubSeq(s, j, next - 1)
           next2 == After(t, j + k, IdentifierParts)
           name2 == SubSeq(t, j + k, next2 - 1)
<1>1. /\ Window(s, t, k, i, hi) /\ i <= hi
      /\ At(s, hi + 1) \in EdgeMarks /\ At(t, hi + 1 + k) \in EdgeMarks
  BY ReadsFacts
<1>2. /\ k \in Int /\ hi \in Nat /\ i \in Nat /\ j + k = i + k + 1 /\ i + 2 + k = i + k + 2
      /\ j \in i .. hi + 1 /\ j = i + 1
  BY <1>1, WindowFacts
<1>3. Lexeme(s, i, d) = IF At(s, j) \in {":", "="} THEN Skip(i + 2)
                        ELSE IF ~nameStart(At(s, j)) THEN Skip(j)
                        ELSE IF ~validName(name) THEN Fail("invalid")
                        ELSE Parameter(next, name)
  <2>1. Lexeme(s, i, d) = Colon(s, i)
    BY LexemeCases
  <2> QED BY <2>1 DEF Colon
<1>4. Lexeme(t, i + k, d) = IF At(t, j + k) \in {":", "="} THEN Skip(i + k + 2)
                            ELSE IF ~nameStart(At(t, j + k)) THEN Skip(j + k)
                            ELSE IF ~validName(name2) THEN Fail("invalid")
                            ELSE Parameter(next2, name2)
  <2>1. Lexeme(t, i + k, d) = Colon(t, i + k)
    BY GuardsMoved, LexemeCases
  <2>2. i + k + 1 = j + k
    BY <1>2
  <2> HIDE DEF j
  <2> QED BY <2>1, <2>2 DEF Colon
<1>5. At(t, j + k) \in {":", "="} <=> At(s, j) \in {":", "="}
  <2>1. At(t, j + k) = ":" <=> At(s, j) = ":"
    <3>1. At(t, i + k + 1) = ":" <=> At(s, i + 1) = ":"
      BY PeekColon DEF IsColon
    <3> QED BY <1>2, <3>1
  <2>2. At(t, j + k) = "=" <=> At(s, j) = "="
    <3>1. "=" \notin EdgeMarks
      BY DEF EdgeMarks
    <3> HIDE DEF j
    <3> QED BY <1>2, <3>1, PeekChar
  <2> QED BY <2>1, <2>2
<1>6. nameStart(At(t, j + k)) <=> nameStart(At(s, j))
  <2>1. At(t, j + k) \in NameStarts <=> At(s, j) \in NameStarts
    <3> HIDE DEF j
    <3> QED BY <1>2, EdgeSets, PeekSet
  <2> QED BY <2>1 DEF nameStart
<1>7. next \in j .. hi + 1 /\ next2 = next + k
  <2>1. "END" \notin IdentifierParts /\ At(s, hi + 1) \notin IdentifierParts
        /\ At(t, hi + 1 + k) \notin IdentifierParts
    <3>1. "END" \in EdgeMarks
      BY DEF EdgeMarks
    <3> QED BY <1>1, <3>1, EdgeSets
  <2> HIDE DEF j
  <2> QED BY <1>1, <1>2, <2>1, AfterMoved
<1> HIDE DEF next2
<1>8. name2 = name
  <2> DEFINE b == next - 1
  <2>1. b \in j - 1 .. hi /\ next2 - 1 = b + k
    BY <1>2, <1>7
  <2>3. j \in i .. hi + 1
    BY <1>2
  <2> HIDE DEF b, j
  <2>2. Part(t, j + k, b + k) = Part(s, j, b)
    BY <1>1, <2>1, <2>3, PartMoved
  <2> QED BY <2>1, <2>2 DEF b, Part
<1> HIDE DEF name2
<1>9. /\ TurnMoved(Skip(i + 2), k) = Skip(i + 2 + k)
      /\ TurnMoved(Skip(j), k) = Skip(j + k)
      /\ TurnMoved(Parameter(next, name), k) = Parameter(next + k, name)
      /\ TurnMoved(Fail("invalid"), k) = Fail("invalid")
  BY FormsMoved, Forms
<1> HIDE DEF j, next, name
<1> QED BY <1>2, <1>3, <1>4, <1>5, <1>6, <1>7, <1>8, <1>9

(* A turn at an at sign is the same. *)
LEMMA AtSignTurnMoved ==
  ASSUME NEW s, NEW t, NEW k, NEW i, NEW hi, NEW d, Reads(s, t, k, i, hi, d),
         IsAtSign(s, i, d)
  PROVE  Lexeme(t, i + k, d) = TurnMoved(Lexeme(s, i, d), k)
<1> DEFINE j == i + 1
           m == i + 2
           next == After(s, m, IdentifierParts)
           next2 == After(t, m + k, IdentifierParts)
           digits == After(s, m, Digits)
           digits2 == After(t, m + k, Digits)
<1>1. /\ Window(s, t, k, i, hi) /\ i <= hi
      /\ At(s, hi + 1) \in EdgeMarks /\ At(t, hi + 1 + k) \in EdgeMarks
  BY ReadsFacts
<1>2. /\ k \in Int /\ hi \in Nat /\ i \in Nat /\ j + k = i + k + 1 /\ m + k = i + k + 2
      /\ j \in i .. hi + 1 /\ (j \in i .. hi => m \in i .. hi + 1) /\ j = i + 1 /\ m = i + 2
  BY <1>1, WindowFacts
<1>3. Lexeme(s, i, d) = IF At(s, j) = "@" THEN Skip(next)
                        ELSE IF At(s, j) \in {"p", "P"} /\ digits > m /\ ~identifierPart(At(s, digits))
                        THEN Fail("mixed") ELSE Skip(j)
  <2>1. Lexeme(s, i, d) = AtSign(s, i)
    BY LexemeCases
  <2> QED BY <2>1 DEF AtSign
<1>4. Lexeme(t, i + k, d)
        = IF At(t, j + k) = "@" THEN Skip(next2)
          ELSE IF At(t, j + k) \in {"p", "P"} /\ digits2 > m + k /\ ~identifierPart(At(t, digits2))
          THEN Fail("mixed") ELSE Skip(j + k)
  <2>1. Lexeme(t, i + k, d) = AtSign(t, i + k)
    BY GuardsMoved, LexemeCases
  <2>2. i + k + 1 = j + k /\ i + k + 2 = m + k
    BY <1>2
  <2> HIDE DEF j, m
  <2> QED BY <2>1, <2>2 DEF AtSign
<1>5. /\ At(t, j + k) = "@" <=> At(s, j) = "@"
      /\ At(s, j) = "@" => j \in i .. hi
  <2>1. "@" \notin EdgeMarks
    BY DEF EdgeMarks
  <2> HIDE DEF j
  <2> QED BY <1>2, <2>1, PeekChar
<1>6. /\ At(t, j + k) \in {"p", "P"} <=> At(s, j) \in {"p", "P"}
      /\ At(s, j) \in {"p", "P"} => j \in i .. hi
  <2> DEFINE P == {"p", "P"}
  <2>1. P \cap EdgeMarks = {} /\ j \in i .. hi + 1
    BY <1>2, EdgeSets
  <2> HIDE DEF j, P
  <2>2. /\ At(t, j + k) \in P <=> At(s, j) \in P
        /\ At(s, j) \in P => j \in i .. hi
    BY <2>1, PeekSet
  <2> QED BY <2>2 DEF P
<1>7. j \in i .. hi => /\ next2 = next + k
                       /\ digits \in m .. hi + 1 /\ digits2 = digits + k
                       /\ identifierPart(At(t, digits2)) <=> identifierPart(At(s, digits))
  <2> HAVE j \in i .. hi
  <2>0. /\ m \in i .. hi + 1 /\ "END" \in EdgeMarks
        /\ IdentifierParts \cap EdgeMarks = {} /\ Digits \cap EdgeMarks = {}
    BY <1>2, EdgeSets DEF EdgeMarks
  <2> HIDE DEF m, j
  <2>1. next2 = next + k
    <3>1. "END" \notin IdentifierParts /\ At(s, hi + 1) \notin IdentifierParts
          /\ At(t, hi + 1 + k) \notin IdentifierParts
      BY <1>1, <2>0
    <3> QED BY <1>1, <2>0, <3>1, AfterMoved
  <2>2. digits \in m .. hi + 1 /\ digits2 = digits + k
    <3>1. "END" \notin Digits /\ At(s, hi + 1) \notin Digits /\ At(t, hi + 1 + k) \notin Digits
      BY <1>1, <2>0
    <3> QED BY <1>1, <2>0, <3>1, AfterMoved
  <2> HIDE DEF digits, digits2
  <2>3. digits \in i .. hi + 1
    BY <1>2, <2>0, <2>2
  <2>4. At(t, digits + k) \in IdentifierParts <=> At(s, digits) \in IdentifierParts
    BY <2>0, <2>3, PeekSet
  <2> QED BY <2>1, <2>2, <2>4 DEF identifierPart
<1>8. /\ TurnMoved(Skip(next), k) = Skip(next + k)
      /\ TurnMoved(Skip(j), k) = Skip(j + k)
      /\ TurnMoved(Fail("mixed"), k) = Fail("mixed")
  BY FormsMoved, Forms
<1> HIDE DEF next, next2, digits, digits2, j
<1>9. CASE At(s, j) = "@"
  BY <1>3, <1>4, <1>5, <1>7, <1>8, <1>9
<1>10. CASE At(s, j) # "@" /\ At(s, j) \in {"p", "P"}
  <2>1. digits2 > m + k <=> digits > m
    <3>1. digits \in m .. hi + 1 /\ digits2 = digits + k
      BY <1>6, <1>7, <1>10
    <3> QED BY <1>2, <3>1
  <2> HIDE DEF m
  <2> QED BY <1>3, <1>4, <1>5, <1>6, <1>7, <1>8, <1>10, <2>1
<1>11. CASE At(s, j) # "@" /\ At(s, j) \notin {"p", "P"}
  BY <1>3, <1>4, <1>5, <1>6, <1>8, <1>11
<1> QED BY <1>9, <1>10, <1>11

(* A turn finds the same in both. *)
LEMMA LexemeMoved ==
  ASSUME NEW s, NEW t, NEW k, NEW i, NEW hi, NEW d, Reads(s, t, k, i, hi, d)
  PROVE  Lexeme(t, i + k, d) = TurnMoved(Lexeme(s, i, d), k)
<1>1. Window(s, t, k, i, hi)
  BY ReadsFacts
<1>2. i \in Nat /\ k \in Int /\ i + 2 + k = i + k + 2 /\ i + 1 + k = i + k + 1
  BY <1>1, WindowFacts
<1>3. /\ TurnMoved(Parameter(i + 2, <<>>), k) = Parameter(i + 2 + k, <<>>)
      /\ TurnMoved(Skip(i + 1), k) = Skip(i + 1 + k)
      /\ TurnMoved(Fail("mixed"), k) = Fail("mixed")
  BY FormsMoved, Forms
<1>4. CASE IsEscape(s, i)
  <2>1. Lexeme(s, i, d) = Parameter(i + 2, <<>>)
    BY <1>4, LexemeCases
  <2>2. Lexeme(t, i + k, d) = Parameter(i + k + 2, <<>>)
    BY <1>4, GuardsMoved, LexemeCases
  <2> QED BY <1>2, <1>3, <2>1, <2>2
<1>5. CASE IsNative(s, i, d)
  <2>1. Lexeme(s, i, d) = Fail("mixed")
    BY <1>5, LexemeCases
  <2>2. Lexeme(t, i + k, d) = Fail("mixed")
    BY <1>5, GuardsMoved, LexemeCases
  <2> QED BY <1>3, <2>1, <2>2
<1>6. CASE IsPlain(s, i, d)
  <2>1. Lexeme(s, i, d) = Skip(i + 1)
    BY <1>6, LexemeCases
  <2>2. Lexeme(t, i + k, d) = Skip(i + k + 1)
    BY <1>6, GuardsMoved, LexemeCases
  <2> QED BY <1>2, <1>3, <2>1, <2>2
<1>7. CASE ~(IsEscape(s, i) \/ IsNative(s, i, d) \/ IsPlain(s, i, d))
  BY <1>7, QuoteTurnMoved, DashTurnMoved, HashTurnMoved, CommentTurnMoved, DollarTurnMoved,
     ColonTurnMoved, AtSignTurnMoved DEF IsPlain
<1> QED BY <1>4, <1>5, <1>6, <1>7

-----------------------------------------------------------------------------
(* Texts that read alike yield alike: a scan.                              *)

(* What is found, k characters further on. *)
Shift(r, k) == Found(r.err, Moved(r.tokens, k))

(* A token k characters further on. *)
TokenMoved(t, k) == [start |-> t.start + k, next |-> t.next + k, name |-> t.name]

(* Tokens moved are tokens, as many, each of them moved. *)
LEMMA MovedTokens ==
  ASSUME NEW ts \in Seq(Token), NEW k \in Nat
  PROVE  /\ Moved(ts, k) \in Seq(Token) /\ Len(Moved(ts, k)) = Len(ts)
         /\ \A n \in 1 .. Len(ts) : Moved(ts, k)[n] = TokenMoved(ts[n], k)
         /\ Moved(ts, k) = <<>> <=> ts = <<>>
<1>1. Len(ts) \in Nat /\ DOMAIN ts = 1 .. Len(ts) /\ \A n \in 1 .. Len(ts) : ts[n] \in Token
  OBVIOUS
<1>2. \A x \in Token : TokenMoved(x, k) \in Token
  BY DEF Token, TokenMoved
<1>3. Moved(ts, k) = [n \in 1 .. Len(ts) |-> TokenMoved(ts[n], k)]
  BY <1>1 DEF Moved, TokenMoved
<1>4. /\ Moved(ts, k) \in Seq(Token) /\ Len(Moved(ts, k)) = Len(ts)
      /\ \A n \in 1 .. Len(ts) : Moved(ts, k)[n] = TokenMoved(ts[n], k)
  <2> HIDE DEF TokenMoved, Moved, Token
  <2> QED BY <1>1, <1>2, <1>3
<1>5. Moved(ts, k) = <<>> <=> ts = <<>>
  <2> HIDE DEF Moved, Token
  <2> QED BY <1>1, <1>4
<1> QED BY <1>4, <1>5

(* A token before others, moved. *)
LEMMA MovedCons ==
  ASSUME NEW x \in Token, NEW ts \in Seq(Token), NEW k \in Nat
  PROVE  Moved(<<x>> \o ts, k) = <<TokenMoved(x, k)>> \o Moved(ts, k)
<1> DEFINE u == <<x>> \o ts
           v == <<TokenMoved(x, k)>> \o Moved(ts, k)
           n == Len(ts)
<1>1. /\ u \in Seq(Token) /\ Len(u) = n + 1 /\ u[1] = x
      /\ \A m \in 2 .. n + 1 : u[m] = ts[m - 1] /\ m - 1 \in 1 .. n
  BY ConsElements
<1>2. TokenMoved(x, k) \in Token
  BY DEF Token, TokenMoved
<1>3. /\ Moved(ts, k) \in Seq(Token) /\ Len(Moved(ts, k)) = n
      /\ \A m \in 1 .. n : Moved(ts, k)[m] = TokenMoved(ts[m], k)
  BY MovedTokens
<1>4. /\ v \in Seq(Token) /\ Len(v) = n + 1 /\ v[1] = TokenMoved(x, k)
      /\ \A m \in 2 .. n + 1 : v[m] = Moved(ts, k)[m - 1]
  <2> HIDE DEF Moved, TokenMoved
  <2> QED BY <1>2, <1>3, ConsElements
<1> HIDE DEF u, v
<1>5. /\ Moved(u, k) \in Seq(Token) /\ Len(Moved(u, k)) = n + 1
      /\ \A m \in 1 .. n + 1 : Moved(u, k)[m] = TokenMoved(u[m], k)
  BY <1>1, MovedTokens
<1> DEFINE w == Moved(u, k)
           z == Moved(ts, k)
<1> HIDE DEF w, z
<1>6. n \in Nat
  BY DEF n
<1> HIDE DEF n
<1>7. \A m \in 1 .. n + 1 : w[m] = v[m]
  <2> TAKE m \in 1 .. n + 1
  <2>1. CASE m = 1
    BY <1>1, <1>4, <1>5, <2>1 DEF w
  <2>2. CASE m # 1
    <3>1. m \in 2 .. n + 1
      BY <1>6, <2>2
    <3> QED BY <1>1, <1>3, <1>4, <1>5, <3>1 DEF w, z
  <2> QED BY <2>1, <2>2
<1>8. w = v
  BY <1>4, <1>5, <1>7, SeqEqual DEF w
<1> QED BY <1>8 DEF u, v, w

(* What is found, moved, is what may be found. *)
LEMMA ShiftResults ==
  ASSUME NEW r \in Results, NEW k \in Nat
  PROVE  /\ Shift(r, k) \in Results /\ Shift(r, k).err = r.err
         /\ Shift(r, k).tokens = Moved(r.tokens, k)
         /\ Shift(r, k) = Nothing <=> r = Nothing
<1>1. r.tokens \in Seq(Token) /\ r.err \in Errors \cup {NoError} /\ r = Found(r.err, r.tokens)
  BY DEF Results, Found
<1>2. /\ Moved(r.tokens, k) \in Seq(Token)
      /\ Moved(r.tokens, k) = <<>> <=> r.tokens = <<>>
  BY <1>1, MovedTokens
<1> HIDE DEF Moved
<1>3. Shift(r, k) \in Results /\ Shift(r, k).err = r.err
      /\ Shift(r, k).tokens = Moved(r.tokens, k)
  BY <1>1, <1>2 DEF Shift, Found, Results
<1>4. Shift(r, k) = Nothing <=> r = Nothing
  <2>1. r = Nothing <=> r.err = NoError /\ r.tokens = <<>>
    BY <1>1 DEF Nothing, Found
  <2>2. Shift(r, k) = Nothing <=> r.err = NoError /\ Moved(r.tokens, k) = <<>>
    BY DEF Shift, Nothing, Found
  <2> QED BY <1>2, <2>1, <2>2
<1> QED BY <1>3, <1>4

(* What a turn and the rest of the text yield moves with them. *)
LEMMA JoinedMoved ==
  ASSUME NEW i \in Nat, NEW k \in Nat, NEW t,
         t.kind \notin Errors => t.next \in Nat,
         t.kind = "token" => t.name \in Seq(Bytes),
         NEW inner, t.kind = "executable" => inner \in Results,
         NEW rest, t.kind \notin Errors => rest \in Results
  PROVE  Joined(i + k, TurnMoved(t, k), Shift(inner, k), Shift(rest, k))
           = Shift(Joined(i, t, inner, rest), k)
<1> DEFINE m == TurnMoved(t, k)
<1>0. Moved(<<>>, k) = <<>>
  <2>1. <<>> \in Seq(Token)
    OBVIOUS
  <2> QED BY <2>1, MovedTokens
<1>1. CASE t.kind \in Errors
  <2>1. m = t
    BY <1>1 DEF TurnMoved
  <2>2. Joined(i, t, inner, rest) = Found(t.kind, <<>>)
    BY <1>1 DEF Joined
  <2>3. Joined(i + k, t, Shift(inner, k), Shift(rest, k)) = Found(t.kind, <<>>)
    BY <1>1 DEF Joined
  <2>4. Shift(Found(t.kind, <<>>), k) = Found(t.kind, <<>>)
    BY <1>0 DEF Shift, Found
  <2> QED BY <2>1, <2>2, <2>3, <2>4
<1>2. CASE t.kind \notin Errors
  <2>1. m.kind = t.kind /\ m.next = t.next + k /\ m.name = t.name
    BY <1>2 DEF TurnMoved, Turn
  <2> HIDE DEF m
  <2>2. CASE t.kind = "executable" /\ inner # Nothing
    <3>1. inner \in Results /\ Shift(inner, k) # Nothing /\ Shift(inner, k).err = inner.err
      BY <2>2, ShiftResults
    <3> DEFINE err == IF inner.err = NoError THEN "syntax" ELSE inner.err
    <3>2. Joined(i, t, inner, rest) = Found(err, <<>>)
      BY <1>2, <2>2 DEF Joined
    <3>3. Joined(i + k, m, Shift(inner, k), Shift(rest, k)) = Found(err, <<>>)
      <4> HIDE DEF Shift
      <4> QED BY <1>2, <2>1, <2>2, <3>1 DEF Joined
    <3>4. Shift(Found(err, <<>>), k) = Found(err, <<>>)
      <4> HIDE DEF err
      <4> QED BY <1>0 DEF Shift, Found
    <3> QED BY <3>2, <3>3, <3>4 DEF m
  <2>3. CASE t.kind = "token"
    <3> DEFINE x == [start |-> i, next |-> t.next, name |-> t.name]
    <3>1. rest \in Results /\ x \in Token
      BY <1>2, <2>3 DEF Token
    <3>2. rest.tokens \in Seq(Token) /\ Shift(rest, k).err = rest.err
          /\ Shift(rest, k).tokens = Moved(rest.tokens, k)
      BY <3>1, ShiftResults DEF Results
    <3>3. TokenMoved(x, k) = [start |-> i + k, next |-> m.next, name |-> m.name]
      BY <2>1 DEF TokenMoved
    <3> HIDE DEF x
    <3>4. Joined(i, t, inner, rest) = Preceded(x, rest)
      BY <1>2, <2>3 DEF Joined, x
    <3>5. Joined(i + k, m, Shift(inner, k), Shift(rest, k)) = Preceded(TokenMoved(x, k), Shift(rest, k))
      <4> HIDE DEF Shift, TokenMoved
      <4> QED BY <1>2, <2>1, <2>3, <3>3 DEF Joined
    <3>6. Moved(<<x>> \o rest.tokens, k) = <<TokenMoved(x, k)>> \o Moved(rest.tokens, k)
      BY <3>1, <3>2, MovedCons
    <3>7. CASE rest.err # NoError
      <4>1. Preceded(x, rest) = rest
        BY <3>7 DEF Preceded
      <4>2. Preceded(TokenMoved(x, k), Shift(rest, k)) = Shift(rest, k)
        BY <3>2, <3>7 DEF Preceded
      <4> QED BY <3>4, <3>5, <4>1, <4>2 DEF m
    <3>8. CASE rest.err = NoError
      <4>1. Preceded(x, rest) = Found(NoError, <<x>> \o rest.tokens)
        BY <3>8 DEF Preceded
      <4>2. Preceded(TokenMoved(x, k), Shift(rest, k))
              = Found(NoError, <<TokenMoved(x, k)>> \o Moved(rest.tokens, k))
        <5> HIDE DEF Shift, TokenMoved, Moved
        <5> QED BY <3>2, <3>8 DEF Preceded
      <4>3. Shift(Found(NoError, <<x>> \o rest.tokens), k)
              = Found(NoError, Moved(<<x>> \o rest.tokens, k))
        BY DEF Shift, Found
      <4> QED BY <3>4, <3>5, <3>6, <4>1, <4>2, <4>3, Zenon DEF m
    <3> QED BY <3>7, <3>8
  <2>4. CASE t.kind # "token" /\ ~(t.kind = "executable" /\ inner # Nothing)
    <3>1. Joined(i, t, inner, rest) = rest
      BY <1>2, <2>4 DEF Joined
    <3>2. t.kind = "executable" => Shift(inner, k) = Nothing
      BY <2>4, ShiftResults
    <3>3. Joined(i + k, m, Shift(inner, k), Shift(rest, k)) = Shift(rest, k)
      <4> HIDE DEF Shift
      <4> QED BY <1>2, <2>1, <2>4, <3>2 DEF Joined
    <3> QED BY <3>1, <3>3 DEF m
  <2> QED BY <2>2, <2>3, <2>4
<1> QED BY <1>1, <1>2

(* What stands before a position is the same after text that is. *)
LEMMA BehindMoved ==
  ASSUME NEW s, NEW t, NEW k, NEW lo, NEW hi, Window(s, t, k, lo, hi),
         SameBehind(s, lo, t, lo + k), NEW i \in lo .. hi + 1
  PROVE  SameBehind(s, i, t, i + k)
<1>1. /\ k \in Int /\ hi \in Nat /\ lo \in Nat /\ i \in Nat
      /\ \A j \in lo .. hi : At(t, j + k) = At(s, j)
  BY WindowFacts
<1>2. CASE i = lo
  BY <1>2
<1>3. CASE i = lo + 1
  <2>1. /\ i - 1 \in lo .. hi /\ i - 1 + k = (i + k) - 1 /\ i - 2 = lo - 1
        /\ (i + k) - 2 = (lo + k) - 1
    BY <1>1, <1>3
  <2>2. At(t, (i + k) - 1) = At(s, i - 1)
    BY <1>1, <2>1
  <2>3. identifierPart(At(s, i - 2)) <=> identifierPart(At(t, (i + k) - 2))
    BY <2>1 DEF SameBehind
  <2> QED BY <2>2, <2>3 DEF SameBehind
<1>4. CASE i > lo + 1
  <2>1. /\ i - 1 \in lo .. hi /\ i - 1 + k = (i + k) - 1
        /\ i - 2 \in lo .. hi /\ i - 2 + k = (i + k) - 2
    BY <1>1, <1>4
  <2>2. At(t, (i + k) - 1) = At(s, i - 1) /\ At(t, (i + k) - 2) = At(s, i - 2)
    BY <1>1, <2>1
  <2> QED BY <2>2 DEF SameBehind
<1> QED BY <1>1, <1>2, <1>3, <1>4

(* Texts cut at the end of what reads the same read the same in full. *)
LEMMA CutReads ==
  ASSUME NEW s, NEW t, NEW k, NEW lo, NEW hi, NEW d \in Dialects, Window(s, t, k, lo, hi),
         SameBehind(s, lo, t, lo + k), NEW i \in lo .. hi, NEW q \in i .. hi
  PROVE  Reads(Cut(s, q), Cut(t, q + k), k, i, q, d)
<1> DEFINE a == Cut(s, q)
           b == Cut(t, q + k)
<1>1. /\ s \in Texts /\ t \in Texts /\ k \in Int /\ hi \in Nat /\ lo \in Nat
      /\ lo \in 1 .. hi + 1 /\ hi <= Len(s) /\ lo + k >= 1 /\ hi + k <= Len(t)
      /\ Len(s) \in Nat /\ Len(t) \in Nat
      /\ \A j \in lo .. hi : At(t, j + k) = At(s, j)
  BY WindowFacts
<1>2. i \in Nat /\ q \in Nat /\ i <= q /\ q <= hi /\ lo <= i
  BY <1>1
<1>3. /\ a \in Texts /\ Len(a) = q
      /\ \A j \in Int : At(a, j) = IF j \in 1 .. q THEN At(s, j) ELSE "END"
  <2>1. q \in 0 .. Len(s)
    BY <1>1, <1>2
  <2> QED BY <1>1, <2>1, CutText
<1>4. /\ b \in Texts /\ Len(b) = q + k
      /\ \A j \in Int : At(b, j) = IF j \in 1 .. q + k THEN At(t, j) ELSE "END"
  <2> DEFINE m == q + k
  <2>1. m \in 0 .. Len(t)
    BY <1>1, <1>2
  <2> HIDE DEF m
  <2>2. /\ Cut(t, m) \in Texts /\ Len(Cut(t, m)) = m
        /\ \A j \in Int : At(Cut(t, m), j) = IF j \in 1 .. m THEN At(t, j) ELSE "END"
    BY <1>1, <2>1, CutText
  <2> QED BY <2>2 DEF m
<1> HIDE DEF a, b
<1>5. \A j \in Int : j <= q => At(a, j) = At(s, j)
  <2> TAKE j \in Int
  <2> HAVE j <= q
  <2>1. CASE j \in 1 .. q
    BY <1>3, <2>1
  <2>2. CASE j \notin 1 .. q
    <3>1. j \notin 1 .. Len(s)
      BY <1>1, <1>2, <2>2
    <3>2. At(s, j) = "END"
      BY <1>1, <3>1, AtText
    <3> QED BY <1>3, <2>2, <3>2
  <2> QED BY <2>1, <2>2
<1>6. \A j \in Int : j <= q + k => At(b, j) = At(t, j)
  <2> TAKE j \in Int
  <2> HAVE j <= q + k
  <2>1. CASE j \in 1 .. q + k
    BY <1>4, <2>1
  <2>2. CASE j \notin 1 .. q + k
    <3>1. j \notin 1 .. Len(t)
      BY <1>1, <1>2, <2>2
    <3>2. At(t, j) = "END"
      BY <1>1, <3>1, AtText
    <3> QED BY <1>4, <2>2, <3>2
  <2> QED BY <2>1, <2>2
<1>7. Window(a, b, k, i, q)
  <2>1. \A j \in i .. q : At(b, j + k) = At(a, j)
    <3> TAKE j \in i .. q
    <3>1. j \in Int /\ j <= q /\ j + k \in Int /\ j + k <= q + k /\ j \in lo .. hi
      BY <1>1, <1>2
    <3> QED BY <1>1, <1>5, <1>6, <3>1
  <2>2. i \in 1 .. q + 1 /\ q <= q /\ i + k >= 1 /\ q + k <= q + k
    BY <1>1, <1>2
  <2> QED BY <1>1, <1>2, <1>3, <1>4, <2>1, <2>2 DEF Window
<1>8. SameBehind(a, i, b, i + k)
  <2>1. SameBehind(s, i, t, i + k)
    <3>1. i \in lo .. hi + 1
      BY <1>1
    <3> QED BY <3>1, BehindMoved
  <2>2. /\ At(a, i - 1) = At(s, i - 1) /\ At(a, i - 2) = At(s, i - 2)
        /\ At(b, (i + k) - 1) = At(t, (i + k) - 1) /\ At(b, (i + k) - 2) = At(t, (i + k) - 2)
    <3>1. /\ i - 1 \in Int /\ i - 1 <= q /\ i - 2 \in Int /\ i - 2 <= q
          /\ (i + k) - 1 \in Int /\ (i + k) - 1 <= q + k
          /\ (i + k) - 2 \in Int /\ (i + k) - 2 <= q + k
      BY <1>1, <1>2
    <3> QED BY <1>5, <1>6, <3>1
  <2> QED BY <2>1, <2>2 DEF SameBehind
<1>9. SameEnd(a, b, k, q)
  BY <1>3, <1>4 DEF SameEnd
<1> QED BY <1>2, <1>7, <1>8, <1>9 DEF Reads, a, b

(* Two texts are read the same from lo to hi and from lo + k to hi + k. *)
Aligned(s, t, k, lo, hi) ==
  k \in Nat /\ Window(s, t, k, lo, hi) /\ SameBehind(s, lo, t, lo + k)

(* What is found in two texts is the same there. *)
FoundAlike(s, t, k, lo, hi) ==
  \A d \in Dialects : \A i \in lo .. hi + 1 : \A q \in 0 .. hi :
    FoundIn(t, d)[<<i + k, q + k>>] = Shift(FoundIn(s, d)[<<i, q>>], k)

(* What is found in a part of a text is found where that part stands in
   another one. *)
LEMMA FoundMoved ==
  ASSUME NEW s, NEW t, NEW k, NEW lo, NEW hi, Aligned(s, t, k, lo, hi)
  PROVE  FoundAlike(s, t, k, lo, hi)
<1> SUFFICES ASSUME k \in Nat, Window(s, t, k, lo, hi), SameBehind(s, lo, t, lo + k),
                    NEW d \in Dialects, NEW i0 \in lo .. hi + 1, NEW q0 \in 0 .. hi
             PROVE  FoundIn(t, d)[<<i0 + k, q0 + k>>] = Shift(FoundIn(s, d)[<<i0, q0>>], k)
  BY DEF Aligned, FoundAlike
<1> DEFINE f == FoundIn(s, d)
           g == FoundIn(t, d)
           Good(i) == i >= lo => \A q \in 0 .. hi : g[<<i + k, q + k>>] = Shift(f[<<i, q>>], k)
           S == {i \in 1 .. hi + 1 : Good(i)}
<1>1. /\ s \in Texts /\ t \in Texts /\ k \in Int /\ hi \in Nat /\ lo \in Nat
      /\ lo \in 1 .. hi + 1 /\ hi <= Len(s) /\ lo + k >= 1 /\ hi + k <= Len(t)
      /\ Len(s) \in Nat /\ Len(t) \in Nat
  BY WindowFacts
<1>2. /\ \A i \in 1 .. Len(s) + 1, q \in 0 .. Len(s) : f[<<i, q>>] \in Results
      /\ \A i \in 1 .. Len(s) + 1, q \in 0 .. Len(s) : i > q => f[<<i, q>>] = Nothing
      /\ \A i \in 1 .. Len(s), q \in 0 .. Len(s) :
           i <= q => f[<<i, q>>] = Joined(i, Lexeme(Cut(s, q), i, d),
                                          f[<<i + 3, Lexeme(Cut(s, q), i, d).next - 3>>],
                                          f[<<Lexeme(Cut(s, q), i, d).next, q>>])
  <2>1. FoundEquation(f, s, d)
    BY <1>1, FoundRecursion
  <2> HIDE DEF f
  <2> QED BY <2>1 DEF FoundEquation
<1>0. \A i \in 1 .. Len(s) + 1, q \in 0 .. Len(s) : f[<<i, q>>] \in Results
  BY <1>2
<1>3. /\ \A i \in 1 .. Len(t) + 1, q \in 0 .. Len(t) : i > q => g[<<i, q>>] = Nothing
      /\ \A i \in 1 .. Len(t), q \in 0 .. Len(t) :
           i <= q => g[<<i, q>>] = Joined(i, Lexeme(Cut(t, q), i, d),
                                          g[<<i + 3, Lexeme(Cut(t, q), i, d).next - 3>>],
                                          g[<<Lexeme(Cut(t, q), i, d).next, q>>])
  <2>1. FoundEquation(g, t, d)
    BY <1>1, FoundRecursion
  <2> HIDE DEF g
  <2> QED BY <2>1 DEF FoundEquation
<1> HIDE DEF f, g
<1>4. ASSUME NEW i \in 1 .. hi + 1, \A m \in i + 1 .. hi + 1 : m \in S PROVE i \in S
  <2> SUFFICES ASSUME i >= lo, NEW q \in 0 .. hi
               PROVE  g[<<i + k, q + k>>] = Shift(f[<<i, q>>], k)
    OBVIOUS
  <2>1. /\ i \in Nat /\ q \in Nat /\ i \in lo .. hi + 1 /\ i \in 1 .. Len(s) + 1 /\ q \in 0 .. Len(s)
        /\ i + k \in 1 .. Len(t) + 1 /\ q + k \in 0 .. Len(t)
    BY <1>1
  <2>2. CASE i > q
    <3>1. i + k > q + k
      BY <2>1, <2>2
    <3>2. f[<<i, q>>] = Nothing /\ g[<<i + k, q + k>>] = Nothing
      BY <1>2, <1>3, <2>1, <2>2, <3>1
    <3>3. Shift(Nothing, k) = Nothing
      <4>1. Nothing \in Results
        BY <1>2, <2>1, <3>2
      <4> QED BY <4>1, ShiftResults
    <3> QED BY <3>2, <3>3
  <2>3. CASE i <= q
    <3> DEFINE u == Lexeme(Cut(s, q), i, d)
               v == Lexeme(Cut(t, q + k), i + k, d)
    <3>1. /\ i \in lo .. hi /\ q \in i .. hi /\ i \in 1 .. Len(s) /\ i + k \in 1 .. Len(t)
          /\ i + k <= q + k
      BY <1>1, <2>1, <2>3
    <3>2. v = TurnMoved(u, k)
      <4>1. Reads(Cut(s, q), Cut(t, q + k), k, i, q, d)
        BY <3>1, CutReads
      <4> QED BY <4>1, LexemeMoved
    <3>3. /\ u.kind \notin Errors => u.next \in i + 1 .. q + 1
          /\ u.kind = "executable" => /\ u.next - 3 \in 0 .. Len(s) /\ u.next - 3 < q
                                      /\ i + 3 <= u.next - 3 + 1
          /\ u.kind = "token" => u.name \in Seq(Bytes)
      BY <1>1, <2>1, <2>3, TurnPlaces
    <3>4. f[<<i, q>>] = Joined(i, u, f[<<i + 3, u.next - 3>>], f[<<u.next, q>>])
      BY <1>2, <2>1, <2>3, <3>1
    <3>5. g[<<i + k, q + k>>] = Joined(i + k, v, g[<<i + k + 3, v.next - 3>>], g[<<v.next, q + k>>])
      BY <1>3, <2>1, <3>1
    <3> HIDE DEF u, v
    <3>6. u.kind \notin Errors => /\ v.kind = u.kind /\ v.next = u.next + k
                                  /\ u.next \in Nat
                                  /\ g[<<v.next, q + k>>] = Shift(f[<<u.next, q>>], k)
                                  /\ f[<<u.next, q>>] \in Results
      <4> HAVE u.kind \notin Errors
      <4>1. v.kind = u.kind /\ v.next = u.next + k
        BY <3>2 DEF TurnMoved, Turn
      <4>2. u.next \in i + 1 .. hi + 1 /\ u.next \in Nat /\ u.next >= lo /\ u.next \in 1 .. Len(s) + 1
        BY <1>1, <2>1, <3>1, <3>3, SMTT(30)
      <4>3. Good(u.next)
        BY <1>4, <4>2
      <4> QED BY <1>2, <2>1, <4>1, <4>2, <4>3
    <3>7. u.kind = "executable" =>
            /\ g[<<i + k + 3, v.next - 3>>] = Shift(f[<<i + 3, u.next - 3>>], k)
            /\ f[<<i + 3, u.next - 3>>] \in Results
      <4> HAVE u.kind = "executable"
      <4>1. u.kind \notin Errors
        BY DEF Errors
      <4>2. /\ u.next \in i + 1 .. q + 1 /\ v.next = u.next + k /\ u.next \in Nat
            /\ u.next - 3 \in 0 .. Len(s) /\ u.next - 3 < q /\ i + 3 <= u.next - 3 + 1
        BY <3>3, <3>6, <4>1
      <4> DEFINE a == i + 3
                 b == u.next - 3
      <4>3. /\ a \in i + 1 .. hi + 1 /\ a >= lo /\ b \in 0 .. hi
            /\ i + k + 3 = a + k /\ v.next - 3 = b + k
            /\ a \in 1 .. Len(s) + 1 /\ b \in 0 .. Len(s)
        <5> DEFINE x == u.next
                   y == v.next
        <5>1. /\ x \in i + 1 .. q + 1 /\ y = x + k /\ x \in Nat
              /\ x - 3 \in 0 .. Len(s) /\ x - 3 < q /\ i + 3 <= x - 3 + 1
          BY <4>2
        <5>2. a = i + 3 /\ b = x - 3
          OBVIOUS
        <5> HIDE DEF x, y, a, b
        <5>3. /\ a \in i + 1 .. hi + 1 /\ a >= lo /\ b \in 0 .. hi
              /\ i + k + 3 = a + k /\ y - 3 = b + k
              /\ a \in 1 .. Len(s) + 1 /\ b \in 0 .. Len(s)
          BY <1>1, <2>1, <5>1, <5>2
        <5> QED BY <5>3 DEF y
      <4> HIDE DEF a, b
      <4>4. Good(a)
        BY <1>4, <4>3
      <4>5. g[<<a + k, b + k>>] = Shift(f[<<a, b>>], k)
        BY <4>3, <4>4
      <4>6. f[<<a, b>>] \in Results
        BY <1>0, <4>3
      <4> QED BY <4>3, <4>5, <4>6 DEF a, b
    <3>8. Joined(i + k, v, Shift(f[<<i + 3, u.next - 3>>], k), Shift(f[<<u.next, q>>], k))
            = Shift(Joined(i, u, f[<<i + 3, u.next - 3>>], f[<<u.next, q>>]), k)
      <4> DEFINE inner == f[<<i + 3, u.next - 3>>]
                 rest == f[<<u.next, q>>]
      <4>1. /\ u.kind \notin Errors => u.next \in Nat
            /\ u.kind = "token" => u.name \in Seq(Bytes)
            /\ u.kind = "executable" => inner \in Results
            /\ u.kind \notin Errors => rest \in Results
        BY <3>3, <3>6, <3>7
      <4> HIDE DEF inner, rest
      <4>2. i \in Nat
        BY <2>1
      <4>3. Joined(i + k, TurnMoved(u, k), Shift(inner, k), Shift(rest, k))
              = Shift(Joined(i, u, inner, rest), k)
        BY <4>1, <4>2, JoinedMoved
      <4> QED BY <3>2, <4>3 DEF inner, rest
    <3>9. g[<<i + k, q + k>>]
            = Joined(i + k, v, Shift(f[<<i + 3, u.next - 3>>], k), Shift(f[<<u.next, q>>], k))
      <4> DEFINE in1 == g[<<i + k + 3, v.next - 3>>]
                 in2 == Shift(f[<<i + 3, u.next - 3>>], k)
                 re1 == g[<<v.next, q + k>>]
                 re2 == Shift(f[<<u.next, q>>], k)
      <4>1. v.kind = u.kind
        BY <3>2 DEF TurnMoved, Turn
      <4>2. /\ v.kind = "executable" => in1 = in2
            /\ v.kind \notin Errors => re1 = re2
        BY <3>6, <3>7, <4>1
      <4>3. g[<<i + k, q + k>>] = Joined(i + k, v, in1, re1)
        BY <3>5
      <4> HIDE DEF in1, in2, re1, re2
      <4>4. Joined(i + k, v, in1, re1) = Joined(i + k, v, in2, re2)
        BY <4>2, JoinedSame
      <4> QED BY <4>3, <4>4 DEF in2, re2
    <3> QED BY <3>4, <3>8, <3>9
  <2> QED BY <2>1, <2>2, <2>3
<1>5. \A i \in 1 .. hi + 1 : i \in S
  <2>1. hi + 1 \in Nat
    BY <1>1
  <2> HIDE DEF S
  <2> QED BY <1>4, <2>1, BackwardInduction
<1>6. i0 \in 1 .. hi + 1 /\ i0 >= lo
  BY <1>1
<1>7. Good(i0)
  BY <1>5, <1>6
<1> QED BY <1>6, <1>7 DEF f, g

-----------------------------------------------------------------------------
(* Fragments compose.                                                      *)

(* A scan that finds no error has found none in the turn nor in the rest.  *)
LEMMA JoinedWell ==
  ASSUME NEW i, NEW t, NEW inner, NEW rest, Joined(i, t, inner, rest).err = NoError
  PROVE  /\ t.kind \notin Errors
         /\ t.kind = "executable" => inner = Nothing
         /\ t.kind = "token" => /\ rest.err = NoError
                                /\ Joined(i, t, inner, rest)
                                     = Found(NoError, <<TokenAt(i, t)>> \o rest.tokens)
         /\ t.kind # "token" => Joined(i, t, inner, rest) = rest
<1>1. "none" \notin Errors
  BY DEF Errors
<1>2. t.kind \notin Errors
  <2> SUFFICES ASSUME t.kind \in Errors PROVE FALSE
    OBVIOUS
  <2>1. Joined(i, t, inner, rest).err = t.kind
    BY DEF Joined, Found
  <2> QED BY <1>1, <2>1 DEF NoError
<1>3. t.kind = "executable" => inner = Nothing
  <2> SUFFICES ASSUME t.kind = "executable", inner # Nothing PROVE FALSE
    OBVIOUS
  <2>1. Joined(i, t, inner, rest).err = IF inner.err = NoError THEN "syntax" ELSE inner.err
    BY <1>2 DEF Joined, Found
  <2> QED BY <2>1 DEF NoError
<1>4. t.kind = "token" => Joined(i, t, inner, rest) = Preceded(TokenAt(i, t), rest)
  BY <1>2 DEF Joined, TokenAt
<1>5. t.kind = "token" => /\ rest.err = NoError
                          /\ Joined(i, t, inner, rest)
                               = Found(NoError, <<TokenAt(i, t)>> \o rest.tokens)
  <2> HAVE t.kind = "token"
  <2>1. rest.err = NoError
    <3> SUFFICES ASSUME rest.err # NoError PROVE FALSE
      OBVIOUS
    <3>1. Preceded(TokenAt(i, t), rest) = rest
      BY DEF Preceded
    <3> QED BY <1>4, <3>1
  <2>2. Preceded(TokenAt(i, t), rest) = Found(NoError, <<TokenAt(i, t)>> \o rest.tokens)
    BY <2>1 DEF Preceded
  <2> QED BY <1>4, <2>1, <2>2
<1>6. t.kind # "token" => Joined(i, t, inner, rest) = rest
  BY <1>2, <1>3 DEF Joined
<1> QED BY <1>2, <1>3, <1>5, <1>6

(* What a turn that is well yields. *)
LEMMA JoinedGives ==
  ASSUME NEW i, NEW t, NEW inner, NEW rest, t.kind \notin Errors,
         t.kind = "executable" => inner = Nothing
  PROVE  /\ t.kind = "token" => Joined(i, t, inner, rest) = Preceded(TokenAt(i, t), rest)
         /\ t.kind # "token" => Joined(i, t, inner, rest) = rest
BY DEF Joined, TokenAt

(* An error stands alone. *)
LEMMA ErrorAlone ==
  ASSUME NEW s \in Texts, NEW d \in Dialects, NEW i0 \in 1 .. Len(s) + 1,
         From(s, d, i0).err # NoError
  PROVE  From(s, d, i0).tokens = <<>>
<1> DEFINE L == Len(s)
           Good(i) == From(s, d, i).err # NoError => From(s, d, i).tokens = <<>>
           S == {i \in 1 .. L + 1 : Good(i)}
<1>1. L \in Nat
  BY AtText
<1>2. ASSUME NEW i \in 1 .. L + 1, \A m \in i + 1 .. L + 1 : m \in S PROVE i \in S
  <2>1. CASE i = L + 1
    BY <2>1, FromStep DEF Nothing, Found
  <2>2. CASE i # L + 1
    <3> DEFINE t == Lexeme(s, i, d)
               inner == Inner(s, d, i)
    <3>1. i \in 1 .. Len(s)
      BY <1>1, <2>2
    <3>2. TurnOK(s, i, t)
      BY <3>1, TurnBounds
    <3>3. From(s, d, i) = Joined(i, t, inner, From(s, d, t.next))
      BY <3>1, FromStep
    <3> HIDE DEF t, inner
    <3>4. t.kind \notin Errors => Good(t.next)
      <4> HAVE t.kind \notin Errors
      <4>1. t.next \in i + 1 .. L + 1
        BY <3>2 DEF TurnOK
      <4> QED BY <1>2, <4>1
    <3> DEFINE rest == From(s, d, t.next)
    <3>5. t.kind \notin Errors => (rest.err # NoError => rest.tokens = <<>>)
      BY <3>4
    <3> HIDE DEF rest
    <3>6. Joined(i, t, inner, rest).err # NoError => Joined(i, t, inner, rest).tokens = <<>>
      BY <3>5 DEF Joined, Preceded, Found
    <3> QED BY <3>3, <3>6 DEF rest
  <2> QED BY <2>1, <2>2
<1>3. \A i \in 1 .. L + 1 : i \in S
  <2>1. L + 1 \in Nat
    BY <1>1
  <2> HIDE DEF S
  <2> QED BY <1>2, <2>1, BackwardInduction
<1> QED BY <1>3

(* What two parts of a text yield together. *)
Together(r1, r2) ==
  IF r2.err # NoError THEN r2 ELSE Found(NoError, r1.tokens \o r2.tokens)

(* Nothing adds nothing. *)
LEMMA TogetherNothing ==
  ASSUME NEW r \in Results
  PROVE  Together(Nothing, r) = r
<1>1. r = Found(r.err, r.tokens) /\ r.tokens \in Seq(Token)
  BY DEF Results, Found
<1>2. <<>> \o r.tokens = r.tokens
  BY <1>1
<1>3. Nothing.tokens = <<>>
  BY DEF Nothing, Found
<1> QED BY <1>1, <1>2, <1>3 DEF Together

(* A token before what two parts yield together. *)
LEMMA TogetherCons ==
  ASSUME NEW x \in Token, NEW r1 \in Results, NEW r2 \in Results
  PROVE  Preceded(x, Together(r1, r2)) = Together(Found(NoError, <<x>> \o r1.tokens), r2)
<1>1. r1.tokens \in Seq(Token) /\ r2.tokens \in Seq(Token) /\ <<x>> \in Seq(Token)
  BY DEF Results
<1>2. CASE r2.err # NoError
  BY <1>2 DEF Together, Preceded
<1>3. CASE r2.err = NoError
  <2> DEFINE u == <<x>>
             a == r1.tokens
             b == r2.tokens
  <2>1. Together(r1, r2) = Found(NoError, a \o b)
    BY <1>3 DEF Together
  <2>2. Preceded(x, Found(NoError, a \o b)) = Found(NoError, u \o (a \o b))
    BY DEF Preceded, Found
  <2>3. u \o (a \o b) = (u \o a) \o b
    <3>1. u \in Seq(Token) /\ a \in Seq(Token) /\ b \in Seq(Token)
      BY <1>1
    <3> HIDE DEF u, a, b
    <3> QED BY <3>1, ConcatAssociative, SMTT(30)
  <2>4. Together(Found(NoError, u \o a), r2) = Found(NoError, (u \o a) \o b)
    <3> HIDE DEF u
    <3> QED BY <1>3 DEF Together, Found
  <2> QED BY <2>1, <2>2, <2>3, <2>4, Zenon DEF u, a
<1> QED BY <1>2, <1>3

(* A fragment before a newline yields what it yields alone, and then what
   follows the newline yields. *)
LEMMA LeftFragment ==
  ASSUME NEW s \in Texts, NEW d \in Dialects, NEW n \in 1 .. Len(s), At(s, n) = "NL",
         ~MayLeaveOpen(Cut(s, n - 1), d), NEW i0 \in 1 .. n,
         From(Cut(s, n - 1), d, i0).err = NoError
  PROVE  From(s, d, i0) = Together(From(Cut(s, n - 1), d, i0), From(s, d, n))
<1> DEFINE u == Cut(s, n - 1)
           R == From(s, d, n)
           Good(i) == From(u, d, i).err = NoError => From(s, d, i) = Together(From(u, d, i), R)
           S == {i \in 1 .. n : Good(i)}
           k == 0
           hi == n - 1
<1>1. n \in Nat /\ Len(s) \in Nat /\ n <= Len(s) /\ n >= 1
  BY AtText
<1>2. /\ u \in Texts /\ Len(u) = hi
      /\ \A j \in Int : At(u, j) = IF j \in 1 .. hi THEN At(s, j) ELSE "END"
  <2> HIDE DEF hi
  <2>1. hi \in 0 .. Len(s)
    BY <1>1 DEF hi
  <2>2. Cut(s, hi) \in Texts /\ Len(Cut(s, hi)) = hi
        /\ \A j \in Int : At(Cut(s, hi), j) = IF j \in 1 .. hi THEN At(s, j) ELSE "END"
    BY <2>1, CutText
  <2> QED BY <2>2 DEF hi
<1>3. hi \in Nat /\ hi + 1 = n /\ k \in Nat /\ hi + k <= Len(s) /\ k \in Int /\ \A m \in Int : m + k = m
  BY <1>1
<1>4. d = "sqlite" => \A m \in 1 .. hi : ~IsComment(u, m)
  <2>1. DOMAIN u = 1 .. Len(u)
    BY <1>2, AtText
  <2> QED BY <1>2, <2>1 DEF MayLeaveOpen, IsComment
<1>5. R \in Results
  <2>1. n \in 1 .. Len(s) + 1
    BY <1>1
  <2> QED BY <2>1, FromStep
<1> HIDE DEF u, k, hi, R
<1>6. ASSUME NEW i \in 1 .. hi
      PROVE  Window(u, s, k, i, hi) /\ SameBehind(u, i, s, i + k)
  <2>1. \A j \in Int : j <= hi => At(u, j) = At(s, j)
    <3> TAKE j \in Int
    <3> HAVE j <= hi
    <3>1. CASE j \in 1 .. hi
      BY <1>2, <3>1
    <3>2. CASE j \notin 1 .. hi
      <4>1. j \notin 1 .. Len(s)
        BY <1>1, <1>3, <3>2
      <4> QED BY <1>2, <3>2, <4>1, AtText
    <3> QED BY <3>1, <3>2
  <2>2. \A j \in i .. hi : At(s, j + k) = At(u, j)
    <3> TAKE j \in i .. hi
    <3>1. j \in Int /\ j <= hi /\ j + k = j
      BY <1>3
    <3> QED BY <2>1, <3>1
  <2>3. i \in 1 .. hi + 1 /\ i + k >= 1
    BY <1>3
  <2>4. /\ i - 1 \in Int /\ i - 1 <= hi /\ (i + k) - 1 = i - 1
        /\ i - 2 \in Int /\ i - 2 <= hi /\ (i + k) - 2 = i - 2
    BY <1>3
  <2>5. At(u, i - 1) = At(s, (i + k) - 1) /\ At(u, i - 2) = At(s, (i + k) - 2)
    BY <2>1, <2>4
  <2> QED BY <1>2, <1>3, <2>2, <2>3, <2>5 DEF Window, SameBehind
<1>7. ASSUME NEW i \in 1 .. n, \A m \in i + 1 .. n : m \in S PROVE i \in S
  <2>1. CASE i = n
    <3>1. From(u, d, i) = Nothing
      BY <1>2, <1>3, <2>1, FromStep
    <3> QED BY <1>5, <2>1, <3>1, TogetherNothing DEF R
  <2>2. CASE i # n
    <3> SUFFICES ASSUME From(u, d, i).err = NoError
                 PROVE  From(s, d, i) = Together(From(u, d, i), R)
      OBVIOUS
    <3> DEFINE t == Lexeme(u, i, d)
               v == Lexeme(s, i, d)
               inner == Inner(u, d, i)
               rest == From(u, d, t.next)
    <3>1. i \in 1 .. hi /\ i \in 1 .. Len(s) /\ i \in 1 .. Len(u) /\ i + k = i /\ i \in Nat
      BY <1>1, <1>2, <1>3, <2>2
    <3>2. TurnOK(u, i, t)
      BY <1>2, <3>1, TurnBounds
    <3>3. From(u, d, i) = Joined(i, t, inner, rest)
      BY <1>2, <3>1, FromStep
    <3>4. From(s, d, i) = Joined(i, v, Inner(s, d, i), From(s, d, v.next))
      BY <3>1, FromStep
    <3>5. inner = FoundIn(u, d)[<<i + 3, t.next - 3>>] /\ Inner(s, d, i) = FoundIn(s, d)[<<i + 3, v.next - 3>>]
      BY DEF Inner
    <3> HIDE DEF inner, rest
    <3>6. /\ t.kind \notin Errors
          /\ t.kind = "executable" => inner = Nothing
          /\ t.kind = "token" => /\ rest.err = NoError
                                 /\ From(u, d, i) = Found(NoError, <<TokenAt(i, t)>> \o rest.tokens)
          /\ t.kind # "token" => From(u, d, i) = rest
      <4> HIDE DEF t
      <4> QED BY <3>3, JoinedWell
    <3>7. t.next \in i + 1 .. n /\ t.next \in Nat /\ t.next <= hi + 1
      <4>1. t.next \in i + 1 .. Len(u) + 1
        BY <3>2, <3>6 DEF TurnOK
      <4> QED BY <1>2, <1>3, <3>1, <4>1
    <3>8. v.kind = t.kind /\ v.next = t.next /\ v.name = t.name
      <4>1. EndsBefore(u, s, k, i, hi, d)
        <5>1. hi + 1 + k = n
          BY <1>1, <1>3
        <5> QED BY <1>2, <1>4, <3>1, <3>6, <3>7, <5>1 DEF EndsBefore
      <4>2. Reads(u, s, k, i, hi, d)
        BY <1>6, <3>1, <4>1 DEF Reads
      <4>3. v = TurnMoved(t, k)
        BY <3>1, <4>2, LexemeMoved
      <4> HIDE DEF t, v
      <4>4. v.kind = t.kind /\ v.next = t.next + k /\ v.name = t.name
        BY <3>6, <4>3 DEF TurnMoved, Turn
      <4>5. t.next + k = t.next
        BY <1>3, <3>7
      <4> QED BY <4>4, <4>5
    <3> HIDE DEF t, v
    <3>9. v.kind = "executable" => Inner(s, d, i) = Nothing
      <4> HAVE v.kind = "executable"
      <4> DEFINE a == i + 3
                 b == t.next - 3
                 lo == 1
      <4>1. t.next \in i + 5 .. Len(u) + 1
        BY <3>2, <3>8 DEF TurnOK
      <4>2. a \in lo .. hi + 1 /\ b \in 0 .. hi /\ a + k = a /\ b + k = b /\ 1 \in 1 .. hi
        <5> DEFINE x == t.next
        <5>1. x \in i + 5 .. hi + 1
          BY <1>2, <4>1
        <5> HIDE DEF x
        <5>2. a \in lo .. hi + 1 /\ x - 3 \in 0 .. hi /\ a + k = a /\ x - 3 + k = x - 3
              /\ 1 \in 1 .. hi
          BY <1>3, <3>1, <5>1
        <5> QED BY <5>2 DEF x
      <4>3. Window(u, s, k, lo, hi) /\ SameBehind(u, lo, s, lo + k)
        BY <1>6, <4>2
      <4>7. Aligned(u, s, k, lo, hi)
        BY <1>3, <4>3 DEF Aligned
      <4> HIDE DEF a, b, lo
      <4>4. FoundIn(s, d)[<<a + k, b + k>>] = Shift(FoundIn(u, d)[<<a, b>>], k)
        <5>1. FoundAlike(u, s, k, lo, hi)
          BY <4>7, FoundMoved
        <5> QED BY <4>2, <5>1 DEF FoundAlike
      <4>5. FoundIn(s, d)[<<a, b>>] = Shift(Nothing, k)
        <5>1. FoundIn(u, d)[<<a, b>>] = Nothing
          BY <3>5, <3>6, <3>8 DEF a, b
        <5> QED BY <4>2, <4>4, <5>1
      <4>6. Shift(Nothing, k) = Nothing
        <5>1. Nothing \in Results
          <6>1. Len(u) + 1 \in 1 .. Len(u) + 1 /\ From(u, d, Len(u) + 1) = Nothing
            BY <1>2, <1>3, FromStep
          <6> QED BY <1>2, <6>1, FromStep
        <5> QED BY <1>3, <5>1, ShiftResults
      <4> QED BY <3>5, <3>8, <4>5, <4>6 DEF a, b
    <3>10. rest.err = NoError => From(s, d, t.next) = Together(rest, R)
      <4>1. Good(t.next)
        BY <1>7, <3>7
      <4> QED BY <4>1 DEF rest
    <3>11. /\ v.kind = "token" => From(s, d, i) = Preceded(TokenAt(i, v), From(s, d, t.next))
           /\ v.kind # "token" => From(s, d, i) = From(s, d, t.next)
      BY <3>4, <3>6, <3>8, <3>9, JoinedGives
    <3>12. CASE t.kind = "token"
      <4>1. TokenAt(i, v) = TokenAt(i, t)
        BY <3>8 DEF TokenAt
      <4>2. TokenAt(i, t) \in Token
        BY <1>2, <3>1, <3>2, <3>12, TurnToken DEF TokenOK
      <4>3. rest \in Results
        <5>1. t.next \in 1 .. Len(u) + 1
          BY <1>2, <1>3, <3>1, <3>7
        <5> QED BY <1>2, <5>1, FromStep DEF rest
      <4>4. From(s, d, i) = Preceded(TokenAt(i, t), Together(rest, R))
        BY <3>6, <3>8, <3>10, <3>11, <3>12, <4>1
      <4>5. Preceded(TokenAt(i, t), Together(rest, R))
              = Together(Found(NoError, <<TokenAt(i, t)>> \o rest.tokens), R)
        BY <1>5, <4>2, <4>3, TogetherCons
      <4> QED BY <3>6, <3>12, <4>4, <4>5
    <3>13. CASE t.kind # "token"
      BY <3>6, <3>8, <3>10, <3>11, <3>13
    <3> QED BY <3>12, <3>13
  <2> QED BY <2>1, <2>2
<1>8. \A i \in 1 .. n : i \in S
  <2> HIDE DEF S
  <2> QED BY <1>1, <1>7, BackwardInduction
<1> QED BY <1>8 DEF u, R

(* A newline is plain text. *)
LEMMA NewlineIsPlain ==
  ASSUME NEW s \in Texts, NEW d \in Dialects, NEW n \in 1 .. Len(s), At(s, n) = "NL"
  PROVE  From(s, d, n) = From(s, d, n + 1)
<1>1. IsPlain(s, n, d)
  BY DEF IsPlain, IsEscape, IsQuote, Quotes, StartsDashComment, IsHash, IsComment, IsDollar,
         IsColon, IsNative, IsAtSign, Pair
<1>2. Lexeme(s, n, d) = Skip(n + 1)
  BY <1>1, LexemeCases
<1>3. From(s, d, n) = Joined(n, Skip(n + 1), Inner(s, d, n), From(s, d, Skip(n + 1).next))
  BY <1>2, FromStep
<1>4. Skip(n + 1).kind = "text" /\ Skip(n + 1).next = n + 1 /\ Skip(n + 1).kind \notin Errors
  BY DEF Skip, Turn, Errors
<1> HIDE DEF Skip
<1> QED BY <1>3, <1>4, JoinedGives

(* What follows the newline yields what it yields alone. *)
LEMMA RightFragment ==
  ASSUME NEW s \in Texts, NEW d \in Dialects, NEW n \in 1 .. Len(s), At(s, n) = "NL"
  PROVE  From(s, d, n + 1) = Shift(scan(SubSeq(s, n + 1, Len(s)), d), n)
<1> DEFINE v == SubSeq(s, n + 1, Len(s))
           hi == Len(v)
           lo == 1
<1>1. Len(s) \in Nat /\ n \in Nat
  BY AtText
<1>2. /\ v \in Texts /\ Len(v) = Len(s) - n
      /\ \A j \in Int : At(v, j) = IF j \in 1 .. Len(s) - n THEN At(s, n + j) ELSE "END"
  <2> DEFINE a == n + 1
             b == Len(s)
  <2>1. a \in 1 .. Len(s) + 1 /\ b \in 0 .. Len(s) /\ a <= b + 1 /\ b - a + 1 = Len(s) - n
        /\ \A j \in Int : a + j - 1 = n + j
    BY <1>1
  <2> HIDE DEF a, b
  <2>2. /\ SubSeq(s, a, b) \in Texts /\ Len(SubSeq(s, a, b)) = b - a + 1
        /\ \A j \in Int : At(SubSeq(s, a, b), j) = IF j \in 1 .. b - a + 1 THEN At(s, a + j - 1) ELSE "END"
    BY <2>1, PartText
  <2> QED BY <2>1, <2>2 DEF a, b
<1> HIDE DEF v
<1>3. /\ hi \in Nat /\ lo \in 1 .. hi + 1 /\ lo + n >= 1 /\ hi + n <= Len(s) /\ hi + n = Len(s)
      /\ lo \in lo .. hi + 1 /\ hi \in 0 .. hi /\ lo + n = n + 1
  BY <1>1, <1>2
<1>4. \A j \in lo .. hi : At(s, j + n) = At(v, j)
  <2> TAKE j \in lo .. hi
  <2>1. j \in Int /\ j \in 1 .. Len(s) - n /\ j + n = n + j
    BY <1>1, <1>2, <1>3
  <2> QED BY <1>2, <2>1
<1>5. Window(v, s, n, lo, hi)
  BY <1>1, <1>2, <1>3, <1>4 DEF Window
<1>6. SameBehind(v, lo, s, lo + n)
  <2>1. (lo + n) - 1 = n /\ lo - 1 = 0 /\ 0 \in Int /\ 0 \notin 1 .. Len(s) - n
    BY <1>1
  <2>2. At(v, lo - 1) = "END" /\ At(s, (lo + n) - 1) = "NL"
    BY <1>2, <2>1
  <2>3. "END" \notin IdentifierParts /\ "NL" \notin IdentifierParts
    BY Unmarked DEF Marks
  <2> HIDE DEF lo
  <2> QED BY <2>2, <2>3 DEF SameBehind, identifierPart
<1>9. Aligned(v, s, n, lo, hi)
  BY <1>1, <1>5, <1>6 DEF Aligned
<1>7. scan(v, d) = FoundIn(v, d)[<<lo, hi>>]
  BY DEF scan
<1> HIDE DEF lo, hi
<1>8. FoundIn(s, d)[<<lo + n, hi + n>>] = Shift(FoundIn(v, d)[<<lo, hi>>], n)
  <2>1. FoundAlike(v, s, n, lo, hi)
    BY <1>9, FoundMoved
  <2>2. lo \in lo .. hi + 1 /\ hi \in 0 .. hi
    BY <1>3
  <2> QED BY <2>1, <2>2, Zenon DEF FoundAlike
<1>10. <<lo + n, hi + n>> = <<n + 1, Len(s)>>
  BY <1>3
<1>11. FoundIn(s, d)[<<n + 1, Len(s)>>] = Shift(scan(v, d), n)
  BY <1>7, <1>8, <1>10, Zenon
<1> QED BY <1>11 DEF From, v

(* Statements are read line by line. *)
LEMMA TypedCompose == Typed => FragmentsCompose
<1> SUFFICES ASSUME Typed, NEW n \in DOMAIN sql, sql[n] = "NL",
                    scan(SubSeq(sql, 1, n - 1), dialect).err = NoError,
                    ~MayLeaveOpen(SubSeq(sql, 1, n - 1), dialect)
             PROVE  scan(sql, dialect) =
                      LET right == scan(SubSeq(sql, n + 1, Len(sql)), dialect)
                      IN IF right.err # NoError THEN right
                         ELSE Found(NoError, scan(SubSeq(sql, 1, n - 1), dialect).tokens
                                               \o Moved(right.tokens, n))
  BY DEF FragmentsCompose
<1> DEFINE u == Cut(sql, n - 1)
           right == scan(SubSeq(sql, n + 1, Len(sql)), dialect)
<1>1. sql \in Texts /\ dialect \in Dialects /\ n \in 1 .. Len(sql) /\ At(sql, n) = "NL"
      /\ Len(sql) \in Nat /\ n \in Nat
  <2>1. sql \in Texts /\ dialect \in Dialects
    BY DEF Typed
  <2>2. n \in 1 .. Len(sql) /\ Len(sql) \in Nat
    BY <2>1, AtText
  <2> QED BY <2>1, <2>2, AtText
<1>2. u = SubSeq(sql, 1, n - 1) /\ u \in Texts /\ Len(u) = n - 1
  <2> DEFINE m == n - 1
  <2>1. m \in 0 .. Len(sql)
    BY <1>1
  <2> HIDE DEF m
  <2>2. Cut(sql, m) \in Texts /\ Len(Cut(sql, m)) = m
    BY <1>1, <2>1, CutText
  <2> QED BY <2>2 DEF Cut, m
<1>3. scan(u, dialect) = From(u, dialect, 1) /\ scan(sql, dialect) = From(sql, dialect, 1)
  BY <1>1, <1>2, FromStep
<1>4. 1 \in 1 .. n /\ n + 1 \in 1 .. Len(sql) + 1
  BY <1>1
<1>5. From(sql, dialect, 1) = Together(From(u, dialect, 1), From(sql, dialect, n))
  <2>1. ~MayLeaveOpen(u, dialect) /\ From(u, dialect, 1).err = NoError
    BY <1>2, <1>3
  <2> QED BY <1>1, <1>4, <2>1, LeftFragment
<1>6. From(sql, dialect, n) = Shift(right, n)
  BY <1>1, NewlineIsPlain, RightFragment
<1>7. right \in Results /\ (right.err # NoError => right.tokens = <<>>)
  <2> DEFINE v == SubSeq(sql, n + 1, Len(sql))
  <2>1. v \in Texts
    <3> DEFINE a == n + 1
               b == Len(sql)
    <3>1. a \in 1 .. Len(sql) + 1 /\ b \in 0 .. Len(sql) /\ a <= b + 1
      BY <1>1
    <3> HIDE DEF a, b
    <3>2. SubSeq(sql, a, b) \in Texts
      BY <1>1, <3>1, PartText
    <3> QED BY <3>2 DEF a, b
  <2> HIDE DEF v
  <2>2. 1 \in 1 .. Len(v) + 1
    BY <2>1, AtText
  <2>3. scan(v, dialect) \in Results /\ scan(v, dialect) = From(v, dialect, 1)
    BY <1>1, <2>1, ScanTokens, FromStep
  <2>4. scan(v, dialect).err # NoError => scan(v, dialect).tokens = <<>>
    BY <1>1, <2>1, <2>2, <2>3, ErrorAlone
  <2> QED BY <2>3, <2>4 DEF v
<1> HIDE DEF right, u
<1>8. Shift(right, n).err = right.err /\ Shift(right, n).tokens = Moved(right.tokens, n)
  BY <1>1, <1>7, ShiftResults
<1>9. CASE right.err # NoError
  <2>1. Shift(right, n) = right
    <3>1. right = Found(right.err, <<>>) /\ <<>> \in Seq(Token)
      BY <1>7, <1>9 DEF Results, Found
    <3>2. Moved(right.tokens, n) = <<>>
      BY <1>1, <1>7, <1>9, <3>1, MovedTokens
    <3> QED BY <3>1, <3>2 DEF Shift
  <2>2. Together(From(u, dialect, 1), Shift(right, n)) = Shift(right, n)
    BY <1>8, <1>9 DEF Together
  <2> QED BY <1>3, <1>5, <1>6, <1>9, <2>1, <2>2 DEF right
<1>10. CASE right.err = NoError
  <2>1. Together(From(u, dialect, 1), Shift(right, n))
          = Found(NoError, From(u, dialect, 1).tokens \o Moved(right.tokens, n))
    BY <1>8, <1>10 DEF Together
  <2> QED BY <1>2, <1>3, <1>5, <1>6, <1>10, <2>1 DEF right
<1> QED BY <1>9, <1>10

(* FragmentsCompose always: a newline keeps fragments apart. *)
THEOREM LexerFragmentsCompose == Spec => []FragmentsCompose
<1> QED BY AlwaysTyped, TypedCompose, PTL

-----------------------------------------------------------------------------
(* The escaped statement.                                                  *)

(* Where token m starts and ends; the text starts after a token 0 and ends
   before one more token. *)
Begin(s, ts, m) == IF m = 0 THEN 1 ELSE IF m > Len(ts) THEN Len(s) + 1 ELSE ts[m].start
End(ts, m)      == IF m = 0 THEN 1 ELSE ts[m].next

(* Tokens of a text, in order, each of them at least two characters long. *)
LEMMA TokenPlaces ==
  ASSUME NEW s, NEW ts, s \in Texts, TokensFrom(s, 1, ts)
  PROVE  /\ Len(ts) \in Nat /\ Len(s) \in Nat
         /\ \A m \in 0 .. Len(ts) : /\ End(ts, m) \in 1 .. Len(s) + 1
                                    /\ Begin(s, ts, m) \in 1 .. Len(s) + 1
                                    /\ Begin(s, ts, m + 1) \in 1 .. Len(s) + 1
                                    /\ End(ts, m) <= Begin(s, ts, m + 1)
         /\ \A m \in 1 .. Len(ts) :
              /\ ts[m].name \in Texts /\ ts[m] \in Token
              /\ Begin(s, ts, m) = ts[m].start /\ End(ts, m) = ts[m].next
              /\ Begin(s, ts, m) \in 1 .. Len(s)
              /\ TokenOK(s, ts[m])
         /\ Begin(s, ts, Len(ts) + 1) = Len(s) + 1
<1>1. /\ ts \in Seq(Token) /\ Len(ts) \in Nat /\ Len(s) \in Nat
      /\ \A k \in 1 .. Len(ts) : /\ TokenOK(s, ts[k]) /\ ts[k].start >= 1
                                 /\ k > 1 => ts[k - 1].next <= ts[k].start
  <2>1. Len(s) \in Nat
    BY AtText
  <2>2. /\ ts \in Seq(Token) /\ Len(ts) \in Nat
        /\ \A k \in 1 .. Len(ts) : /\ TokenOK(s, ts[k]) /\ ts[k].start >= 1
                                   /\ k > 1 => ts[k - 1].next <= ts[k].start
    BY DEF TokensFrom
  <2> QED BY <2>1, <2>2
<1>2. \A m \in 1 .. Len(ts) :
        /\ ts[m].name \in Texts /\ ts[m] \in Token
        /\ ts[m].start \in 1 .. Len(s) /\ ts[m].next \in 1 .. Len(s) + 1
  <2> TAKE m \in 1 .. Len(ts)
  <2>1. /\ ts[m] \in Token /\ ts[m].start \in 1 .. Len(s)
        /\ ts[m].next \in ts[m].start + 1 .. Len(s) + 1
    BY <1>1 DEF TokenOK
  <2>2. ts[m].name \in Texts
    BY <2>1 DEF Token, Texts
  <2> QED BY <1>1, <2>1, <2>2
<1>3. \A m \in 1 .. Len(ts) : Begin(s, ts, m) = ts[m].start /\ End(ts, m) = ts[m].next
  BY <1>1 DEF Begin, End
<1>4. Begin(s, ts, Len(ts) + 1) = Len(s) + 1 /\ End(ts, 0) = 1 /\ Begin(s, ts, 0) = 1
  BY <1>1 DEF Begin, End
<1>5. ASSUME NEW m \in 0 .. Len(ts)
      PROVE  /\ End(ts, m) \in 1 .. Len(s) + 1
             /\ Begin(s, ts, m) \in 1 .. Len(s) + 1
             /\ Begin(s, ts, m + 1) \in 1 .. Len(s) + 1
             /\ End(ts, m) <= Begin(s, ts, m + 1)
  <2>1. /\ End(ts, m) \in 1 .. Len(s) + 1
        /\ Begin(s, ts, m) \in 1 .. Len(s) + 1
    <3>1. CASE m = 0
      <4>1. 1 \in 1 .. Len(s) + 1
        BY <1>1
      <4> QED BY <1>4, <3>1, <4>1
    <3>2. CASE m \in 1 .. Len(ts)
      <4>1. ts[m].start \in 1 .. Len(s) /\ ts[m].next \in 1 .. Len(s) + 1
        BY <1>2, <3>2
      <4>2. ts[m].start \in 1 .. Len(s) + 1
        BY <1>1, <4>1
      <4> QED BY <1>3, <3>2, <4>1, <4>2
    <3> QED BY <1>1, <3>1, <3>2
  <2>2. CASE m = Len(ts)
    BY <1>1, <1>4, <2>1, <2>2
  <2>3. CASE m # Len(ts)
    <3> DEFINE k == m + 1
    <3>1. k \in 1 .. Len(ts) /\ k - 1 = m
      BY <1>1, <2>3
    <3> HIDE DEF k
    <3>2. Begin(s, ts, k) = ts[k].start /\ ts[k].start \in 1 .. Len(s)
      BY <1>2, <1>3, <3>1
    <3>3. End(ts, m) <= ts[k].start
      <4>1. CASE m = 0
        BY <1>1, <1>4, <3>2, <4>1
      <4>2. CASE m # 0
        <5>1. m \in 1 .. Len(ts) /\ k > 1
          BY <1>1, <3>1, <4>2
        <5>2. ts[k - 1].next <= ts[k].start
          BY <1>1, <3>1, <5>1
        <5> QED BY <1>3, <3>1, <5>1, <5>2
      <4> QED BY <4>1, <4>2
    <3> QED BY <1>1, <2>1, <3>2, <3>3 DEF k
  <2> QED BY <2>2, <2>3
<1> QED BY <1>1, <1>2, <1>3, <1>4, <1>5

(* The text between two tokens. *)
LEMMA BetweenText ==
  ASSUME NEW s, NEW ts, s \in Texts, TokensFrom(s, 1, ts), NEW m \in 0 .. Len(ts)
  PROVE  LET gap == Between(s, ts, m + 1)
             a   == End(ts, m)
             b   == Begin(s, ts, m + 1)
         IN /\ gap = SubSeq(s, a, b - 1)
            /\ gap \in Texts /\ Len(gap) = b - a
            /\ \A j \in Int : At(gap, j) = IF j \in 1 .. b - a THEN At(s, (a + j) - 1) ELSE "END"
<1> DEFINE a == End(ts, m)
           b == Begin(s, ts, m + 1)
           c == b - 1
           gap == SubSeq(s, a, c)
<1>1. /\ Len(s) \in Nat /\ Len(ts) \in Nat /\ a \in 1 .. Len(s) + 1 /\ b \in 1 .. Len(s) + 1
      /\ a <= b
  BY TokenPlaces
<1>2. Between(s, ts, m + 1) = gap
  <2>1. m + 1 = 1 <=> m = 0
    BY <1>1
  <2>2. m + 1 - 1 = m
    BY <1>1
  <2>3. a = IF m + 1 = 1 THEN 1 ELSE ts[(m + 1) - 1].next
    BY <2>1, <2>2 DEF End
  <2>4. c = IF m + 1 > Len(ts) THEN Len(s) ELSE ts[m + 1].start - 1
    <3>1. m + 1 # 0
      BY <1>1
    <3>2. CASE m + 1 > Len(ts)
      <4>1. b = Len(s) + 1
        BY <3>1, <3>2 DEF Begin
      <4> QED BY <1>1, <3>2, <4>1
    <3>3. CASE ~(m + 1 > Len(ts))
      <4>1. b = ts[m + 1].start
        BY <3>1, <3>3 DEF Begin
      <4> QED BY <3>3, <4>1
    <3> QED BY <3>2, <3>3
  <2> HIDE DEF a, c
  <2> QED BY <2>3, <2>4 DEF Between
<1>3. /\ c \in 0 .. Len(s) /\ a <= c + 1 /\ c - a + 1 = b - a /\ a \in Int
      /\ \A j \in Int : a + j - 1 = (a + j) - 1
  <2> HIDE DEF a, b
  <2> QED BY <1>1
<1> HIDE DEF c
<1>4. /\ gap \in Texts /\ Len(gap) = c - a + 1
      /\ \A j \in Int : At(gap, j) = IF j \in 1 .. c - a + 1 THEN At(s, a + j - 1) ELSE "END"
  <2> HIDE DEF a, b
  <2> QED BY <1>1, <1>3, PartText
<1> HIDE DEF a, b, gap
<1>5. /\ gap \in Texts /\ Len(gap) = b - a
      /\ \A j \in Int : At(gap, j) = IF j \in 1 .. b - a THEN At(s, (a + j) - 1) ELSE "END"
  BY <1>3, <1>4
<1> QED BY <1>2, <1>5 DEF gap, a, b, c

(* What is written for the tokens of a text. *)
IsWritten(s, ts, w) ==
  s \in Texts /\ TokensFrom(s, 1, ts) /\ \A k \in 1 .. Len(ts) : w[k] \in Texts

(* The recursion of RewrittenTo. *)
RewrittenEquation(s, ts, w, f) ==
  /\ \A m \in 0 .. Len(ts) : f[m] \in Texts
  /\ f[0] = <<>>
  /\ \A k \in 1 .. Len(ts) : f[k] = f[k - 1] \o Between(s, ts, k) \o w[k]

(* A text is rewritten token by token. *)
LEMMA RewrittenRecursion ==
  ASSUME NEW s, NEW ts, NEW w, IsWritten(s, ts, w)
  PROVE  RewrittenEquation(s, ts, w, RewrittenTo(s, ts, w))
<1>0. s \in Texts /\ TokensFrom(s, 1, ts) /\ \A k \in 1 .. Len(ts) : w[k] \in Texts
  BY DEF IsWritten
<1> DEFINE n == Len(ts)
           D == 0 .. n
           X == Texts
           gap(k) == Between(s, ts, k)
           step == [k \in 1 .. n |-> [g \in X |-> (g \o gap(k)) \o w[k]]]
           F == CHOOSE f : f = [k \in D |-> IF k = 0 THEN <<>> ELSE f[k - 1] \o gap(k) \o w[k]]
<1>1. n \in Nat
  BY <1>0, TokenPlaces
<1>2. \A k \in 1 .. n : gap(k) \in Texts
  <2> TAKE k \in 1 .. n
  <2> DEFINE m == k - 1
  <2>1. m \in 0 .. n /\ m + 1 = k
    BY <1>1
  <2> HIDE DEF m
  <2>2. Between(s, ts, m + 1) \in Texts
    BY <1>0, <2>1, BetweenText
  <2> QED BY <2>1, <2>2
<1> HIDE DEF gap
<1>3. \A k \in 1 .. n : \A g \in X : (g \o gap(k)) \o w[k] \in X
  <2> TAKE k \in 1 .. n
  <2> TAKE g \in X
  <2>1. gap(k) \in Texts /\ w[k] \in Texts
    BY <1>0, <1>2
  <2>2. g \o gap(k) \in Texts
    BY <2>1, JoinText
  <2> QED BY <2>1, <2>2, JoinText
<1>4. step \in [1 .. n -> [X -> X]]
  <2> HIDE DEF n, X
  <2> QED BY <1>3
<1>5. <<>> \in X
  BY ShortText
<1>6. PICK h : Iterates(h, X, <<>>, n, step)
  <2> HIDE DEF step, X, n
  <2> QED BY <1>1, <1>4, <1>5, Iteration
<1>7. /\ h \in [D -> X] /\ h[0] = <<>>
      /\ \A k \in 1 .. n : h[k] = step[k][h[k - 1]]
  <2> HIDE DEF step, X
  <2> QED BY <1>6 DEF Iterates
<1>8. \A k \in 1 .. n : h[k] = h[k - 1] \o gap(k) \o w[k]
  <2> TAKE k \in 1 .. n
  <2>1. k - 1 \in D
    BY <1>1
  <2> HIDE DEF X, n
  <2>2. h[k - 1] \in X
    BY <1>7, <2>1
  <2>3. step[k] = [g \in X |-> (g \o gap(k)) \o w[k]]
    OBVIOUS
  <2>4. step[k][h[k - 1]] = (h[k - 1] \o gap(k)) \o w[k]
    BY <2>2, <2>3
  <2> QED BY <1>7, <2>4
<1>9. h = [k \in D |-> IF k = 0 THEN <<>> ELSE h[k - 1] \o gap(k) \o w[k]]
  <2>1. \A k \in D : h[k] = IF k = 0 THEN <<>> ELSE h[k - 1] \o gap(k) \o w[k]
    <3> TAKE k \in D
    <3>1. k = 0 \/ k \in 1 .. n
      BY <1>1
    <3> HIDE DEF D, n
    <3> QED BY <1>7, <1>8, <3>1
  <2> DEFINE body(k) == IF k = 0 THEN <<>> ELSE h[k - 1] \o gap(k) \o w[k]
  <2>2. \A k \in D : h[k] = body(k)
    BY <2>1
  <2> HIDE DEF D, body
  <2>3. h = [k \in D |-> body(k)]
    BY <1>7, <2>2
  <2> QED BY <2>3 DEF body
<1>10. F = [k \in D |-> IF k = 0 THEN <<>> ELSE F[k - 1] \o gap(k) \o w[k]]
  <2> HIDE DEF D
  <2> QED BY <1>9
<1>11. RewrittenTo(s, ts, w) = F
  BY DEF RewrittenTo, F, gap
<1> HIDE DEF F
<1>12. F[0] = <<>> /\ \A k \in 1 .. n : F[k] = F[k - 1] \o gap(k) \o w[k]
  <2>1. 0 \in D /\ \A k \in 1 .. n : k \in D /\ k # 0
    BY <1>1
  <2> DEFINE body(k) == IF k = 0 THEN <<>> ELSE F[k - 1] \o gap(k) \o w[k]
  <2>2. F = [k \in D |-> body(k)]
    BY <1>10
  <2> HIDE DEF D, body
  <2>3. F[0] = body(0) /\ \A k \in 1 .. n : F[k] = body(k)
    BY <2>1, <2>2
  <2>4. \A k \in 1 .. n : body(k) = F[k - 1] \o gap(k) \o w[k]
    BY <2>1 DEF body
  <2>5. body(0) = <<>>
    BY DEF body
  <2> HIDE DEF n
  <2> QED BY <2>3, <2>4, <2>5
<1>13. \A m \in D : F[m] \in Texts
  <2> DEFINE S == {m \in D : F[m] \in Texts}
  <2>1. 0 \in S
    BY <1>1, <1>5, <1>12
  <2>2. \A k \in 1 .. n : k - 1 \in S => k \in S
    <3> TAKE k \in 1 .. n
    <3> HAVE k - 1 \in S
    <3>1. F[k - 1] \in X
      OBVIOUS
    <3>2. k \in D
      BY <1>1
    <3> HIDE DEF D, n
    <3>3. F[k] \in X
      BY <1>3, <1>12, <3>1
    <3> QED BY <3>2, <3>3
  <2> HIDE DEF S, n
  <2>3. 0 .. n \subseteq S
    BY <1>1, <2>1, <2>2, BoundedInduction
  <2> QED BY <2>3 DEF S
<1> QED BY <1>11, <1>12, <1>13 DEF gap, RewrittenEquation

(* The text of a token is two characters of an escape, or a colon and the
   characters of a name. *)
LEMMA TokenName ==
  ASSUME NEW s, NEW t, s \in Texts, TokenOK(s, t)
  PROVE  /\ t.name \in Texts /\ t.start \in 1 .. Len(s) /\ t.next \in Nat /\ Len(t.name) \in Nat
         /\ t.name = <<>> => t.next = t.start + 2 /\ Len(t.name) = 0 /\ IsEscape(s, t.start)
         /\ t.name # <<>> => /\ t.next = t.start + 1 + Len(t.name) /\ Len(t.name) >= 1
                             /\ IsColon(s, t.start)
         /\ \A x \in 1 .. Len(t.name) : At(t.name, x) = At(s, t.start + x)
                                        /\ At(t.name, x) \in NameParts
<1>1. /\ t \in Token /\ t.start \in 1 .. Len(s) /\ t.next \in t.start + 1 .. Len(s) + 1
      /\ Len(s) \in Nat
  BY AtText DEF TokenOK
<1>2. t.name \in Texts /\ t.next \in Nat /\ Len(t.name) \in Nat
  BY <1>1, AtText DEF Token, Texts
<1>3. CASE IsEscape(s, t.start) /\ t.name = <<>> /\ t.next = t.start + 2
  <2>1. Len(t.name) = 0
    BY <1>3
  <2>2. 1 .. Len(t.name) = {}
    BY <2>1
  <2> QED BY <1>1, <1>2, <1>3, <2>1, <2>2
<1>4. CASE IsColon(s, t.start) /\ t.name = SubSeq(s, t.start + 1, t.next - 1) /\ validName(t.name)
  <2> DEFINE a == t.start + 1
             b == t.next - 1
             nm == t.name
  <2>1. a \in 1 .. Len(s) + 1 /\ b \in 0 .. Len(s) /\ a <= b + 1 /\ b - a + 1 = t.next - 1 - t.start
    <3> DEFINE x == t.start
               y == t.next
    <3>1. x \in 1 .. Len(s) /\ y \in x + 1 .. Len(s) + 1 /\ Len(s) \in Nat
      BY <1>1
    <3> HIDE DEF x, y
    <3>2. /\ x + 1 \in 1 .. Len(s) + 1 /\ y - 1 \in 0 .. Len(s) /\ x + 1 <= (y - 1) + 1
          /\ (y - 1) - (x + 1) + 1 = y - 1 - x
      BY <3>1
    <3> QED BY <3>2 DEF x, y
  <2> HIDE DEF a, b
  <2>2. /\ nm = SubSeq(s, a, b) /\ Len(SubSeq(s, a, b)) = b - a + 1
        /\ \A j \in 1 .. b - a + 1 : SubSeq(s, a, b)[j] = At(s, a + j - 1)
    <3>1. nm = SubSeq(s, a, b)
      BY <1>4 DEF a, b
    <3>2. /\ Len(SubSeq(s, a, b)) = b - a + 1
          /\ \A j \in 1 .. b - a + 1 : SubSeq(s, a, b)[j] = At(s, a + j - 1)
      BY <2>1, PartText
    <3> QED BY <3>1, <3>2
  <2>3. nm # <<>> /\ DOMAIN nm = 1 .. Len(nm) /\ \A x \in 1 .. Len(nm) : nm[x] \in NameParts
    <3>1. DOMAIN nm = 1 .. Len(nm)
      BY <1>2, AtText
    <3>2. nm # <<>> /\ \A x \in DOMAIN nm : namePart(nm[x])
      BY <1>4 DEF validName
    <3> QED BY <3>1, <3>2 DEF namePart
  <2>4. \A x \in 1 .. Len(nm) : At(nm, x) = nm[x]
    BY <1>2, AtText
  <2>5. \A x \in 1 .. Len(nm) : At(nm, x) = At(s, t.start + x)
    <3> TAKE x \in 1 .. Len(nm)
    <3>1. Len(nm) = b - a + 1
      BY <2>2
    <3>2. a + x - 1 = t.start + x
      BY <1>1, <1>2 DEF a
    <3>3. nm[x] = At(s, a + x - 1)
      BY <2>2, <3>1
    <3> QED BY <2>4, <3>2, <3>3
  <2>6. Len(nm) = t.next - 1 - t.start
    BY <2>1, <2>2
  <2>7. Len(nm) # 0
    <3>1. nm \in Seq(Bytes)
      BY <1>2 DEF Texts
    <3> QED BY <2>3, <3>1
  <2>8. t.next = t.start + 1 + Len(nm) /\ Len(nm) >= 1
    BY <1>1, <1>2, <2>6, <2>7
  <2> QED BY <1>1, <1>2, <1>4, <2>3, <2>4, <2>5, <2>8
<1> QED BY <1>3, <1>4 DEF TokenOK

(* What is written for a token that is escaped. *)
LEMMA EscapeText ==
  ASSUME NEW nm \in Texts
  PROVE  LET w == <<"\\", ":">> \o nm
         IN /\ w \in Texts /\ Len(w) = 2 + Len(nm) /\ At(w, 1) = "\\" /\ At(w, 2) = ":"
            /\ \A x \in 1 .. Len(nm) : At(w, 2 + x) = At(nm, x)
<1> DEFINE u == <<"\\", ":">>
           w == u \o nm
<1>1. u \in Texts /\ Len(u) = 2 /\ At(u, 1) = "\\" /\ At(u, 2) = ":"
  <2>1. "\\" \in Bytes /\ ":" \in Bytes
    BY ShortText DEF Marks
  <2> QED BY <2>1, ShortText
<1> HIDE DEF u
<1>2. /\ w \in Texts /\ Len(w) = 2 + Len(nm)
      /\ \A j \in Int : At(w, j) = IF j <= 2 THEN At(u, j) ELSE At(nm, j - 2)
  <2>1. /\ w \in Texts /\ Len(w) = Len(u) + Len(nm)
        /\ \A j \in Int : At(w, j) = IF j <= Len(u) THEN At(u, j) ELSE At(nm, j - Len(u))
    BY <1>1, JoinText
  <2> QED BY <1>1, <2>1
<1>3. Len(nm) \in Nat
  BY AtText
<1> HIDE DEF w
<1>4. \A x \in 1 .. Len(nm) : At(w, 2 + x) = At(nm, x)
  <2> TAKE x \in 1 .. Len(nm)
  <2>1. 2 + x \in Int /\ ~(2 + x <= 2) /\ (2 + x) - 2 = x
    BY <1>3
  <2> QED BY <1>2, <2>1
<1> QED BY <1>1, <1>2, <1>4 DEF w, u

(* Where a text joined from three is each of them. *)
IsJoined(v, u, g, w) ==
  /\ v \in Texts /\ Len(v) = Len(u) + Len(g) + Len(w)
  /\ \A j \in Int : j <= Len(u) => At(v, j) = At(u, j)
  /\ \A j \in 1 .. Len(g) : At(v, Len(u) + j) = At(g, j)
  /\ \A j \in 1 .. Len(w) : At(v, (Len(u) + Len(g)) + j) = At(w, j)

(* Texts written one after the other are joined so. *)
LEMMA ThreeTexts ==
  ASSUME NEW u \in Texts, NEW g \in Texts, NEW w \in Texts
  PROVE  IsJoined(u \o g \o w, u, g, w)
<1> DEFINE x == u \o g
           v == x \o w
<1>1. Len(u) \in Nat /\ Len(g) \in Nat /\ Len(w) \in Nat
  BY AtText
<1>2. /\ x \in Texts /\ Len(x) = Len(u) + Len(g)
      /\ \A j \in Int : At(x, j) = IF j <= Len(u) THEN At(u, j) ELSE At(g, j - Len(u))
  BY JoinText
<1> HIDE DEF x
<1>3. /\ v \in Texts /\ Len(v) = Len(x) + Len(w)
      /\ \A j \in Int : At(v, j) = IF j <= Len(x) THEN At(x, j) ELSE At(w, j - Len(x))
  BY <1>2, JoinText
<1> HIDE DEF v
<1>4. \A j \in Int : j <= Len(u) => At(v, j) = At(u, j)
  BY <1>1, <1>2, <1>3
<1>5. \A j \in 1 .. Len(g) : At(v, Len(u) + j) = At(g, j)
  <2> TAKE j \in 1 .. Len(g)
  <2>1. /\ Len(u) + j \in Int /\ Len(u) + j <= Len(x) /\ ~(Len(u) + j <= Len(u))
        /\ (Len(u) + j) - Len(u) = j
    BY <1>1, <1>2
  <2> QED BY <1>2, <1>3, <2>1
<1>6. \A j \in 1 .. Len(w) : At(v, (Len(u) + Len(g)) + j) = At(w, j)
  <2> TAKE j \in 1 .. Len(w)
  <2>1. /\ (Len(u) + Len(g)) + j \in Int /\ ~((Len(u) + Len(g)) + j <= Len(x))
        /\ ((Len(u) + Len(g)) + j) - Len(x) = j
    BY <1>1, <1>2
  <2> QED BY <1>3, <2>1
<1>7. Len(v) = Len(u) + Len(g) + Len(w)
  BY <1>2, <1>3
<1> QED BY <1>3, <1>4, <1>5, <1>6, <1>7 DEF IsJoined, v, x

(* The escaped text up to token m, and how far it is ahead of the text. *)
Upto(s, ts, m)  == RewrittenTo(s, ts, Escapes(ts))[m]
Ahead(s, ts, m) == Len(Upto(s, ts, m)) + 1 - End(ts, m)
Escaped(s, ts)  == Rewritten(s, ts, Escapes(ts))

(* Its recursion. *)
LEMMA UptoStep ==
  ASSUME NEW s, NEW ts, s \in Texts, TokensFrom(s, 1, ts)
  PROVE  /\ \A m \in 0 .. Len(ts) : Upto(s, ts, m) \in Texts /\ Between(s, ts, m + 1) \in Texts
         /\ Upto(s, ts, 0) = <<>>
         /\ \A k \in 1 .. Len(ts) :
              Upto(s, ts, k)
                = Upto(s, ts, k - 1) \o Between(s, ts, k) \o (<<"\\", ":">> \o ts[k].name)
         /\ Escaped(s, ts) = Upto(s, ts, Len(ts)) \o Between(s, ts, Len(ts) + 1)
<1>1. DOMAIN ts = 1 .. Len(ts)
  BY DEF TokensFrom
<1>2. \A k \in 1 .. Len(ts) : Escapes(ts)[k] = <<"\\", ":">> \o ts[k].name
  BY <1>1 DEF Escapes
<1>3. \A k \in 1 .. Len(ts) : Escapes(ts)[k] \in Texts
  <2> TAKE k \in 1 .. Len(ts)
  <2>1. ts[k].name \in Texts
    BY TokenPlaces
  <2>2. <<"\\", ":">> \o ts[k].name \in Texts
    BY <2>1, EscapeText
  <2> QED BY <1>2, <2>2
<1> DEFINE w == Escapes(ts)
           f == RewrittenTo(s, ts, w)
<1> HIDE DEF w
<1>4. /\ \A m \in 0 .. Len(ts) : f[m] \in Texts
      /\ f[0] = <<>>
      /\ \A k \in 1 .. Len(ts) : f[k] = f[k - 1] \o Between(s, ts, k) \o w[k]
  <2>1. IsWritten(s, ts, w)
    BY <1>3 DEF IsWritten, w
  <2>2. RewrittenEquation(s, ts, w, f)
    BY <2>1, RewrittenRecursion
  <2> HIDE DEF f
  <2> QED BY <2>2 DEF RewrittenEquation
<1>5. \A m \in 0 .. Len(ts) : Between(s, ts, m + 1) \in Texts
  BY BetweenText
<1>6. Escaped(s, ts) = f[Len(ts)] \o Between(s, ts, Len(ts) + 1)
  BY DEF Escaped, Rewritten, w
<1> HIDE DEF f
<1> QED BY <1>2, <1>4, <1>5, <1>6 DEF Upto, f, w

(* What token k adds to the escaped text: the text before it, and what is
   written for it. *)
LEMMA UptoLength ==
  ASSUME NEW s, NEW ts, s \in Texts, TokensFrom(s, 1, ts), NEW k \in 1 .. Len(ts)
  PROVE  /\ k - 1 \in 0 .. Len(ts) /\ Len(Upto(s, ts, k - 1)) \in Nat
         /\ Len(Upto(s, ts, k))
              = Len(Upto(s, ts, k - 1)) + (Begin(s, ts, k) - End(ts, k - 1))
                  + (2 + Len(ts[k].name))
         /\ \A j \in Int : j <= Len(Upto(s, ts, k - 1)) =>
              At(Upto(s, ts, k), j) = At(Upto(s, ts, k - 1), j)
         /\ \A p \in End(ts, k - 1) .. Begin(s, ts, k) - 1 :
              At(Upto(s, ts, k), p + Ahead(s, ts, k - 1)) = At(s, p)
         /\ LET c == Begin(s, ts, k) + Ahead(s, ts, k - 1)
            IN /\ At(Upto(s, ts, k), c) = "\\" /\ At(Upto(s, ts, k), c + 1) = ":"
               /\ \A x \in 1 .. Len(ts[k].name) :
                    At(Upto(s, ts, k), (c + 1) + x) = At(ts[k].name, x)
<1> DEFINE m == k - 1
           u == Upto(s, ts, m)
           v == Upto(s, ts, k)
           gap == Between(s, ts, k)
           nm == ts[k].name
           w == <<"\\", ":">> \o nm
           a == End(ts, m)
           b == Begin(s, ts, k)
           c == b + Ahead(s, ts, m)
<1>1. Len(ts) \in Nat /\ Len(s) \in Nat
  BY TokenPlaces
<1>2. m \in 0 .. Len(ts) /\ m + 1 = k
  BY <1>1
<1> HIDE DEF m
<1>3. /\ gap \in Texts /\ Len(gap) = b - a
      /\ \A j \in Int : At(gap, j) = IF j \in 1 .. b - a THEN At(s, (a + j) - 1) ELSE "END"
  BY <1>2, BetweenText
<1>4. a \in 1 .. Len(s) + 1 /\ b \in 1 .. Len(s) + 1 /\ a <= b /\ nm \in Texts
  BY <1>2, TokenPlaces
<1>5. u \in Texts /\ v = u \o gap \o w
  <2>1. k - 1 = m
    BY DEF m
  <2>2. Upto(s, ts, k) = Upto(s, ts, k - 1) \o gap \o w
    BY UptoStep
  <2> HIDE DEF gap, w
  <2> QED BY <1>2, <2>1, <2>2, UptoStep
<1>6. /\ w \in Texts /\ Len(w) = 2 + Len(nm) /\ At(w, 1) = "\\" /\ At(w, 2) = ":"
      /\ \A x \in 1 .. Len(nm) : At(w, 2 + x) = At(nm, x)
  BY <1>4, EscapeText
<1> HIDE DEF u, v, gap, w, nm
<1>7. /\ Len(v) = Len(u) + Len(gap) + Len(w)
      /\ \A j \in Int : j <= Len(u) => At(v, j) = At(u, j)
      /\ \A j \in 1 .. Len(gap) : At(v, Len(u) + j) = At(gap, j)
      /\ \A j \in 1 .. Len(w) : At(v, (Len(u) + Len(gap)) + j) = At(w, j)
  <2>1. IsJoined(u \o gap \o w, u, gap, w)
    BY <1>3, <1>5, <1>6, ThreeTexts
  <2>2. IsJoined(v, u, gap, w)
    BY <1>5, <2>1, Zenon
  <2> QED BY <2>2 DEF IsJoined
<1>8. Len(u) \in Nat /\ Len(nm) \in Nat
  BY <1>4, <1>5, AtText
<1>9. Ahead(s, ts, m) = Len(u) + 1 - a
  BY DEF Ahead, u
<1> HIDE DEF a, b
<1> DEFINE h == Ahead(s, ts, m)
<1>10. h = Len(u) + 1 - a /\ c = b + h
  BY <1>9
<1> HIDE DEF h, c
<1>11. \A p \in a .. b - 1 : At(v, p + h) = At(s, p)
  <2> TAKE p \in a .. b - 1
  <2> DEFINE j == p - a + 1
  <2>1. j \in 1 .. Len(gap) /\ Len(u) + j = p + h /\ (a + j) - 1 = p /\ j \in Int /\ j \in 1 .. b - a
    BY <1>3, <1>4, <1>8, <1>10
  <2> HIDE DEF j
  <2>2. At(v, p + h) = At(gap, j)
    BY <1>7, <2>1
  <2>3. At(gap, j) = At(s, p)
    BY <1>3, <2>1
  <2> QED BY <2>2, <2>3
<1>12. At(v, c) = "\\" /\ At(v, c + 1) = ":"
  <2>1. /\ 1 \in 1 .. Len(w) /\ 2 \in 1 .. Len(w)
        /\ (Len(u) + Len(gap)) + 1 = c /\ (Len(u) + Len(gap)) + 2 = c + 1
    BY <1>3, <1>4, <1>6, <1>8, <1>10
  <2>2. At(v, (Len(u) + Len(gap)) + 1) = At(w, 1) /\ At(v, (Len(u) + Len(gap)) + 2) = At(w, 2)
    BY <1>7, <2>1
  <2> QED BY <1>6, <2>1, <2>2
<1>13. \A x \in 1 .. Len(nm) : At(v, (c + 1) + x) = At(nm, x)
  <2> TAKE x \in 1 .. Len(nm)
  <2> DEFINE j == 2 + x
  <2>1. j \in 1 .. Len(w) /\ (Len(u) + Len(gap)) + j = (c + 1) + x
    BY <1>3, <1>4, <1>6, <1>8, <1>10
  <2>2. At(w, j) = At(nm, x)
    BY <1>6
  <2> HIDE DEF j
  <2>3. At(v, (c + 1) + x) = At(w, j)
    BY <1>7, <2>1
  <2> QED BY <2>2, <2>3
<1>14. Len(v) = Len(u) + (b - a) + (2 + Len(nm))
  BY <1>3, <1>6, <1>7
<1> QED BY <1>2, <1>7, <1>8, <1>11, <1>12, <1>13, <1>14 DEF u, v, nm, a, b, c, h, m

(* Each parameter puts the escaped text one character more ahead, an escape
   none. *)
LEMMA AheadSteps ==
  ASSUME NEW s, NEW ts, s \in Texts, TokensFrom(s, 1, ts)
  PROVE  /\ \A m \in 0 .. Len(ts) : /\ Ahead(s, ts, m) \in Nat
                                    /\ Len(Upto(s, ts, m)) = (End(ts, m) - 1) + Ahead(s, ts, m)
         /\ Ahead(s, ts, 0) = 0
         /\ \A k \in 1 .. Len(ts) :
              /\ ts[k].name = <<>> => /\ Ahead(s, ts, k) = Ahead(s, ts, k - 1)
                                      /\ End(ts, k) = Begin(s, ts, k) + 2
                                      /\ IsEscape(s, Begin(s, ts, k))
              /\ ts[k].name # <<>> => /\ Ahead(s, ts, k) = Ahead(s, ts, k - 1) + 1
                                      /\ End(ts, k) = Begin(s, ts, k) + 1 + Len(ts[k].name)
                                      /\ IsColon(s, Begin(s, ts, k))
                                      /\ Len(ts[k].name) >= 1
<1> DEFINE n == Len(ts)
           S == {m \in 0 .. n : Ahead(s, ts, m) \in Nat}
<1>1. n \in Nat /\ Len(s) \in Nat
  BY TokenPlaces
<1>2. Ahead(s, ts, 0) = 0
  <2>1. Len(Upto(s, ts, 0)) = 0
    BY UptoStep, ShortText
  <2>2. End(ts, 0) = 1
    BY DEF End
  <2> QED BY <2>1, <2>2 DEF Ahead
<1>3. ASSUME NEW k \in 1 .. n
      PROVE  /\ ts[k].name = <<>> => /\ Ahead(s, ts, k) = Ahead(s, ts, k - 1)
                                     /\ End(ts, k) = Begin(s, ts, k) + 2
                                     /\ IsEscape(s, Begin(s, ts, k))
             /\ ts[k].name # <<>> => /\ Ahead(s, ts, k) = Ahead(s, ts, k - 1) + 1
                                     /\ End(ts, k) = Begin(s, ts, k) + 1 + Len(ts[k].name)
                                     /\ IsColon(s, Begin(s, ts, k))
                                     /\ Len(ts[k].name) >= 1
  <2> DEFINE u == Len(Upto(s, ts, k - 1))
             v == Len(Upto(s, ts, k))
             a == End(ts, k - 1)
             b == Begin(s, ts, k)
             e == End(ts, k)
             x == Len(ts[k].name)
  <2>1. k - 1 \in 0 .. n /\ u \in Nat /\ v = u + (b - a) + (2 + x)
    BY UptoLength
  <2>2. b = ts[k].start /\ e = ts[k].next /\ TokenOK(s, ts[k])
    BY TokenPlaces
  <2>3. a \in Nat
    <3> DEFINE m == k - 1
    <3>1. m \in 0 .. n
      BY <2>1
    <3> HIDE DEF m
    <3>2. End(ts, m) \in 1 .. Len(s) + 1
      BY <3>1, TokenPlaces
    <3> QED BY <1>1, <3>2 DEF m
  <2>4. /\ b \in Nat /\ e \in Nat /\ x \in Nat
        /\ ts[k].name = <<>> => e = b + 2 /\ x = 0 /\ IsEscape(s, b)
        /\ ts[k].name # <<>> => e = b + 1 + x /\ x >= 1 /\ IsColon(s, b)
    <3>1. /\ ts[k].start \in 1 .. Len(s) /\ ts[k].next \in Nat /\ x \in Nat
          /\ ts[k].name = <<>> => ts[k].next = ts[k].start + 2 /\ x = 0 /\ IsEscape(s, ts[k].start)
          /\ ts[k].name # <<>> => /\ ts[k].next = ts[k].start + 1 + x /\ x >= 1
                                  /\ IsColon(s, ts[k].start)
      BY <2>2, TokenName
    <3> QED BY <1>1, <2>2, <3>1
  <2>5. Ahead(s, ts, k) = v + 1 - e /\ Ahead(s, ts, k - 1) = u + 1 - a
    BY DEF Ahead
  <2> HIDE DEF u, v, a, b, e, x
  <2>6. /\ ts[k].name = <<>> => v + 1 - e = u + 1 - a
        /\ ts[k].name # <<>> => v + 1 - e = (u + 1 - a) + 1
    BY <2>1, <2>3, <2>4
  <2> QED BY <2>4, <2>5, <2>6 DEF b, e, x
<1>4. 0 .. n \subseteq S
  <2>1. 0 \in S
    BY <1>1, <1>2
  <2>2. \A k \in 1 .. n : k - 1 \in S => k \in S
    <3> TAKE k \in 1 .. n
    <3> HAVE k - 1 \in S
    <3>1. Ahead(s, ts, k - 1) \in Nat
      OBVIOUS
    <3>2. Ahead(s, ts, k) \in Nat
      BY <1>3, <3>1
    <3>3. k \in 0 .. n
      BY <1>1
    <3> QED BY <3>2, <3>3
  <2> HIDE DEF S, n
  <2> QED BY <1>1, <2>1, <2>2, BoundedInduction
<1>5. \A m \in 0 .. n : Len(Upto(s, ts, m)) = (End(ts, m) - 1) + Ahead(s, ts, m)
  <2> TAKE m \in 0 .. n
  <2>1. Upto(s, ts, m) \in Texts
    BY UptoStep
  <2>2. Len(Upto(s, ts, m)) \in Nat
    BY <2>1, AtText
  <2>3. End(ts, m) \in Nat
    BY <1>1, TokenPlaces
  <2> QED BY <2>2, <2>3 DEF Ahead
<1> QED BY <1>2, <1>3, <1>4, <1>5

(* The escaped text t starts with what is written up to each token. *)
LEMMA UptoPrefix ==
  ASSUME NEW s, NEW ts, s \in Texts, TokensFrom(s, 1, ts), NEW m0 \in 0 .. Len(ts)
  PROVE  /\ Escaped(s, ts) \in Texts
         /\ Len(Escaped(s, ts)) = Len(s) + Ahead(s, ts, Len(ts))
         /\ \A j \in Int : j <= Len(Upto(s, ts, m0)) =>
              At(Escaped(s, ts), j) = At(Upto(s, ts, m0), j)
         /\ \A p \in End(ts, Len(ts)) .. Len(s) :
              At(Escaped(s, ts), p + Ahead(s, ts, Len(ts))) = At(s, p)
<1> DEFINE n == Len(ts)
           t == Escaped(s, ts)
           u == Upto(s, ts, n)
           gap == Between(s, ts, n + 1)
           a == End(ts, n)
           b == Begin(s, ts, n + 1)
           h == Ahead(s, ts, n)
           L(m) == Len(Upto(s, ts, m))
           Same(m) == \A j \in Int : j <= L(m) => At(t, j) = At(Upto(s, ts, m), j)
           S == {k \in 1 .. n + 1 : Same(k - 1)}
<1>1. n \in Nat /\ Len(s) \in Nat /\ n \in 0 .. n
  BY TokenPlaces
<1> HIDE DEF n
<1>2. /\ gap \in Texts /\ Len(gap) = b - a
      /\ \A j \in Int : At(gap, j) = IF j \in 1 .. b - a THEN At(s, (a + j) - 1) ELSE "END"
  <2>1. n \in 0 .. Len(ts)
    BY <1>1 DEF n
  <2> QED BY <2>1, BetweenText
<1>3. /\ a \in 1 .. Len(s) + 1 /\ b = Len(s) + 1 /\ h \in Nat /\ Len(u) = (a - 1) + h
      /\ u \in Texts /\ t = u \o gap
  <2>1. n \in 0 .. Len(ts) /\ n = Len(ts)
    BY <1>1 DEF n
  <2>2. a \in 1 .. Len(s) + 1 /\ Begin(s, ts, Len(ts) + 1) = Len(s) + 1
    BY <2>1, TokenPlaces
  <2>3. h \in Nat /\ Len(u) = (a - 1) + h
    BY <2>1, AheadSteps
  <2>4. u \in Texts /\ Escaped(s, ts) = Upto(s, ts, Len(ts)) \o Between(s, ts, Len(ts) + 1)
    BY <2>1, UptoStep
  <2> QED BY <2>1, <2>2, <2>3, <2>4, Zenon
<1> HIDE DEF t, u, gap, a, b, h
<1>4. /\ t \in Texts /\ Len(t) = Len(u) + Len(gap)
      /\ \A j \in Int : At(t, j) = IF j <= Len(u) THEN At(u, j) ELSE At(gap, j - Len(u))
  <2>1. /\ u \o gap \in Texts /\ Len(u \o gap) = Len(u) + Len(gap)
        /\ \A j \in Int : At(u \o gap, j) = IF j <= Len(u) THEN At(u, j) ELSE At(gap, j - Len(u))
    BY <1>2, <1>3, JoinText
  <2> QED BY <1>3, <2>1, Zenon
<1>5. Len(t) = Len(s) + h
  BY <1>1, <1>2, <1>3, <1>4
<1>6. \A p \in a .. Len(s) : At(t, p + h) = At(s, p)
  <2> TAKE p \in a .. Len(s)
  <2> DEFINE j == p - a + 1
  <2>1. /\ p + h \in Int /\ ~(p + h <= Len(u)) /\ (p + h) - Len(u) = j /\ j \in 1 .. b - a
        /\ j \in Int /\ (a + j) - 1 = p
    BY <1>1, <1>3
  <2> HIDE DEF j
  <2>2. At(t, p + h) = At(gap, j)
    BY <1>4, <2>1
  <2>3. At(gap, j) = At(s, p)
    BY <1>2, <2>1
  <2> QED BY <2>2, <2>3
<1>7. ASSUME NEW k \in 1 .. n + 1, \A m \in k + 1 .. n + 1 : m \in S PROVE k \in S
  <2>1. CASE k = n + 1
    <3>1. k - 1 = n
      BY <1>1, <2>1
    <3>2. Same(n)
      BY <1>4 DEF u
    <3> HIDE DEF Same
    <3> QED BY <3>1, <3>2
  <2>2. CASE k # n + 1
    <3>1. k \in 1 .. Len(ts) /\ k + 1 \in k + 1 .. n + 1 /\ (k + 1) - 1 = k
      BY <1>1, <2>2 DEF n
    <3>2. Same(k)
      <4>1. k + 1 \in S
        BY <1>7, <3>1
      <4>2. Same((k + 1) - 1)
        BY <4>1
      <4> HIDE DEF Same
      <4> QED BY <3>1, <4>2
    <3>3. /\ L(k - 1) <= L(k)
          /\ \A j \in Int : j <= L(k - 1) => At(Upto(s, ts, k), j) = At(Upto(s, ts, k - 1), j)
          /\ L(k) \in Int /\ L(k - 1) \in Int
      <4>1. /\ L(k - 1) \in Nat
            /\ L(k) = L(k - 1) + (Begin(s, ts, k) - End(ts, k - 1)) + (2 + Len(ts[k].name))
            /\ \A j \in Int : j <= L(k - 1) => At(Upto(s, ts, k), j) = At(Upto(s, ts, k - 1), j)
        BY <3>1, UptoLength
      <4>2. End(ts, k - 1) <= Begin(s, ts, k) /\ End(ts, k - 1) \in Nat /\ Begin(s, ts, k) \in Nat
        <5> DEFINE m == k - 1
        <5>1. m \in 0 .. Len(ts) /\ m + 1 = k
          BY <1>1, <3>1
        <5> HIDE DEF m
        <5>2. /\ End(ts, m) \in 1 .. Len(s) + 1 /\ Begin(s, ts, m + 1) \in 1 .. Len(s) + 1
              /\ End(ts, m) <= Begin(s, ts, m + 1)
          BY <5>1, TokenPlaces
        <5> QED BY <1>1, <5>1, <5>2 DEF m
      <4>3. Len(ts[k].name) \in Nat
        <5>1. ts[k].name \in Texts
          BY <3>1, TokenPlaces
        <5> QED BY <5>1, AtText
      <4> HIDE DEF L
      <4>4. L(k - 1) <= L(k) /\ L(k) \in Int
        BY <4>1, <4>2, <4>3, SMTT(30)
      <4> QED BY <4>1, <4>4
    <3>4. Same(k - 1)
      <4> TAKE j \in Int
      <4> HAVE j <= L(k - 1)
      <4> HIDE DEF L
      <4>1. j <= L(k)
        BY <3>3
      <4> QED BY <3>2, <3>3, <4>1
    <3> HIDE DEF Same
    <3> QED BY <3>4
  <2> QED BY <2>1, <2>2
<1>8. \A k \in 1 .. n + 1 : k \in S
  <2>1. n + 1 \in Nat
    BY <1>1
  <2> HIDE DEF S
  <2> QED BY <1>7, <2>1, BackwardInduction
<1>9. Same(m0)
  <2> DEFINE k == m0 + 1
  <2>1. k \in 1 .. n + 1 /\ k - 1 = m0
    BY <1>1 DEF n
  <2> HIDE DEF k
  <2>2. Same(k - 1)
    BY <1>8, <2>1
  <2> HIDE DEF Same
  <2> QED BY <2>1, <2>2
<1> QED BY <1>4, <1>5, <1>6, <1>9 DEF t, h, a, n

(* The escaped text is the text, ahead by one more character after each
   parameter, with an escaped colon where each token starts. *)
IsEscaped(s, ts, t) ==
  /\ t \in Texts /\ Len(t) = Len(s) + Ahead(s, ts, Len(ts))
  /\ \A m \in 0 .. Len(ts) : \A p \in End(ts, m) .. Begin(s, ts, m + 1) - 1 :
       At(t, p + Ahead(s, ts, m)) = At(s, p)
  /\ \A k \in 1 .. Len(ts) :
       LET c == Begin(s, ts, k) + Ahead(s, ts, k - 1)
       IN /\ At(t, c) = "\\" /\ At(t, c + 1) = ":"
          /\ \A x \in 1 .. Len(ts[k].name) : At(t, (c + 1) + x) = At(ts[k].name, x)

(* The escaped text has that layout. *)
LEMMA EscapedLayout ==
  ASSUME NEW s, NEW ts, s \in Texts, TokensFrom(s, 1, ts)
  PROVE  IsEscaped(s, ts, Escaped(s, ts))
<1> DEFINE n == Len(ts)
           t == Escaped(s, ts)
<1>1. n \in Nat /\ Len(s) \in Nat /\ n \in 0 .. n
  BY TokenPlaces
<1>2. /\ t \in Texts /\ Len(t) = Len(s) + Ahead(s, ts, n)
      /\ \A p \in End(ts, n) .. Len(s) : At(t, p + Ahead(s, ts, n)) = At(s, p)
  BY <1>1, UptoPrefix
<1>3. ASSUME NEW k \in 1 .. n
      PROVE  \A j \in Int : j <= Len(Upto(s, ts, k)) => At(t, j) = At(Upto(s, ts, k), j)
  <2>1. k \in 0 .. n
    BY <1>1
  <2> QED BY <2>1, UptoPrefix
<1> HIDE DEF t
<1>4. ASSUME NEW k \in 1 .. n
      PROVE  /\ \A p \in End(ts, k - 1) .. Begin(s, ts, k) - 1 :
                  At(t, p + Ahead(s, ts, k - 1)) = At(s, p)
             /\ LET c == Begin(s, ts, k) + Ahead(s, ts, k - 1)
                IN /\ At(t, c) = "\\" /\ At(t, c + 1) = ":"
                   /\ \A x \in 1 .. Len(ts[k].name) : At(t, (c + 1) + x) = At(ts[k].name, x)
  <2> DEFINE v == Upto(s, ts, k)
             u == Upto(s, ts, k - 1)
             a == End(ts, k - 1)
             b == Begin(s, ts, k)
             h == Ahead(s, ts, k - 1)
             c == b + h
             nm == ts[k].name
  <2>1. /\ Len(u) \in Nat /\ Len(v) = Len(u) + (b - a) + (2 + Len(nm))
        /\ \A p \in a .. b - 1 : At(v, p + h) = At(s, p)
        /\ At(v, c) = "\\" /\ At(v, c + 1) = ":"
        /\ \A x \in 1 .. Len(nm) : At(v, (c + 1) + x) = At(nm, x)
    BY UptoLength
  <2>2. /\ a \in Nat /\ b \in Nat /\ a <= b /\ h \in Nat /\ Len(u) = (a - 1) + h
    <3> DEFINE m == k - 1
    <3>1. m \in 0 .. Len(ts) /\ m + 1 = k
      BY <1>1
    <3> HIDE DEF m
    <3>2. /\ End(ts, m) \in 1 .. Len(s) + 1 /\ Begin(s, ts, m + 1) \in 1 .. Len(s) + 1
          /\ End(ts, m) <= Begin(s, ts, m + 1)
      BY <3>1, TokenPlaces
    <3>3. Ahead(s, ts, m) \in Nat /\ Len(Upto(s, ts, m)) = (End(ts, m) - 1) + Ahead(s, ts, m)
      BY <3>1, AheadSteps
    <3>4. End(ts, m) \in Nat /\ Begin(s, ts, m + 1) \in Nat
      BY <1>1, <3>2
    <3> QED BY <3>1, <3>2, <3>3, <3>4 DEF m
  <2>3. Len(nm) \in Nat
    <3>1. nm \in Texts
      BY TokenPlaces
    <3> QED BY <3>1, AtText
  <2>4. \A j \in Int : j <= Len(v) => At(t, j) = At(v, j)
    BY <1>3
  <2> HIDE DEF u, v, a, b, h, nm
  <2>5. \A p \in a .. b - 1 : At(t, p + h) = At(s, p)
    <3> TAKE p \in a .. b - 1
    <3>1. p + h \in Int /\ p + h <= Len(v)
      BY <2>1, <2>2, <2>3
    <3> QED BY <2>1, <2>4, <3>1
  <2>6. At(t, c) = "\\" /\ At(t, c + 1) = ":"
    <3>1. c \in Int /\ c + 1 \in Int /\ c <= Len(v) /\ c + 1 <= Len(v)
      BY <2>1, <2>2, <2>3
    <3> HIDE DEF c
    <3> QED BY <2>1, <2>4, <3>1
  <2>7. \A x \in 1 .. Len(nm) : At(t, (c + 1) + x) = At(nm, x)
    <3> TAKE x \in 1 .. Len(nm)
    <3>1. (c + 1) + x \in Int /\ (c + 1) + x <= Len(v)
      BY <2>1, <2>2, <2>3
    <3> HIDE DEF c
    <3> QED BY <2>1, <2>4, <3>1
  <2> QED BY <2>5, <2>6, <2>7 DEF a, b, h, nm
<1>5. ASSUME NEW m \in 0 .. n, NEW p \in End(ts, m) .. Begin(s, ts, m + 1) - 1
      PROVE  At(t, p + Ahead(s, ts, m)) = At(s, p)
  <2>1. CASE m = n
    <3>1. Begin(s, ts, m + 1) - 1 = Len(s)
      <4>1. Begin(s, ts, n + 1) = Len(s) + 1
        BY TokenPlaces
      <4> QED BY <1>1, <2>1, <4>1
    <3> QED BY <1>2, <2>1, <3>1
  <2>2. CASE m # n
    <3> DEFINE k == m + 1
    <3>1. k \in 1 .. n /\ k - 1 = m
      BY <1>1, <2>2
    <3> HIDE DEF k
    <3>2. \A q \in End(ts, k - 1) .. Begin(s, ts, k) - 1 : At(t, q + Ahead(s, ts, k - 1)) = At(s, q)
      BY <1>4, <3>1
    <3>3. \A q \in End(ts, m) .. Begin(s, ts, k) - 1 : At(t, q + Ahead(s, ts, m)) = At(s, q)
      BY <3>1, <3>2
    <3> QED BY <3>3 DEF k
  <2> QED BY <2>1, <2>2
<1> QED BY <1>2, <1>4, <1>5 DEF IsEscaped, t

(* The escaped text is the text from the start of a token to the next one. *)
LEMMA EscapedAlike ==
  ASSUME NEW s, NEW ts, NEW t, s \in Texts, TokensFrom(s, 1, ts), IsEscaped(s, ts, t),
         NEW m \in 0 .. Len(ts)
  PROVE  /\ \A p \in Begin(s, ts, m) .. Begin(s, ts, m + 1) - 1 :
              At(t, p + Ahead(s, ts, m)) = At(s, p)
         /\ m # 0 => Begin(s, ts, m) + 2 <= End(ts, m)
<1> DEFINE a == Begin(s, ts, m)
           e == End(ts, m)
           b == Begin(s, ts, m + 1)
           h == Ahead(s, ts, m)
           nm == ts[m].name
<1>1. /\ Len(ts) \in Nat /\ Len(s) \in Nat /\ a \in 1 .. Len(s) + 1 /\ b \in 1 .. Len(s) + 1
      /\ e \in 1 .. Len(s) + 1 /\ e <= b
  BY TokenPlaces
<1>2. h \in Nat
  BY AheadSteps
<1>3. \A p \in e .. b - 1 : At(t, p + h) = At(s, p)
  BY DEF IsEscaped
<1>4. CASE m = 0
  <2>1. a = e
    BY <1>4 DEF Begin, End
  <2> QED BY <1>3, <1>4, <2>1
<1>5. CASE m # 0
  <2> DEFINE g == Ahead(s, ts, m - 1)
             c == a + g
  <2>1. m \in 1 .. Len(ts) /\ m - 1 \in 0 .. Len(ts)
    BY <1>1, <1>5
  <2>2. /\ nm = <<>> => h = g /\ e = a + 2 /\ IsEscape(s, a)
        /\ nm # <<>> => h = g + 1 /\ e = a + 1 + Len(nm) /\ IsColon(s, a) /\ Len(nm) >= 1
        /\ g \in Nat
    <3>1. g \in Nat
      <4> DEFINE q == m - 1
      <4>1. q \in 0 .. Len(ts)
        BY <2>1
      <4> HIDE DEF q
      <4>2. Ahead(s, ts, q) \in Nat
        BY <4>1, AheadSteps
      <4> QED BY <4>2 DEF q
    <3>2. /\ nm = <<>> => h = g /\ e = a + 2 /\ IsEscape(s, a)
          /\ nm # <<>> => h = g + 1 /\ e = a + 1 + Len(nm) /\ IsColon(s, a) /\ Len(nm) >= 1
      BY <2>1, AheadSteps
    <3> QED BY <3>1, <3>2
  <2>3. /\ At(t, c) = "\\" /\ At(t, c + 1) = ":"
        /\ \A x \in 1 .. Len(nm) : At(t, (c + 1) + x) = At(nm, x)
    BY <2>1 DEF IsEscaped
  <2>4. Len(nm) \in Nat /\ \A x \in 1 .. Len(nm) : At(nm, x) = At(s, a + x)
    <3>1. TokenOK(s, ts[m]) /\ a = ts[m].start
      BY <2>1, TokenPlaces
    <3>2. Len(nm) \in Nat /\ \A x \in 1 .. Len(nm) : At(nm, x) = At(s, ts[m].start + x)
      <4> DEFINE y == ts[m]
      <4> HIDE DEF y
      <4>1. TokenOK(s, y)
        BY <3>1 DEF y
      <4>2. /\ Len(y.name) \in Nat
            /\ \A x \in 1 .. Len(y.name) : At(y.name, x) = At(s, y.start + x)
        BY <4>1, TokenName
      <4> QED BY <4>2 DEF y
    <3> HIDE DEF nm, a
    <3> QED BY <3>1, <3>2
  <2> HIDE DEF g, nm, a, e, b, h
  <2>5. \A p \in a .. e - 1 : At(t, p + h) = At(s, p)
    <3> TAKE p \in a .. e - 1
    <3>1. CASE nm = <<>>
      <4>1. At(s, a) = "\\" /\ At(s, a + 1) = ":"
        BY <2>2, <3>1 DEF IsEscape, Pair
      <4>2. (p + h = c /\ p = a) \/ (p + h = c + 1 /\ p = a + 1)
        BY <1>1, <1>2, <2>2, <3>1
      <4> HIDE DEF c
      <4> QED BY <2>3, <4>1, <4>2
    <3>2. CASE nm # <<>>
      <4>1. At(s, a) = ":"
        BY <2>2, <3>2 DEF IsColon
      <4>2. CASE p = a
        <5>1. p + h = c + 1
          BY <1>1, <1>2, <2>2, <3>2, <4>2
        <5> HIDE DEF c
        <5> QED BY <2>3, <4>1, <4>2, <5>1
      <4>3. CASE p # a
        <5> DEFINE x == p - a
        <5>1. x \in 1 .. Len(nm) /\ (c + 1) + x = p + h /\ a + x = p
          BY <1>1, <1>2, <2>2, <2>4, <3>2, <4>3
        <5> HIDE DEF c, x
        <5> QED BY <2>3, <2>4, <5>1
      <4> QED BY <4>2, <4>3
    <3> QED BY <3>1, <3>2
  <2>6. a + 2 <= e
    BY <1>1, <2>2, <2>4
  <2>7. \A p \in a .. b - 1 : p \in a .. e - 1 \/ p \in e .. b - 1
    BY <1>1
  <2> QED BY <1>3, <2>5, <2>6, <2>7 DEF a, e, b, h
<1> QED BY <1>4, <1>5

(* So it is read as the text between two tokens. *)
LEMMA EscapedReads ==
  ASSUME NEW s, NEW ts, NEW t, NEW d \in Dialects, s \in Texts, TokensFrom(s, 1, ts),
         IsEscaped(s, ts, t), NEW m \in 0 .. Len(ts), NEW i \in End(ts, m) .. Len(s),
         Lexeme(s, i, d).kind \notin Errors, Lexeme(s, i, d).next <= Begin(s, ts, m + 1)
  PROVE  /\ Reads(s, t, Ahead(s, ts, m), i, Begin(s, ts, m + 1) - 1, d)
         /\ Aligned(s, t, Ahead(s, ts, m), i, Begin(s, ts, m + 1) - 1)
<1> DEFINE a == Begin(s, ts, m)
           e == End(ts, m)
           b == Begin(s, ts, m + 1)
           hi == b - 1
           k == Ahead(s, ts, m)
           u == Lexeme(s, i, d)
<1>1. /\ Len(ts) \in Nat /\ Len(s) \in Nat /\ a \in 1 .. Len(s) + 1 /\ b \in 1 .. Len(s) + 1
      /\ e \in 1 .. Len(s) + 1 /\ e <= b
  BY TokenPlaces
<1>2. k \in Nat /\ (m = 0 => k = 0) /\ (m = 0 => e = 1)
  BY AheadSteps DEF End
<1>3. /\ \A p \in a .. b - 1 : At(t, p + k) = At(s, p)
      /\ m # 0 => a + 2 <= e
      /\ m = 0 => a = e
  BY EscapedAlike DEF Begin, End
<1>4. u.next \in i + 1 .. Len(s) + 1 /\ u.next <= b
  <2>1. i \in 1 .. Len(s)
    BY <1>1
  <2>2. TurnOK(s, i, u)
    BY <2>1, TurnBounds
  <2> HIDE DEF u
  <2> QED BY <2>2 DEF TurnOK, u
<1>5. t \in Texts /\ Len(t) = Len(s) + Ahead(s, ts, Len(ts)) /\ Len(t) \in Nat
      /\ \A j \in Int : (At(t, j) = "END") <=> j \notin 1 .. Len(t)
  <2>1. t \in Texts /\ Len(t) = Len(s) + Ahead(s, ts, Len(ts))
    BY DEF IsEscaped
  <2> QED BY <2>1, AtText
<1>6. \A j \in Int : (At(s, j) = "END") <=> j \notin 1 .. Len(s)
  BY AtText
<1> DEFINE x == u.next
<1>7. x \in i + 1 .. Len(s) + 1 /\ x <= b
  BY <1>4
<1> HIDE DEF x
<1>8. \/ SameEnd(s, t, k, hi)
      \/ At(s, hi + 1) \in {":", "\\"} /\ At(t, hi + 1 + k) = "\\"
  <2>1. CASE m = Len(ts)
    <3>1. b = Len(s) + 1
      BY <2>1, TokenPlaces
    <3> QED BY <1>1, <1>2, <1>5, <2>1, <3>1 DEF SameEnd
  <2>2. CASE m # Len(ts)
    <3> DEFINE q == m + 1
    <3>1. q \in 1 .. Len(ts) /\ q - 1 = m
      BY <1>1, <2>2
    <3> HIDE DEF q
    <3>2. At(t, Begin(s, ts, q) + Ahead(s, ts, q - 1)) = "\\"
      BY <3>1 DEF IsEscaped
    <3>3. IsEscape(s, Begin(s, ts, q)) \/ IsColon(s, Begin(s, ts, q))
      BY <3>1, AheadSteps
    <3>4. At(s, Begin(s, ts, q)) \in {":", "\\"}
      BY <3>3 DEF IsEscape, IsColon, Pair
    <3>5. At(t, b + k) = "\\" /\ At(s, b) \in {":", "\\"}
      BY <3>1, <3>2, <3>4 DEF q
    <3>6. hi + 1 = b /\ hi + 1 + k = b + k
      BY <1>1, <1>2
    <3> QED BY <3>5, <3>6
  <2> QED BY <2>1, <2>2
<1>15. i \in e .. Len(s)
  OBVIOUS
<1> HIDE DEF a, b, e, k
<1>9. /\ hi \in Nat /\ i \in 1 .. hi + 1 /\ i <= hi /\ hi <= Len(s) /\ i + k >= 1 /\ i \in Nat
      /\ k \in Int /\ a <= i /\ a \in Nat /\ e <= i
  BY <1>1, <1>2, <1>3, <1>7, <1>15
<1>10. \A j \in i .. hi : At(t, j + k) = At(s, j)
  <2> TAKE j \in i .. hi
  <2>1. j \in a .. b - 1
    BY <1>1, <1>9
  <2> QED BY <1>3, <2>1
<1>11. hi + k <= Len(t)
  <2>1. hi \in i .. hi /\ hi \in 1 .. Len(s) /\ hi + k \in Int /\ hi \in Int
    BY <1>9
  <2>2. At(t, hi + k) # "END"
    BY <1>6, <1>10, <2>1
  <2>3. hi + k \in 1 .. Len(t)
    BY <1>5, <2>1, <2>2
  <2> QED BY <1>5, <2>3
<1>12. Window(s, t, k, i, hi)
  BY <1>5, <1>9, <1>10, <1>11 DEF Window
<1>13. SameBehind(s, i, t, i + k)
  <2>1. ASSUME NEW j \in Int, j + 2 >= i, j < i PROVE At(t, j + k) = At(s, j)
    <3>1. CASE j \in a .. b - 1
      BY <1>3, <3>1
    <3>2. CASE j \notin a .. b - 1
      <4>1. m = 0 /\ k = 0 /\ j < 1
        BY <1>1, <1>2, <1>3, <1>9, <2>1, <3>2
      <4>2. j + k = j /\ j \notin 1 .. Len(t) /\ j \notin 1 .. Len(s)
        BY <4>1
      <4> QED BY <1>5, <1>6, <4>2
    <3> QED BY <3>1, <3>2
  <2>2. /\ i - 1 \in Int /\ (i - 1) + 2 >= i /\ i - 1 < i /\ (i - 1) + k = (i + k) - 1
        /\ i - 2 \in Int /\ (i - 2) + 2 >= i /\ i - 2 < i /\ (i - 2) + k = (i + k) - 2
    BY <1>2, <1>9
  <2>3. At(t, (i + k) - 1) = At(s, i - 1) /\ At(t, (i + k) - 2) = At(s, i - 2)
    BY <2>1, <2>2
  <2> QED BY <2>3 DEF SameBehind
<1>14. SameEnd(s, t, k, hi) \/ EndsBefore(s, t, k, i, hi, d)
  <2>1. u.next <= hi + 1 /\ u.kind \notin Errors
    BY <1>1, <1>4
  <2> QED BY <1>8, <2>1 DEF EndsBefore
<1> QED BY <1>2, <1>9, <1>12, <1>13, <1>14 DEF Reads, Aligned, k, b

-----------------------------------------------------------------------------
(* What is found in the escaped statement.                                 *)

(* A character of a name is plain text. *)
LEMMA NameIsPlain ==
  ASSUME NEW s, NEW i, NEW d, At(s, i) \in NameParts
  PROVE  IsPlain(s, i, d)
<1>1. /\ \A c \in Marks \ {"$", "UNDERSCORE"} : c \notin NameParts
      /\ "$" \notin NameParts
  BY Unmarked
<1>2. At(s, i) \notin {"\\", "'", "QUOTE", "BACKQUOTE", "[", "-", "#", "/", "$", ":", "@", "?"}
  BY <1>1 DEF Marks
<1> QED BY <1>2 DEF IsPlain, IsEscape, IsQuote, Quotes, StartsDashComment, IsHash, IsComment,
                    IsDollar, IsColon, IsNative, IsAtSign, Pair

(* Plain text yields nothing. *)
LEMMA PlainStep ==
  ASSUME NEW s \in Texts, NEW d \in Dialects, NEW i \in 1 .. Len(s), IsPlain(s, i, d)
  PROVE  From(s, d, i) = From(s, d, i + 1)
<1>1. Lexeme(s, i, d) = Skip(i + 1)
  BY LexemeCases
<1>2. From(s, d, i) = Joined(i, Skip(i + 1), Inner(s, d, i), From(s, d, Skip(i + 1).next))
  BY <1>1, FromStep
<1>3. Skip(i + 1).kind = "text" /\ Skip(i + 1).next = i + 1 /\ Skip(i + 1).kind \notin Errors
  BY DEF Skip, Turn, Errors
<1> HIDE DEF Skip
<1> QED BY <1>2, <1>3, JoinedGives

(* Plain characters yield nothing. *)
LEMMA PlainRun ==
  ASSUME NEW s \in Texts, NEW d \in Dialects, NEW b \in 1 .. Len(s) + 1, NEW a0 \in 1 .. b,
         \A p \in a0 .. b - 1 : IsPlain(s, p, d)
  PROVE  From(s, d, a0) = From(s, d, b)
<1> DEFINE S == {a \in 1 .. b : a >= a0 => From(s, d, a) = From(s, d, b)}
<1>1. b \in Nat /\ Len(s) \in Nat /\ b <= Len(s) + 1 /\ a0 \in Nat /\ a0 \in 1 .. b
  BY AtText
<1>2. ASSUME NEW a \in 1 .. b, \A m \in a + 1 .. b : m \in S PROVE a \in S
  <2>1. CASE a = b
    BY <2>1
  <2>2. CASE a # b /\ a >= a0
    <3>1. a \in 1 .. Len(s) /\ a \in a0 .. b - 1 /\ a + 1 \in a + 1 .. b /\ a + 1 >= a0
      BY <1>1, <2>2
    <3>2. From(s, d, a) = From(s, d, a + 1)
      BY <3>1, PlainStep
    <3>3. From(s, d, a + 1) = From(s, d, b)
      BY <1>2, <3>1
    <3> QED BY <3>2, <3>3
  <2> QED BY <2>1, <2>2
<1>3. \A a \in 1 .. b : a \in S
  <2> HIDE DEF S
  <2> QED BY <1>1, <1>2, BackwardInduction
<1> QED BY <1>1, <1>3

(* An escape yields an escape. *)
EscapeToken(i) == [start |-> i, next |-> i + 2, name |-> <<>>]

(* A scan at an escape. *)
LEMMA EscapeStep ==
  ASSUME NEW s \in Texts, NEW d \in Dialects, NEW i \in 1 .. Len(s), IsEscape(s, i)
  PROVE  From(s, d, i) = Preceded(EscapeToken(i), From(s, d, i + 2))
<1> DEFINE u == Parameter(i + 2, <<>>)
<1>1. Lexeme(s, i, d) = u
  BY LexemeCases
<1>2. u.kind = "token" /\ u.next = i + 2 /\ u.name = <<>> /\ u.kind \notin Errors
  BY DEF Parameter, Turn, Errors
<1>3. From(s, d, i) = Joined(i, u, Inner(s, d, i), From(s, d, u.next))
  BY <1>1, FromStep
<1>4. TokenAt(i, u) = EscapeToken(i)
  BY <1>2 DEF TokenAt, EscapeToken
<1> HIDE DEF u
<1>5. Joined(i, u, Inner(s, d, i), From(s, d, u.next)) = Preceded(TokenAt(i, u), From(s, d, u.next))
  BY <1>2, JoinedGives
<1> QED BY <1>2, <1>3, <1>4, <1>5

(* The tokens after token m. *)
Rest(ts, m) == SubSeq(ts, m + 1, Len(ts))

(* The rest is the next token and the rest after it. *)
LEMMA RestCons ==
  ASSUME NEW ts \in Seq(Token), NEW m \in 0 .. Len(ts)
  PROVE  /\ Rest(ts, m) \in Seq(Token)
         /\ m = Len(ts) => Rest(ts, m) = <<>>
         /\ m # Len(ts) => /\ Rest(ts, m) # <<>> /\ ts[m + 1] \in Token
                           /\ Rest(ts, m) = <<ts[m + 1]>> \o Rest(ts, m + 1)
         /\ m = 0 => Rest(ts, m) = ts
<1> DEFINE n == Len(ts)
           r == Rest(ts, m)
           q == Rest(ts, m + 1)
<1>0. n \in Nat /\ m \in 0 .. n
  OBVIOUS
<1>1. n \in Nat /\ ts \in [1 .. n -> Token]
  OBVIOUS
<1>2. /\ r \in Seq(Token) /\ Len(r) = n - m /\ \A j \in 1 .. n - m : r[j] = ts[m + j]
  <2> DEFINE a == m + 1
  <2>1. a \in 1 .. n + 1 /\ \A j \in 1 .. n - m : m + j = a + j - 1 /\ n - m = n - a + 1
    BY <1>1
  <2>2. /\ SubSeq(ts, a, n) \in Seq(Token) /\ Len(SubSeq(ts, a, n)) = n - a + 1
        /\ \A j \in 1 .. n - a + 1 : SubSeq(ts, a, n)[j] = ts[a + j - 1]
    <3> HIDE DEF a
    <3> QED BY <1>1, <2>1
  <2>3. n - m = n - a + 1
    BY <1>1
  <2> QED BY <2>1, <2>2, <2>3 DEF Rest
<1>3. CASE m = n
  <2>1. Len(r) = 0
    BY <1>1, <1>2, <1>3
  <2>2. r = <<>>
    <3> HIDE DEF r
    <3> QED BY <1>2, <2>1
  <2>3. m = 0 => ts = <<>>
    BY <1>1, <1>3
  <2> QED BY <1>2, <1>3, <2>2, <2>3
<1>4. CASE m # n
  <2>0. m \in Nat /\ n \in Nat /\ m < n
    <3> HIDE DEF n
    <3> QED BY <1>0, <1>4
  <2>1. m + 1 \in 1 .. n /\ m + 1 \in 0 .. n
    <3> HIDE DEF n
    <3> QED BY <2>0
  <2>2. /\ q \in Seq(Token) /\ Len(q) = n - m - 1 /\ \A j \in 1 .. n - m - 1 : q[j] = ts[m + j + 1]
    <3> DEFINE a == m + 1 + 1
    <3>1. a \in 1 .. n + 1 /\ n - m - 1 = n - a + 1 /\ \A j \in 1 .. n - m - 1 : m + j + 1 = a + j - 1
      BY <1>1, <2>1
    <3>2. /\ SubSeq(ts, a, n) \in Seq(Token) /\ Len(SubSeq(ts, a, n)) = n - a + 1
          /\ \A j \in 1 .. n - a + 1 : SubSeq(ts, a, n)[j] = ts[a + j - 1]
      <4> HIDE DEF a
      <4> QED BY <1>1, <3>1
    <3> QED BY <3>1, <3>2 DEF Rest
  <2> DEFINE x == ts[m + 1]
             v == <<x>> \o q
  <2>3. x \in Token
    BY <1>1, <2>1
  <2> HIDE DEF r, q, x
  <2>4. v \in Seq(Token) /\ Len(v) = Len(q) + 1 /\ v[1] = x
        /\ \A k \in 2 .. Len(q) + 1 : v[k] = q[k - 1] /\ k - 1 \in 1 .. Len(q)
    BY <2>2, <2>3, ConsElements
  <2> HIDE DEF v
  <2>5. r = v
    <3>1. Len(r) = Len(v)
      BY <1>1, <1>2, <2>2, <2>4
    <3>2. \A k \in 1 .. Len(r) : r[k] = v[k]
      <4> TAKE k \in 1 .. Len(r)
      <4>1. CASE k = 1
        <5>1. r[1] = ts[m + 1]
          BY <1>1, <1>2, <4>1
        <5> QED BY <2>4, <4>1, <5>1 DEF x
      <4>2. CASE k # 1
        <5>1. /\ k \in 2 .. Len(q) + 1 /\ k \in 1 .. n - m /\ k - 1 \in 1 .. n - m - 1
              /\ m + (k - 1) + 1 = m + k
          BY <1>1, <1>2, <2>2, <4>2
        <5>2. v[k] = q[k - 1] /\ r[k] = ts[m + k] /\ q[k - 1] = ts[m + (k - 1) + 1]
          BY <1>2, <2>2, <2>4, <5>1
        <5> QED BY <5>1, <5>2
      <4> QED BY <4>1, <4>2
    <3> QED BY <1>2, <2>4, <3>1, <3>2
  <2>6. r # <<>>
    <3>1. Len(r) # 0
      <4>1. Len(r) = n - m
        BY <1>2
      <4> HIDE DEF n
      <4> QED BY <2>0, <4>1
    <3> QED BY <3>1
  <2>7. m = 0 => r = ts
    <3> HAVE m = 0
    <3>1. Len(r) = Len(ts) /\ \A j \in 1 .. Len(r) : r[j] = ts[j]
      BY <1>1, <1>2
    <3> QED BY <1>1, <1>2, <3>1
  <2> QED BY <1>2, <1>4, <2>3, <2>5, <2>6, <2>7 DEF r, q, v, x
<1> QED BY <1>3, <1>4

(* Sequences with the same first element and the same rest are equal only so. *)
LEMMA ConsEqual ==
  ASSUME NEW x \in Token, NEW y \in Token, NEW r \in Seq(Token), NEW q \in Seq(Token),
         <<x>> \o r = <<y>> \o q
  PROVE  x = y /\ r = q
<1> DEFINE u == <<x>> \o r
           v == <<y>> \o q
<1>1. /\ Len(u) = Len(r) + 1 /\ u[1] = x
      /\ \A k \in 1 .. Len(r) : u[k + 1] = r[k]
  BY ConsElements
<1>2. /\ Len(v) = Len(q) + 1 /\ v[1] = y
      /\ \A k \in 1 .. Len(q) : v[k + 1] = q[k]
  BY ConsElements
<1>3. u = v
  OBVIOUS
<1> HIDE DEF u, v
<1>4. Len(r) \in Nat /\ Len(q) \in Nat
  OBVIOUS
<1>5. x = y /\ Len(r) = Len(q)
  BY <1>1, <1>2, <1>3, <1>4
<1>6. \A k \in 1 .. Len(r) : r[k] = q[k]
  BY <1>1, <1>2, <1>3, <1>5
<1> QED BY <1>5, <1>6

(* The escapes that stand for the tokens in the escaped text. *)
EscapeTokens(s, ts) ==
  [k \in 1 .. Len(ts) |-> EscapeToken(Begin(s, ts, k) + Ahead(s, ts, k - 1))]

(* They are tokens, as many as those of the statement. *)
LEMMA EscapeTokensAre ==
  ASSUME NEW s, NEW ts, s \in Texts, TokensFrom(s, 1, ts)
  PROVE  /\ EscapeTokens(s, ts) \in Seq(Token) /\ Len(EscapeTokens(s, ts)) = Len(ts)
         /\ \A k \in 1 .. Len(ts) :
              /\ EscapeTokens(s, ts)[k] = EscapeToken(Begin(s, ts, k) + Ahead(s, ts, k - 1))
              /\ Begin(s, ts, k) + Ahead(s, ts, k - 1) \in Nat
              /\ Begin(s, ts, k) \in Nat /\ Ahead(s, ts, k - 1) \in Nat
<1> DEFINE n == Len(ts)
           c(k) == Begin(s, ts, k) + Ahead(s, ts, k - 1)
           F == [k \in 1 .. n |-> EscapeToken(c(k))]
<1>1. n \in Nat /\ Len(s) \in Nat
  BY TokenPlaces
<1>2. \A k \in 1 .. n : /\ c(k) \in Nat /\ Begin(s, ts, k) \in Nat /\ Ahead(s, ts, k - 1) \in Nat
  <2> TAKE k \in 1 .. n
  <2>1. k - 1 \in 0 .. n
    BY <1>1
  <2> DEFINE m == k - 1
  <2>2. m \in 0 .. n
    BY <2>1
  <2> HIDE DEF m
  <2>3. Ahead(s, ts, m) \in Nat
    BY <2>2, AheadSteps
  <2>4. Begin(s, ts, k) \in 1 .. Len(s)
    BY TokenPlaces
  <2>5. Begin(s, ts, k) \in Nat
    BY <1>1, <2>4
  <2>6. Begin(s, ts, k) + Ahead(s, ts, m) \in Nat
    BY <2>3, <2>5
  <2> QED BY <2>3, <2>5, <2>6 DEF m
<1> HIDE DEF c, n
<1>3. \A k \in 1 .. n : EscapeToken(c(k)) \in Token
  <2> TAKE k \in 1 .. n
  <2>1. c(k) \in Nat /\ c(k) + 2 \in Nat
    BY <1>2
  <2>2. <<>> \in Seq(Bytes)
    OBVIOUS
  <2> QED BY <2>1, <2>2 DEF EscapeToken, Token
<1>4. F \in [1 .. n -> Token] /\ \A k \in 1 .. n : F[k] = EscapeToken(c(k))
  BY <1>3
<1> HIDE DEF F
<1>5. F \in Seq(Token) /\ Len(F) = n
  BY <1>1, <1>4
<1> QED BY <1>2, <1>4, <1>5 DEF EscapeTokens, F, c, n

(* An escaped token yields an escape, and the rest of it nothing. *)
LEMMA EscapedTokenStep ==
  ASSUME NEW s, NEW ts, NEW t, NEW d \in Dialects, s \in Texts, TokensFrom(s, 1, ts),
         IsEscaped(s, ts, t), NEW k \in 1 .. Len(ts)
  PROVE  From(t, d, Begin(s, ts, k) + Ahead(s, ts, k - 1))
           = Preceded(EscapeTokens(s, ts)[k], From(t, d, End(ts, k) + Ahead(s, ts, k)))
<1> DEFINE b == Begin(s, ts, k)
           g == Ahead(s, ts, k - 1)
           h == Ahead(s, ts, k)
           e == End(ts, k)
           nm == ts[k].name
           c == b + g
           y == c + 2
           x == e + h
<1>1. /\ EscapeTokens(s, ts)[k] = EscapeToken(c)
      /\ b \in Nat /\ g \in Nat
  BY EscapeTokensAre
<1>2. /\ At(t, c) = "\\" /\ At(t, c + 1) = ":"
      /\ \A z \in 1 .. Len(nm) : At(t, (c + 1) + z) = At(nm, z)
      /\ t \in Texts
  BY DEF IsEscaped
<1>3. /\ nm = <<>> => h = g /\ e = b + 2
      /\ nm # <<>> => h = g + 1 /\ e = b + 1 + Len(nm) /\ Len(nm) >= 1
  BY AheadSteps
<1>4. Len(nm) \in Nat /\ \A z \in 1 .. Len(nm) : At(nm, z) \in NameParts
  <2>1. TokenOK(s, ts[k])
    BY TokenPlaces
  <2> QED BY <2>1, TokenName
<1>5. Len(t) \in Nat /\ \A j \in Int : (At(t, j) = "END") <=> j \notin 1 .. Len(t)
  BY <1>2, AtText
<1> HIDE DEF b, g, h, e, nm
<1>6. c \in Nat /\ c \in Int /\ c + 1 \in Int
  BY <1>1
<1> HIDE DEF c
<1>7. c \in 1 .. Len(t) /\ c + 1 \in 1 .. Len(t)
  <2>1. At(t, c) # "END" /\ At(t, c + 1) # "END"
    BY <1>2
  <2> QED BY <1>5, <1>6, <2>1
<1>8. From(t, d, c) = Preceded(EscapeToken(c), From(t, d, y))
  <2>1. IsEscape(t, c)
    BY <1>2 DEF IsEscape, Pair
  <2> QED BY <1>2, <1>7, <2>1, EscapeStep
<1>9. CASE nm = <<>>
  <2>1. x = y
    BY <1>1, <1>3, <1>9 DEF c
  <2> HIDE DEF x, y
  <2> QED BY <1>1, <1>8, <2>1 DEF b, g, c, x, e, h
<1>10. CASE nm # <<>>
  <2>1. x = y + Len(nm) /\ x \in Nat /\ y \in Nat /\ y = c + 2 /\ y <= x /\ Len(nm) >= 1
    BY <1>1, <1>3, <1>4, <1>10 DEF c
  <2> HIDE DEF x, y
  <2>2. \A p \in y .. x - 1 : At(t, p) \in NameParts
    <3> TAKE p \in y .. x - 1
    <3> DEFINE z == p - c - 1
    <3>1. z \in 1 .. Len(nm) /\ (c + 1) + z = p
      BY <1>4, <1>6, <2>1
    <3> HIDE DEF z
    <3> QED BY <1>2, <1>4, <3>1
  <2>3. x \in 1 .. Len(t) + 1 /\ y \in 1 .. x
    <3>1. x - 1 \in y .. x - 1 /\ x - 1 \in Int
      BY <2>1
    <3>2. At(t, x - 1) \in NameParts
      BY <2>2, <3>1
    <3>3. "END" \notin NameParts
      BY Unmarked
    <3>4. x - 1 \in 1 .. Len(t)
      BY <1>5, <3>1, <3>2, <3>3
    <3> QED BY <1>5, <1>6, <2>1, <3>4
  <2>4. \A p \in y .. x - 1 : IsPlain(t, p, d)
    BY <2>2, NameIsPlain
  <2>5. From(t, d, y) = From(t, d, x)
    BY <1>2, <2>3, <2>4, PlainRun
  <2> QED BY <1>1, <1>8, <2>5 DEF b, g, c, x, e, h
<1> QED BY <1>9, <1>10

(* What is found from position i on, after token m, is found in the escaped
   text with escapes for the tokens. *)
Carried(s, ts, t, d, i) ==
  \A m \in 0 .. Len(ts) :
    i >= End(ts, m) /\ From(s, d, i) = Found(NoError, Rest(ts, m))
      => From(t, d, i + Ahead(s, ts, m)) = Found(NoError, Rest(EscapeTokens(s, ts), m))

(* Where the text ends. *)
LEMMA CarriedEnd ==
  ASSUME NEW s, NEW ts, NEW t, NEW d \in Dialects, s \in Texts, TokensFrom(s, 1, ts),
         IsEscaped(s, ts, t)
  PROVE  Carried(s, ts, t, d, Len(s) + 1)
<1> SUFFICES ASSUME NEW m \in 0 .. Len(ts), From(s, d, Len(s) + 1) = Found(NoError, Rest(ts, m))
             PROVE  From(t, d, Len(s) + 1 + Ahead(s, ts, m))
                      = Found(NoError, Rest(EscapeTokens(s, ts), m))
  BY DEF Carried
<1>1. ts \in Seq(Token)
  BY DEF TokensFrom
<1>2. Rest(ts, m) = <<>>
  BY FromStep DEF Nothing, Found
<1>3. m = Len(ts)
  BY <1>1, <1>2, RestCons
<1>4. Rest(EscapeTokens(s, ts), m) = <<>>
  <2> DEFINE F == EscapeTokens(s, ts)
  <2>1. F \in Seq(Token) /\ Len(F) = Len(ts)
    BY EscapeTokensAre
  <2> HIDE DEF F
  <2>2. m \in 0 .. Len(F) /\ m = Len(F)
    BY <1>3, <2>1
  <2>3. Rest(F, m) = <<>>
    BY <2>1, <2>2, RestCons
  <2> QED BY <2>3 DEF F
<1>5. Len(s) + 1 + Ahead(s, ts, m) = Len(t) + 1 /\ t \in Texts
  <2>1. Len(t) = Len(s) + Ahead(s, ts, Len(ts)) /\ t \in Texts
    BY DEF IsEscaped
  <2>2. Ahead(s, ts, m) \in Nat /\ Len(s) \in Nat
    BY AheadSteps, AtText
  <2> QED BY <1>3, <2>1, <2>2
<1>6. From(t, d, Len(t) + 1) = Nothing
  BY <1>5, FromStep
<1> QED BY <1>4, <1>5, <1>6 DEF Nothing

(* A turn that yields no token. *)
LEMMA CarriedSkip ==
  ASSUME NEW s, NEW ts, NEW t, NEW d \in Dialects, s \in Texts, TokensFrom(s, 1, ts),
         IsEscaped(s, ts, t), NEW m \in 0 .. Len(ts), NEW i \in End(ts, m) .. Len(s),
         From(s, d, i) = Found(NoError, Rest(ts, m)), Lexeme(s, i, d).kind # "token"
  PROVE  /\ Lexeme(s, i, d).next \in i + 1 .. Len(s) + 1
         /\ From(s, d, Lexeme(s, i, d).next) = Found(NoError, Rest(ts, m))
         /\ From(t, d, i + Ahead(s, ts, m)) = From(t, d, Lexeme(s, i, d).next + Ahead(s, ts, m))
<1> DEFINE u == Lexeme(s, i, d)
           k == Ahead(s, ts, m)
           hi == Begin(s, ts, m + 1) - 1
           v == Lexeme(t, i + k, d)
           inner == Inner(s, d, i)
           rest == From(s, d, u.next)
<1>1. /\ Len(ts) \in Nat /\ Len(s) \in Nat /\ End(ts, m) \in 1 .. Len(s) + 1
      /\ Begin(s, ts, m + 1) \in 1 .. Len(s) + 1 /\ i \in 1 .. Len(s) /\ ts \in Seq(Token)
  <2>1. /\ Len(ts) \in Nat /\ Len(s) \in Nat /\ End(ts, m) \in 1 .. Len(s) + 1
        /\ Begin(s, ts, m + 1) \in 1 .. Len(s) + 1
    BY TokenPlaces
  <2> QED BY <2>1 DEF TokensFrom
<1>2. TurnOK(s, i, u)
  BY <1>1, TurnBounds
<1>3. From(s, d, i) = Joined(i, u, inner, rest)
  BY <1>1, FromStep
<1>4. /\ u.kind \notin Errors
      /\ u.kind = "executable" => inner = Nothing
      /\ From(s, d, i) = rest
  <2>1. Joined(i, u, inner, rest).err = NoError
    BY <1>3 DEF Found
  <2>2. u.kind # "token"
    OBVIOUS
  <2> HIDE DEF u, inner, rest
  <2>3. /\ u.kind \notin Errors
        /\ u.kind = "executable" => inner = Nothing
        /\ u.kind = "token" => /\ rest.err = NoError
                               /\ Joined(i, u, inner, rest)
                                    = Found(NoError, <<TokenAt(i, u)>> \o rest.tokens)
        /\ u.kind # "token" => Joined(i, u, inner, rest) = rest
    BY <2>1, JoinedWell
  <2> QED BY <1>3, <2>2, <2>3, Zenon
<1>5. u.next \in i + 1 .. Len(s) + 1 /\ (u.kind = "executable" => u.next \in i + 5 .. Len(s) + 1)
  <2> HIDE DEF u
  <2> QED BY <1>2, <1>4 DEF TurnOK
<1>6. u.next <= Begin(s, ts, m + 1)
  <2>1. CASE m = Len(ts)
    <3>1. Begin(s, ts, m + 1) = Len(s) + 1
      BY <2>1, TokenPlaces
    <3> HIDE DEF u
    <3> QED BY <1>1, <1>5, <3>1
  <2>2. CASE m # Len(ts)
    <3> DEFINE q == m + 1
               w == u.next
    <3>1. q \in 1 .. Len(ts)
      BY <1>1, <2>2
    <3>2. w \in 1 .. Len(s) + 1 /\ w \in Nat
      <4>1. w \in i + 1 .. Len(s) + 1
        BY <1>5
      <4> HIDE DEF w
      <4> QED BY <1>1, <4>1
    <3>3. TokensFrom(s, w, rest.tokens)
      BY <3>2, ScanTokens
    <3>4. rest.tokens = <<ts[q]>> \o Rest(ts, q)
      <4>1. rest = Found(NoError, Rest(ts, m))
        BY <1>4
      <4>2. rest.tokens = Rest(ts, m)
        <5> HIDE DEF rest
        <5> QED BY <4>1 DEF Found
      <4>3. Rest(ts, m) = <<ts[q]>> \o Rest(ts, q)
        BY <1>1, <2>2, RestCons
      <4> HIDE DEF rest
      <4> QED BY <4>2, <4>3
    <3>5. ts[q] \in Token /\ Rest(ts, q) \in Seq(Token)
      <4>1. q \in 0 .. Len(ts)
        BY <1>1, <3>1
      <4> HIDE DEF q
      <4>2. ts[q] \in Token
        BY <1>1, <3>1
      <4>3. Rest(ts, q) \in Seq(Token)
        BY <1>1, <4>1, RestCons
      <4> QED BY <4>2, <4>3
    <3> HIDE DEF q, w, rest
    <3>6. 1 \in 1 .. Len(rest.tokens) /\ rest.tokens[1] = ts[q]
      <4> DEFINE r == Rest(ts, q)
                 z == ts[q]
      <4>1. z \in Token /\ r \in Seq(Token) /\ rest.tokens = <<z>> \o r
        BY <3>4, <3>5
      <4> HIDE DEF r, z
      <4>2. Len(<<z>> \o r) = Len(r) + 1 /\ (<<z>> \o r)[1] = z /\ Len(r) \in Nat
        BY <4>1, ConsElements
      <4>3. Len(rest.tokens) = Len(r) + 1 /\ rest.tokens[1] = z
        BY <4>1, <4>2
      <4>4. 1 \in 1 .. Len(r) + 1
        BY <4>2
      <4> QED BY <4>3, <4>4 DEF z
    <3>7. ts[q].start >= w
      BY <3>3, <3>6 DEF TokensFrom
    <3>8. Begin(s, ts, q) = ts[q].start /\ ts[q].start \in 1 .. Len(s)
      BY <3>1, TokenPlaces, SMTT(30)
    <3>9. w <= Begin(s, ts, q)
      BY <1>1, <3>2, <3>7, <3>8
    <3> QED BY <3>9 DEF w, q
  <2> QED BY <2>1, <2>2
<1>7. Reads(s, t, k, i, hi, d) /\ Aligned(s, t, k, i, hi)
  BY <1>4, <1>6, EscapedReads
<1>8. v = TurnMoved(u, k)
  BY <1>7, LexemeMoved
<1>9. k \in Nat /\ t \in Texts
  BY AheadSteps DEF IsEscaped
<1>10. v.kind = u.kind /\ v.next = u.next + k
  <2> HIDE DEF u, v
  <2> QED BY <1>4, <1>8 DEF TurnMoved, Turn
<1>11. i + k \in 1 .. Len(t)
  BY <1>7, ReadsFacts
<1>12. From(t, d, i + k) = Joined(i + k, v, Inner(t, d, i + k), From(t, d, v.next))
  BY <1>9, <1>11, FromStep
<1>13. u.kind = "executable" => Inner(t, d, i + k) = Nothing
  <2> HAVE u.kind = "executable"
  <2> DEFINE x == u.next
             a == i + 3
             z == x - 3
  <2>1. x \in i + 5 .. Len(s) + 1 /\ x <= hi + 1
    <3>1. x \in i + 5 .. Len(s) + 1 /\ x <= Begin(s, ts, m + 1)
      BY <1>5, <1>6
    <3> HIDE DEF x
    <3> QED BY <1>1, <3>1
  <2>2. inner = FoundIn(s, d)[<<a, z>>] /\ Inner(t, d, i + k) = FoundIn(t, d)[<<i + k + 3, v.next - 3>>]
    BY DEF Inner
  <2>0. hi \in Nat
    BY <1>1
  <2> HIDE DEF x, hi, inner, u, v
  <2>3. a \in i .. hi + 1 /\ z \in 0 .. hi /\ a + k = i + k + 3 /\ z + k = (x + k) - 3
    BY <1>1, <1>9, <2>0, <2>1
  <2>4. FoundAlike(s, t, k, i, hi)
    BY <1>7, FoundMoved
  <2> HIDE DEF a, z
  <2>5. FoundIn(t, d)[<<a + k, z + k>>] = Shift(FoundIn(s, d)[<<a, z>>], k)
    BY <2>3, <2>4, Zenon DEF FoundAlike
  <2>6. Inner(t, d, i + k) = FoundIn(t, d)[<<a + k, z + k>>]
    <3>1. v.next - 3 = z + k
      BY <1>10, <2>3 DEF x
    <3> QED BY <2>2, <2>3, <3>1
  <2>7. inner = Nothing
    BY <1>4
  <2>8. Shift(Nothing, k) = Nothing
    <3>1. Nothing \in Results
      <4>1. Len(s) + 1 \in 1 .. Len(s) + 1 /\ From(s, d, Len(s) + 1) = Nothing
        BY <1>1, FromStep
      <4> QED BY <4>1, FromStep
    <3> QED BY <1>9, <3>1, ShiftResults
  <2> QED BY <2>2, <2>5, <2>6, <2>7, <2>8, Zenon
<1>14. From(t, d, i + k) = From(t, d, v.next)
  <2>1. v.kind \notin Errors /\ v.kind # "token" /\ (v.kind = "executable" => Inner(t, d, i + k) = Nothing)
    BY <1>4, <1>10, <1>13
  <2> HIDE DEF v, k
  <2> QED BY <1>12, <2>1, JoinedGives
<1>15. From(s, d, u.next) = Found(NoError, Rest(ts, m))
  BY <1>4
<1> QED BY <1>5, <1>10, <1>14, <1>15

(* A turn that yields a token. *)
LEMMA CarriedToken ==
  ASSUME NEW s, NEW ts, NEW t, NEW d \in Dialects, s \in Texts, TokensFrom(s, 1, ts),
         IsEscaped(s, ts, t), NEW m \in 0 .. Len(ts), NEW i \in End(ts, m) .. Len(s),
         From(s, d, i) = Found(NoError, Rest(ts, m)), Lexeme(s, i, d).kind = "token"
  PROVE  /\ m + 1 \in 1 .. Len(ts)
         /\ Lexeme(s, i, d).next \in i + 1 .. Len(s) + 1
         /\ Lexeme(s, i, d).next = End(ts, m + 1)
         /\ i = Begin(s, ts, m + 1)
         /\ From(s, d, Lexeme(s, i, d).next) = Found(NoError, Rest(ts, m + 1))
<1> DEFINE u == Lexeme(s, i, d)
           q == m + 1
           inner == Inner(s, d, i)
           rest == From(s, d, u.next)
           x == TokenAt(i, u)
           y == ts[q]
           a == rest.tokens
           b == Rest(ts, q)
<1>1. /\ Len(ts) \in Nat /\ Len(s) \in Nat /\ End(ts, m) \in 1 .. Len(s) + 1
      /\ i \in 1 .. Len(s) /\ ts \in Seq(Token)
  <2>1. /\ Len(ts) \in Nat /\ Len(s) \in Nat /\ End(ts, m) \in 1 .. Len(s) + 1
    BY TokenPlaces
  <2> QED BY <2>1 DEF TokensFrom
<1>2. TurnOK(s, i, u) /\ u.kind = "token"
  BY <1>1, TurnBounds
<1>3. From(s, d, i) = Joined(i, u, inner, rest)
  BY <1>1, FromStep
<1> HIDE DEF inner
<1>4. rest.err = NoError /\ From(s, d, i) = Found(NoError, <<x>> \o a) /\ u.kind \notin Errors
  <2>1. Joined(i, u, inner, rest).err = NoError
    BY <1>3 DEF Found
  <2> HIDE DEF u, rest, a, x
  <2>2. /\ u.kind \notin Errors
        /\ u.kind = "executable" => inner = Nothing
        /\ u.kind = "token" => /\ rest.err = NoError
                               /\ Joined(i, u, inner, rest)
                                    = Found(NoError, <<TokenAt(i, u)>> \o rest.tokens)
        /\ u.kind # "token" => Joined(i, u, inner, rest) = rest
    BY <2>1, JoinedWell
  <2> QED BY <1>2, <1>3, <2>2, Zenon DEF a, x
<1>5. u.next \in i + 1 .. Len(s) + 1
  <2> HIDE DEF u
  <2> QED BY <1>2, <1>4 DEF TurnOK
<1>6. x \in Token /\ x.start = i /\ x.next = u.next
  <2> HIDE DEF u
  <2> QED BY <1>1, <1>2, TurnToken DEF TokenOK
<1>7. rest \in Results /\ a \in Seq(Token) /\ rest = Found(NoError, a)
  <2> DEFINE w == u.next
  <2>1. w \in 1 .. Len(s) + 1
    <3>1. w \in i + 1 .. Len(s) + 1
      BY <1>5
    <3> HIDE DEF w
    <3> QED BY <1>1, <3>1
  <2>2. From(s, d, w) \in Results
    <3> HIDE DEF w
    <3> QED BY <2>1, FromStep
  <2>3. rest \in Results
    BY <2>2
  <2>4. rest.err = NoError
    BY <1>4
  <2> HIDE DEF rest
  <2> QED BY <2>3, <2>4 DEF Results, Found, a
<1> HIDE DEF x, rest, a
<1>8. Rest(ts, m) = <<x>> \o a
  BY <1>4 DEF Found
<1>9. m # Len(ts)
  <2> SUFFICES ASSUME m = Len(ts) PROVE FALSE
    OBVIOUS
  <2>1. Rest(ts, m) = <<>>
    BY <1>1, RestCons
  <2>2. Len(<<x>> \o a) = Len(a) + 1 /\ Len(a) \in Nat
    BY <1>6, <1>7, ConsElements
  <2>3. Len(<<>>) = 0
    OBVIOUS
  <2>4. Len(a) + 1 = 0
    BY <1>8, <2>1, <2>2, <2>3
  <2> QED BY <2>2, <2>4
<1>10. q \in 1 .. Len(ts) /\ q \in 0 .. Len(ts)
  BY <1>1, <1>9
<1>11. y \in Token /\ Rest(ts, m) = <<y>> \o b
  BY <1>1, <1>9, RestCons
<1> HIDE DEF q
<1>12. b \in Seq(Token)
  BY <1>1, <1>10, RestCons
<1> HIDE DEF y, b
<1>13. x = y /\ a = b
  BY <1>6, <1>7, <1>8, <1>11, <1>12, ConsEqual
<1>14. Begin(s, ts, q) = y.start /\ End(ts, q) = y.next
  BY <1>10, TokenPlaces, SMTT(30) DEF y
<1>15. u.next = End(ts, q) /\ i = Begin(s, ts, q)
  <2> HIDE DEF u
  <2> QED BY <1>6, <1>13, <1>14
<1>16. rest = Found(NoError, b)
  BY <1>7, <1>13
<1> QED BY <1>5, <1>10, <1>15, <1>16 DEF q, rest, b

(* So all that is found is carried over. *)
LEMMA CarriedAll ==
  ASSUME NEW s, NEW ts, NEW t, NEW d \in Dialects, s \in Texts, TokensFrom(s, 1, ts),
         IsEscaped(s, ts, t), NEW i0 \in 1 .. Len(s) + 1
  PROVE  Carried(s, ts, t, d, i0)
<1> DEFINE L == Len(s)
           F == EscapeTokens(s, ts)
           Good(i) == Carried(s, ts, t, d, i)
           S == {i \in 1 .. L + 1 : Good(i)}
<1>1. L \in Nat /\ Len(ts) \in Nat /\ ts \in Seq(Token)
  BY TokenPlaces DEF TokensFrom
<1>2. F \in Seq(Token) /\ Len(F) = Len(ts)
  BY EscapeTokensAre
<1>3. ASSUME NEW i \in 1 .. L + 1, \A j \in i + 1 .. L + 1 : j \in S PROVE i \in S
  <2>1. CASE i = L + 1
    BY <2>1, CarriedEnd
  <2>2. CASE i # L + 1
    <3> SUFFICES ASSUME NEW m \in 0 .. Len(ts), i >= End(ts, m),
                        From(s, d, i) = Found(NoError, Rest(ts, m))
                 PROVE  From(t, d, i + Ahead(s, ts, m)) = Found(NoError, Rest(F, m))
      BY DEF Carried
    <3> DEFINE u == Lexeme(s, i, d)
    <3>1. i \in End(ts, m) .. Len(s)
      <4>1. End(ts, m) \in 1 .. Len(s) + 1
        BY TokenPlaces
      <4> QED BY <1>1, <2>2, <4>1
    <3>2. CASE u.kind # "token"
      <4> DEFINE w == u.next
      <4>1. /\ w \in i + 1 .. L + 1
            /\ From(s, d, w) = Found(NoError, Rest(ts, m))
            /\ From(t, d, i + Ahead(s, ts, m)) = From(t, d, w + Ahead(s, ts, m))
        BY <3>1, <3>2, CarriedSkip
      <4> HIDE DEF w, F
      <4>2. Carried(s, ts, t, d, w)
        BY <1>3, <4>1
      <4>3. w >= End(ts, m)
        <5>1. End(ts, m) \in 1 .. Len(s) + 1
          BY TokenPlaces
        <5> QED BY <1>1, <4>1, <5>1
      <4>4. From(t, d, w + Ahead(s, ts, m)) = Found(NoError, Rest(F, m))
        BY <4>1, <4>2, <4>3 DEF Carried, F
      <4> QED BY <4>1, <4>4
    <3>3. CASE u.kind = "token"
      <4> DEFINE q == m + 1
                 w == u.next
                 c == i + Ahead(s, ts, m)
                 rest == From(t, d, w + Ahead(s, ts, q))
      <4>1. /\ q \in 1 .. Len(ts) /\ w \in i + 1 .. L + 1 /\ w = End(ts, q)
            /\ i = Begin(s, ts, q) /\ From(s, d, w) = Found(NoError, Rest(ts, q))
        BY <3>1, <3>3, CarriedToken
      <4>2. m \in 0 .. Len(F) /\ m # Len(F) /\ q - 1 = m /\ q \in 0 .. Len(ts)
        BY <1>1, <1>2, <4>1
      <4> HIDE DEF F
      <4>3. Rest(F, m) = <<F[q]>> \o Rest(F, q)
        BY <1>2, <4>2, RestCons
      <4> HIDE DEF q, w
      <4>4. Carried(s, ts, t, d, w)
        BY <1>3, <4>1
      <4>5. rest = Found(NoError, Rest(F, q))
        <5>1. w >= End(ts, q)
          BY <4>1
        <5> QED BY <4>1, <4>2, <4>4, <5>1 DEF Carried, F
      <4>6. From(t, d, c) = Preceded(F[q], rest)
        <5>1. From(t, d, Begin(s, ts, q) + Ahead(s, ts, q - 1))
                = Preceded(EscapeTokens(s, ts)[q], From(t, d, End(ts, q) + Ahead(s, ts, q)))
          BY <4>1, EscapedTokenStep
        <5> QED BY <4>1, <4>2, <5>1 DEF F
      <4> HIDE DEF rest, c
      <4>7. Preceded(F[q], rest) = Found(NoError, <<F[q]>> \o Rest(F, q))
        BY <4>5 DEF Preceded, Found
      <4> QED BY <4>3, <4>6, <4>7 DEF c
    <3> QED BY <3>2, <3>3
  <2> HIDE DEF Good
  <2> QED BY <2>1, <2>2 DEF Good
<1>4. \A i \in 1 .. L + 1 : i \in S
  <2>1. L + 1 \in Nat
    BY <1>1
  <2> HIDE DEF S
  <2> QED BY <1>3, <2>1, BackwardInduction
<1> QED BY <1>4

(* The escaped text holds escapes only, one for each token. *)
LEMMA EscapedScan ==
  ASSUME NEW s \in Texts, NEW d \in Dialects, NEW ts, scan(s, d) = Found(NoError, ts)
  PROVE  /\ TokensFrom(s, 1, ts)
         /\ scan(Escaped(s, ts), d) = Found(NoError, EscapeTokens(s, ts))
<1> DEFINE t == Escaped(s, ts)
<1>1. Len(s) \in Nat /\ 1 \in 1 .. Len(s) + 1
  BY AtText
<1>2. scan(s, d) = From(s, d, 1)
  BY FromStep
<1>3. TokensFrom(s, 1, ts)
  <2>1. TokensFrom(s, 1, From(s, d, 1).tokens)
    BY <1>1, ScanTokens
  <2>2. From(s, d, 1).tokens = ts
    BY <1>2 DEF Found
  <2> QED BY <2>1, <2>2
<1>4. IsEscaped(s, ts, t) /\ t \in Texts
  BY <1>3, EscapedLayout DEF IsEscaped
<1> HIDE DEF t
<1>5. Carried(s, ts, t, d, 1)
  BY <1>1, <1>3, <1>4, CarriedAll
<1>6. /\ 0 \in 0 .. Len(ts) /\ End(ts, 0) = 1 /\ Ahead(s, ts, 0) = 0 /\ Rest(ts, 0) = ts
      /\ Rest(EscapeTokens(s, ts), 0) = EscapeTokens(s, ts)
  <2>1. ts \in Seq(Token) /\ Len(ts) \in Nat
    BY <1>3 DEF TokensFrom
  <2>0. 0 \in 0 .. Len(ts)
    BY <2>1
  <2>2. Rest(ts, 0) = ts
    BY <2>0, <2>1, RestCons
  <2>3. Rest(EscapeTokens(s, ts), 0) = EscapeTokens(s, ts)
    <3> DEFINE F == EscapeTokens(s, ts)
    <3>1. F \in Seq(Token) /\ Len(F) = Len(ts)
      BY <1>3, EscapeTokensAre
    <3> HIDE DEF F
    <3>2. 0 \in 0 .. Len(F)
      BY <2>1, <3>1
    <3>3. Rest(F, 0) = F
      BY <3>1, <3>2, RestCons
    <3> QED BY <3>3 DEF F
  <2>4. Ahead(s, ts, 0) = 0
    BY <1>3, AheadSteps
  <2> QED BY <2>0, <2>2, <2>3, <2>4 DEF End
<1>7. From(t, d, 1) = Found(NoError, EscapeTokens(s, ts))
  <2>1. From(t, d, 1 + Ahead(s, ts, 0)) = Found(NoError, Rest(EscapeTokens(s, ts), 0))
    <3>1. 1 >= End(ts, 0) /\ From(s, d, 1) = Found(NoError, Rest(ts, 0))
      <4>1. 1 >= End(ts, 0)
        BY <1>6
      <4>2. From(s, d, 1) = Found(NoError, ts)
        BY <1>2
      <4> QED BY <1>6, <4>1, <4>2
    <3>2. 0 \in 0 .. Len(ts)
      BY <1>6
    <3> QED BY <1>5, <3>1, <3>2 DEF Carried
  <2>2. 1 + Ahead(s, ts, 0) = 1
    BY <1>6
  <2> QED BY <1>6, <2>1, <2>2
<1>8. scan(t, d) = From(t, d, 1)
  BY <1>4, FromStep
<1> QED BY <1>3, <1>7, <1>8 DEF t

-----------------------------------------------------------------------------
(* What the escaped statement builds to.                                   *)

(* The name of token m. *)
NameOf(ts, m) == IF m = 0 THEN <<>> ELSE ts[m].name

(* Where the escapes stand in the escaped text. *)
LEMMA EscapePlaces ==
  ASSUME NEW s, NEW ts, NEW t, s \in Texts, TokensFrom(s, 1, ts), IsEscaped(s, ts, t),
         NEW m \in 0 .. Len(ts)
  PROVE  /\ NameOf(ts, m) \in Texts
         /\ End(EscapeTokens(s, ts), m)
              = (End(ts, m) + Ahead(s, ts, m)) - Len(NameOf(ts, m))
         /\ Begin(t, EscapeTokens(s, ts), m + 1) = Begin(s, ts, m + 1) + Ahead(s, ts, m)
<1> DEFINE F == EscapeTokens(s, ts)
           n == Len(ts)
<1>1. /\ Len(F) = n
      /\ \A k \in 1 .. n : /\ F[k] = EscapeToken(Begin(s, ts, k) + Ahead(s, ts, k - 1))
                           /\ Begin(s, ts, k) \in Nat /\ Ahead(s, ts, k - 1) \in Nat
  BY EscapeTokensAre
<1>2. n \in Nat /\ Len(s) \in Nat
  BY TokenPlaces
<1>3. Len(t) = Len(s) + Ahead(s, ts, n)
  BY DEF IsEscaped
<1> HIDE DEF F
<1>4. /\ NameOf(ts, m) \in Texts
      /\ End(F, m) = (End(ts, m) + Ahead(s, ts, m)) - Len(NameOf(ts, m))
  <2>1. CASE m = 0
    <3>1. NameOf(ts, m) = <<>> /\ End(F, m) = 1 /\ End(ts, m) = 1
      BY <2>1 DEF NameOf, End
    <3>2. <<>> \in Texts /\ Len(<<>>) = 0
      BY ShortText
    <3>3. Ahead(s, ts, m) = 0
      BY <2>1, AheadSteps
    <3> QED BY <3>1, <3>2, <3>3
  <2>2. CASE m # 0
    <3> DEFINE c == Begin(s, ts, m) + Ahead(s, ts, m - 1)
               nm == ts[m].name
    <3>1. m \in 1 .. n /\ NameOf(ts, m) = nm
      BY <1>2, <2>2 DEF NameOf
    <3>2. End(F, m) = c + 2
      <4>1. F[m] = EscapeToken(c)
        BY <1>1, <3>1
      <4> HIDE DEF c
      <4> QED BY <2>2, <4>1 DEF EscapeToken, End
    <3>3. nm \in Texts
      BY <3>1, TokenPlaces
    <3>4. Len(nm) \in Nat /\ (nm = <<>> => Len(nm) = 0)
      BY <3>3, AtText
    <3>5. /\ nm = <<>> => /\ Ahead(s, ts, m) = Ahead(s, ts, m - 1)
                          /\ End(ts, m) = Begin(s, ts, m) + 2
          /\ nm # <<>> => /\ Ahead(s, ts, m) = Ahead(s, ts, m - 1) + 1
                          /\ End(ts, m) = Begin(s, ts, m) + 1 + Len(nm)
      BY <3>1, AheadSteps
    <3>6. Begin(s, ts, m) \in Nat /\ Ahead(s, ts, m - 1) \in Nat
      BY <1>1, <3>1
    <3> HIDE DEF nm
    <3>7. c + 2 = (End(ts, m) + Ahead(s, ts, m)) - Len(nm)
      BY <3>4, <3>5, <3>6
    <3> HIDE DEF c
    <3> QED BY <3>1, <3>2, <3>3, <3>7 DEF nm
  <2> QED BY <2>1, <2>2
<1>5. Begin(t, F, m + 1) = Begin(s, ts, m + 1) + Ahead(s, ts, m)
  <2>1. CASE m = n
    <3>1. m + 1 # 0 /\ m + 1 > n
      BY <1>2, <2>1
    <3>2. Begin(t, F, m + 1) = Len(t) + 1 /\ Begin(s, ts, m + 1) = Len(s) + 1
      BY <1>1, <3>1 DEF Begin
    <3>3. Ahead(s, ts, n) \in Nat
      BY <1>2, AheadSteps
    <3> QED BY <1>2, <1>3, <2>1, <3>2, <3>3
  <2>2. CASE m # n
    <3> DEFINE k == m + 1
    <3>1. k \in 1 .. n /\ k - 1 = m /\ k # 0 /\ ~(k > n)
      BY <1>2, <2>2
    <3> HIDE DEF k
    <3>2. Begin(t, F, k) = F[k].start
      BY <1>1, <3>1 DEF Begin
    <3> DEFINE c == Begin(s, ts, k) + Ahead(s, ts, k - 1)
    <3>3. F[k] = EscapeToken(c)
      BY <1>1, <3>1
    <3>4. EscapeToken(c).start = c
      <4> HIDE DEF c
      <4> QED BY DEF EscapeToken
    <3>5. Begin(t, F, k) = c
      <4> HIDE DEF c
      <4> QED BY <3>2, <3>3, <3>4
    <3>6. c = Begin(s, ts, k) + Ahead(s, ts, m)
      BY <3>1
    <3> QED BY <3>5, <3>6 DEF k
  <2> QED BY <2>1, <2>2
<1> QED BY <1>4, <1>5 DEF F

(* What follows an escape in the escaped text is the name of its token and
   what follows the token. *)
LEMMA EscapedBetween ==
  ASSUME NEW s, NEW ts, NEW t, s \in Texts, TokensFrom(s, 1, ts), IsEscaped(s, ts, t),
         TokensFrom(t, 1, EscapeTokens(s, ts)), NEW m \in 0 .. Len(ts)
  PROVE  Between(t, EscapeTokens(s, ts), m + 1) = NameOf(ts, m) \o Between(s, ts, m + 1)
<1> DEFINE F == EscapeTokens(s, ts)
           u == Between(t, F, m + 1)
           g == Between(s, ts, m + 1)
           nm == NameOf(ts, m)
           v == nm \o g
           a == End(ts, m)
           b == Begin(s, ts, m + 1)
           h == Ahead(s, ts, m)
           x == End(F, m)
           y == Begin(t, F, m + 1)
<1>1. nm \in Texts /\ x = (a + h) - Len(nm) /\ y = b + h
  BY EscapePlaces
<1>2. Len(F) = Len(ts) /\ t \in Texts
  BY EscapeTokensAre DEF IsEscaped
<1>3. /\ g \in Texts /\ Len(g) = b - a
      /\ \A j \in Int : At(g, j) = IF j \in 1 .. b - a THEN At(s, (a + j) - 1) ELSE "END"
  BY BetweenText
<1>4. a \in Nat /\ b \in Nat /\ a <= b /\ h \in Nat /\ Len(nm) \in Nat
  <2>1. a \in 1 .. Len(s) + 1 /\ b \in 1 .. Len(s) + 1 /\ a <= b
    BY TokenPlaces
  <2>2. h \in Nat
    BY AheadSteps
  <2>3. Len(nm) \in Nat
    BY <1>1, AtText
  <2> QED BY <2>1, <2>2, <2>3
<1> HIDE DEF F, nm, g
<1>5. /\ u \in Texts /\ Len(u) = y - x
      /\ \A j \in Int : At(u, j) = IF j \in 1 .. y - x THEN At(t, (x + j) - 1) ELSE "END"
  <2>1. TokensFrom(t, 1, F) /\ m \in 0 .. Len(F)
    BY <1>2 DEF F
  <2> QED BY <1>2, <2>1, BetweenText
<1>6. /\ v \in Texts /\ Len(v) = Len(nm) + Len(g)
      /\ \A j \in Int : At(v, j) = IF j <= Len(nm) THEN At(nm, j) ELSE At(g, j - Len(nm))
  BY <1>1, <1>3, JoinText
<1>7. \A p \in a .. b - 1 : At(t, p + h) = At(s, p)
  BY DEF IsEscaped
<1>8. \A j \in 1 .. Len(nm) : At(t, (x + j) - 1) = At(nm, j)
  <2>1. CASE m = 0
    <3>1. nm = <<>>
      BY <2>1 DEF nm, NameOf
    <3>2. Len(nm) = 0
      BY <3>1
    <3> QED BY <3>2
  <2>2. CASE m # 0
    <3> DEFINE c == Begin(s, ts, m) + Ahead(s, ts, m - 1)
    <3>0. m \in 1 .. Len(ts)
      <4>1. Len(ts) \in Nat
        BY TokenPlaces
      <4> QED BY <2>2, <4>1
    <3>1. nm = ts[m].name
      BY <2>2 DEF nm, NameOf
    <3>2. \A j \in 1 .. Len(ts[m].name) : At(t, (c + 1) + j) = At(ts[m].name, j)
      BY <3>0 DEF IsEscaped
    <3>3. F[m] = EscapeToken(c) /\ c \in Nat
      BY <3>0, EscapeTokensAre DEF F
    <3> HIDE DEF c
    <3>4. x = c + 2
      BY <2>2, <3>3 DEF End, EscapeToken
    <3> HIDE DEF x
    <3> TAKE j \in 1 .. Len(nm)
    <3>5. (x + j) - 1 = (c + 1) + j
      BY <1>4, <3>3, <3>4
    <3>6. At(t, (c + 1) + j) = At(nm, j)
      BY <3>1, <3>2
    <3> QED BY <3>5, <3>6
  <2> QED BY <2>1, <2>2
<1> HIDE DEF u, v, a, b, h, x, y
<1>9. Len(u) = Len(v)
  BY <1>1, <1>3, <1>4, <1>5, <1>6
<1>10. \A j \in 1 .. Len(u) : At(u, j) = At(v, j)
  <2> TAKE j \in 1 .. Len(u)
  <2>1. j \in Int /\ j \in 1 .. y - x
    BY <1>1, <1>4, <1>5
  <2>2. At(u, j) = At(t, (x + j) - 1)
    BY <1>5, <2>1
  <2>3. CASE j <= Len(nm)
    <3>1. j \in 1 .. Len(nm)
      BY <1>4, <2>1, <2>3
    <3> QED BY <1>6, <1>8, <2>1, <2>2, <2>3, <3>1
  <2>4. CASE ~(j <= Len(nm))
    <3> DEFINE i == j - Len(nm)
               p == (a + i) - 1
    <3>1. /\ i \in Int /\ i \in 1 .. b - a /\ p \in a .. b - 1 /\ p + h = (x + j) - 1
      BY <1>1, <1>4, <2>1, <2>4
    <3> HIDE DEF p
    <3>2. At(t, p + h) = At(s, p)
      BY <1>7, <3>1
    <3>3. At(v, j) = At(g, i)
      BY <1>6, <2>1, <2>4
    <3> HIDE DEF i
    <3>4. At(g, i) = At(s, p)
      BY <1>3, <3>1 DEF p
    <3> QED BY <2>2, <3>1, <3>2, <3>3, <3>4
  <2> QED BY <2>3, <2>4
<1>11. u = v
  BY <1>5, <1>6, <1>9, <1>10, TextEqual
<1> QED BY <1>11 DEF u, v, g, nm, F

(* Texts written one after the other, in two ways. *)
LEMMA ThreeWritten ==
  ASSUME NEW q \in Texts, NEW a \in Texts, NEW b \in Texts
  PROVE  q \o (a \o b) = (q \o a) \o b
<1>1. q \in Seq(Bytes) /\ a \in Seq(Bytes) /\ b \in Seq(Bytes)
  BY DEF Texts
<1> QED BY <1>1, ConcatAssociative

(* What is written for the tokens of a statement when it has no parameter. *)
LEMMA LiteralTexts ==
  ASSUME NEW s, NEW ts, s \in Texts, TokensFrom(s, 1, ts)
  PROVE  /\ IsWritten(s, ts, Literals(ts))
         /\ \A k \in 1 .. Len(ts) : Literals(ts)[k] = <<":">> \o ts[k].name
         /\ <<":">> \in Texts
<1>1. DOMAIN ts = 1 .. Len(ts)
  BY DEF TokensFrom
<1>2. \A k \in 1 .. Len(ts) : Literals(ts)[k] = <<":">> \o ts[k].name
  BY <1>1 DEF Literals
<1>3. <<":">> \in Texts
  <2>1. ":" \in Bytes
    BY ShortText DEF Marks
  <2> QED BY <2>1, ShortText
<1>4. \A k \in 1 .. Len(ts) : Literals(ts)[k] \in Texts
  <2> TAKE k \in 1 .. Len(ts)
  <2>1. ts[k].name \in Texts
    BY TokenPlaces
  <2>2. <<":">> \o ts[k].name \in Texts
    BY <1>3, <2>1, JoinText
  <2> QED BY <1>2, <2>2
<1> QED BY <1>2, <1>3, <1>4 DEF IsWritten

(* The escaped text, rewritten, is the text rewritten: up to each escape it
   lacks the name of the token only, which follows. *)
LEMMA EscapedBuilds ==
  ASSUME NEW s, NEW ts, NEW t, s \in Texts, TokensFrom(s, 1, ts), IsEscaped(s, ts, t),
         TokensFrom(t, 1, EscapeTokens(s, ts))
  PROVE  Rewritten(t, EscapeTokens(s, ts), Literals(EscapeTokens(s, ts)))
           = Rewritten(s, ts, Literals(ts))
<1> DEFINE F == EscapeTokens(s, ts)
           n == Len(ts)
           r == RewrittenTo(s, ts, Literals(ts))
           q == RewrittenTo(t, F, Literals(F))
           gap(k) == Between(s, ts, k)
           S == {m \in 0 .. n : q[m] \o NameOf(ts, m) = r[m]}
<1>1. n \in Nat /\ Len(F) = n /\ t \in Texts
  BY TokenPlaces, EscapeTokensAre DEF IsEscaped
<1>2. /\ \A m \in 0 .. n : r[m] \in Texts
      /\ r[0] = <<>>
      /\ \A k \in 1 .. n : r[k] = r[k - 1] \o gap(k) \o (<<":">> \o ts[k].name)
  <2>1. IsWritten(s, ts, Literals(ts)) /\ \A k \in 1 .. n : Literals(ts)[k] = <<":">> \o ts[k].name
    BY LiteralTexts
  <2> DEFINE w == Literals(ts)
  <2> HIDE DEF w
  <2>2. RewrittenEquation(s, ts, w, RewrittenTo(s, ts, w))
    BY <2>1, RewrittenRecursion DEF w
  <2>3. RewrittenEquation(s, ts, w, r)
    BY <2>2 DEF w
  <2> HIDE DEF r
  <2> QED BY <2>1, <2>3 DEF RewrittenEquation, w
<1>3. \A k \in 1 .. n : <<":">> \o F[k].name = <<":">>
  <2> TAKE k \in 1 .. n
  <2>1. F[k] = EscapeToken(Begin(s, ts, k) + Ahead(s, ts, k - 1))
    BY EscapeTokensAre
  <2>2. F[k].name = <<>>
    <3> HIDE DEF F
    <3> QED BY <2>1 DEF EscapeToken
  <2>3. <<":">> \in Seq(Bytes)
    BY LiteralTexts DEF Texts
  <2> DEFINE u == <<":">>
  <2> HIDE DEF u, F
  <2>4. u \o <<>> = u
    BY <2>3, ConcatEmptySeq DEF u
  <2> QED BY <2>2, <2>4 DEF u
<1>4. /\ \A m \in 0 .. n : q[m] \in Texts
      /\ q[0] = <<>>
      /\ \A k \in 1 .. n : q[k] = q[k - 1] \o Between(t, F, k) \o <<":">>
  <2>1. IsWritten(t, F, Literals(F)) /\ \A k \in 1 .. n : Literals(F)[k] = <<":">> \o F[k].name
    <3> HIDE DEF F, n
    <3> QED BY <1>1, LiteralTexts DEF F
  <2> DEFINE w == Literals(F)
  <2>2. RewrittenEquation(t, F, w, RewrittenTo(t, F, w))
    <3> HIDE DEF F, w
    <3> QED BY <2>1, RewrittenRecursion DEF w
  <2> HIDE DEF q, w, F, n
  <2>3. RewrittenEquation(t, F, w, q)
    BY <2>2 DEF q, w
  <2>4. \A k \in 1 .. n : w[k] = <<":">>
    BY <1>3, <2>1 DEF w
  <2> QED BY <1>1, <2>3, <2>4 DEF RewrittenEquation
<1>5. \A m \in 0 .. n : /\ NameOf(ts, m) \in Texts /\ gap(m + 1) \in Texts
                        /\ Between(t, F, m + 1) = NameOf(ts, m) \o gap(m + 1)
  BY EscapePlaces, EscapedBetween, BetweenText
<1>6. <<":">> \in Texts /\ NameOf(ts, 0) = <<>> /\ \A k \in 1 .. n : NameOf(ts, k) = ts[k].name
  <2>1. \A k \in 1 .. n : k # 0
    BY <1>1
  <2> QED BY <2>1, LiteralTexts DEF NameOf
<1> DEFINE colon == <<":">>
<1> HIDE DEF r, q, gap, F, n, colon
<1>7. 0 .. n \subseteq S
  <2>1. 0 \in S
    <3>1. <<>> \o <<>> = <<>>
      OBVIOUS
    <3>2. q[0] \o NameOf(ts, 0) = r[0]
      BY <1>2, <1>4, <1>6, <3>1, Zenon
    <3> QED BY <1>1, <3>2
  <2>2. \A k \in 1 .. n : k - 1 \in S => k \in S
    <3> TAKE k \in 1 .. n
    <3> HAVE k - 1 \in S
    <3> DEFINE m == k - 1
    <3>1. m \in 0 .. n /\ m + 1 = k /\ k \in 0 .. n /\ m \in S
      BY <1>1
    <3>2. r[k] = r[m] \o gap(k) \o (colon \o NameOf(ts, k))
      BY <1>2, <1>6 DEF colon
    <3>3. q[k] = q[m] \o Between(t, F, k) \o colon
      BY <1>4 DEF colon
    <3> HIDE DEF m
    <3>4. q[m] \o NameOf(ts, m) = r[m]
      BY <3>1
    <3>5. /\ NameOf(ts, m) \in Texts /\ gap(k) \in Texts
          /\ Between(t, F, k) = NameOf(ts, m) \o gap(k)
      BY <1>5, <3>1
    <3>6. NameOf(ts, k) \in Texts /\ q[m] \in Texts /\ colon \in Texts
      BY <1>4, <1>5, <1>6, <3>1 DEF colon
    <3> DEFINE a == NameOf(ts, m)
               b == gap(k)
               e == NameOf(ts, k)
               x == q[m]
    <3>11. a \in Texts /\ b \in Texts /\ e \in Texts /\ x \in Texts /\ colon \in Texts
      BY <3>5, <3>6
    <3> HIDE DEF a, b, e, x
    <3>7. ((x \o (a \o b)) \o colon) \o e = ((x \o a) \o b) \o (colon \o e)
      <4>1. x \o (a \o b) = (x \o a) \o b
        BY <3>11, ThreeWritten, SMTT(30)
      <4> DEFINE w == (x \o a) \o b
      <4>2. x \o a \in Texts
        BY <3>11, JoinText
      <4>3. w \in Texts
        BY <3>11, <4>2, JoinText
      <4> HIDE DEF w
      <4>4. (w \o colon) \o e = w \o (colon \o e)
        BY <3>11, <4>3, ThreeWritten, SMTT(30)
      <4> QED BY <4>1, <4>4, Zenon DEF w
    <3>8. q[k] \o e = ((x \o (a \o b)) \o colon) \o e
      BY <3>3, <3>5, Zenon DEF a, b, x
    <3>9. r[k] = ((x \o a) \o b) \o (colon \o e)
      BY <3>2, <3>4, Zenon DEF a, b, e, x
    <3>10. q[k] \o NameOf(ts, k) = r[k]
      BY <3>7, <3>8, <3>9, Zenon DEF e
    <3> QED BY <3>1, <3>10
  <2> HIDE DEF S
  <2> QED BY <1>1, <2>1, <2>2, BoundedInduction
<1>8. q[n] \o NameOf(ts, n) = r[n] /\ n \in 0 .. n
  <2>1. n \in 0 .. n
    BY <1>1
  <2> QED BY <1>7, <2>1
<1>9. q[n] \o Between(t, F, n + 1) = r[n] \o gap(n + 1)
  <2> DEFINE a == NameOf(ts, n)
             b == gap(n + 1)
             x == q[n]
  <2>1. a \in Texts /\ b \in Texts /\ x \in Texts /\ Between(t, F, n + 1) = a \o b
    BY <1>4, <1>5, <1>8
  <2>2. x \o a = r[n]
    BY <1>8
  <2> HIDE DEF a, b, x
  <2>3. x \o (a \o b) = (x \o a) \o b
    BY <2>1, ThreeWritten
  <2> QED BY <2>1, <2>2, <2>3, Zenon DEF x, b
<1>10. Rewritten(s, ts, Literals(ts)) = r[n] \o gap(n + 1)
  BY Zenon DEF Rewritten, r, gap, n
<1>11. Rewritten(t, F, Literals(F)) = q[n] \o Between(t, F, n + 1)
  BY <1>1, Zenon DEF Rewritten, q
<1> QED BY <1>9, <1>10, <1>11, Zenon DEF F

(* A statement without an error escapes to one without a parameter. *)
LEMMA TypedEscaped == Typed => EscapedParameterIsLiteral
<1> SUFFICES ASSUME Typed, scan(sql, dialect).err = NoError
             PROVE  LET escaped == Rewritten(sql, tokens, Escapes(tokens))
                        found   == scan(escaped, dialect)
                    IN /\ found.err = NoError
                       /\ \A k \in DOMAIN found.tokens : found.tokens[k].name = <<>>
                       /\ Rewritten(escaped, found.tokens, Literals(found.tokens))
                            = Rewritten(sql, tokens, Literals(tokens))
  BY DEF EscapedParameterIsLiteral
<1> DEFINE ts == tokens
           t == Escaped(sql, ts)
           F == EscapeTokens(sql, ts)
<1>1. sql \in Texts /\ dialect \in Dialects
  BY DEF Typed
<1>2. scan(sql, dialect) = Found(NoError, ts)
  <2>1. scan(sql, dialect) \in Results
    BY <1>1, ScanTokens
  <2> QED BY <2>1 DEF Results, Found, tokens
<1> HIDE DEF ts
<1>3. TokensFrom(sql, 1, ts) /\ scan(t, dialect) = Found(NoError, F)
  BY <1>1, <1>2, EscapedScan
<1>4. IsEscaped(sql, ts, t)
  BY <1>1, <1>3, EscapedLayout
<1>5. F \in Seq(Token) /\ \A k \in DOMAIN F : F[k].name = <<>>
  <2>1. /\ F \in Seq(Token) /\ Len(F) = Len(ts)
        /\ \A k \in 1 .. Len(ts) :
             F[k] = EscapeToken(Begin(sql, ts, k) + Ahead(sql, ts, k - 1))
    BY <1>1, <1>3, EscapeTokensAre
  <2> HIDE DEF F
  <2>2. DOMAIN F = 1 .. Len(ts)
    BY <2>1
  <2> QED BY <2>1, <2>2 DEF EscapeToken
<1>6. t = Rewritten(sql, tokens, Escapes(tokens))
  BY DEF Escaped, ts
<1> HIDE DEF t
<1>7. TokensFrom(t, 1, F)
  <2>1. t \in Texts
    BY <1>4 DEF IsEscaped
  <2>2. scan(t, dialect) = From(t, dialect, 1) /\ Len(t) \in Nat
    BY <1>1, <2>1, FromStep, AtText
  <2>3. 1 \in 1 .. Len(t) + 1
    BY <2>2
  <2>4. TokensFrom(t, 1, From(t, dialect, 1).tokens)
    BY <1>1, <2>1, <2>3, ScanTokens
  <2>5. From(t, dialect, 1).tokens = F
    <3> HIDE DEF F
    <3> QED BY <1>3, <2>2 DEF Found
  <2> QED BY <2>4, <2>5
<1>8. Rewritten(t, F, Literals(F)) = Rewritten(sql, ts, Literals(ts))
  BY <1>1, <1>3, <1>4, <1>7, EscapedBuilds
<1> HIDE DEF F
<1>9. scan(t, dialect).err = NoError /\ scan(t, dialect).tokens = F
  BY <1>3 DEF Found
<1> QED BY <1>5, <1>6, <1>8, <1>9, Zenon DEF ts

(* EscapedParameterIsLiteral always: a backslash before the colon of each
   parameter makes it text. *)
THEOREM LexerEscapedParameterIsLiteral == Spec => []EscapedParameterIsLiteral
<1> QED BY AlwaysTyped, TypedEscaped, PTL

-----------------------------------------------------------------------------
(* Protected text is opaque.                                               *)

(* Text f with the parameter :a after it. *)
Followed(s, f) ==
  /\ f \in Texts /\ s \in Texts /\ Len(f) \in Nat /\ Len(s) = Len(f) + 2
  /\ \A j \in 1 .. Len(f) : At(s, j) = At(f, j)
  /\ At(s, Len(f) + 1) = ":" /\ At(s, Len(f) + 2) = "a"

(* The letter a is a byte and begins a name. *)
LEMMA LetterA ==
  /\ "a" \in Bytes /\ "a" \in NameStarts /\ "a" \in NameParts /\ "a" \in IdentifierParts
  /\ ":" \in Bytes
<1>1. "a" \in Letters
  BY LettersAssumption
<1>2. ":" \in Bytes
  BY ShortText DEF Marks
<1>3. "a" \in Bytes
  BY <1>1 DEF Bytes
<1> QED BY <1>1, <1>2, <1>3 DEF NameStarts, NameParts, IdentifierParts

(* A text with :a after it is such a text. *)
LEMMA FollowedText ==
  ASSUME NEW f \in Texts
  PROVE  Followed(f \o <<":", "a">>, f)
<1> DEFINE u == <<":", "a">>
           s == f \o u
<1>1. u \in Texts /\ Len(u) = 2 /\ At(u, 1) = ":" /\ At(u, 2) = "a"
  BY LetterA, ShortText
<1>2. Len(f) \in Nat
  BY AtText
<1> HIDE DEF u
<1>3. /\ s \in Texts /\ Len(s) = Len(f) + Len(u)
      /\ \A j \in Int : At(s, j) = IF j <= Len(f) THEN At(f, j) ELSE At(u, j - Len(f))
  BY <1>1, JoinText
<1> HIDE DEF s
<1>4. \A j \in 1 .. Len(f) : At(s, j) = At(f, j)
  BY <1>2, <1>3
<1>5. At(s, Len(f) + 1) = ":"
  <2>1. Len(f) + 1 \in Int /\ ~(Len(f) + 1 <= Len(f)) /\ (Len(f) + 1) - Len(f) = 1
    BY <1>2
  <2> QED BY <1>1, <1>3, <2>1
<1>6. At(s, Len(f) + 2) = "a"
  <2>1. Len(f) + 2 \in Int /\ ~(Len(f) + 2 <= Len(f)) /\ (Len(f) + 2) - Len(f) = 2
    BY <1>2
  <2> QED BY <1>1, <1>3, <2>1
<1>7. Followed(s, f)
  BY <1>1, <1>2, <1>3, <1>4, <1>5, <1>6 DEF Followed
<1> QED BY <1>7 DEF s, u

(* The parameter is found where the text ends. *)
LEMMA ParameterFollows ==
  ASSUME NEW s, NEW f, Followed(s, f), NEW d \in Dialects
  PROVE  From(s, d, Len(f) + 1) = ParameterAfter(Len(f))
<1> DEFINE p == Len(f) + 1
           name == SubSeq(s, p + 1, p + 1)
           u == Parameter(p + 2, <<"a">>)
<1>0. s \in Texts /\ At(s, Len(f) + 1) = ":" /\ At(s, Len(f) + 2) = "a" /\ Len(s) = Len(f) + 2
      /\ Len(f) \in Nat
  BY DEF Followed
<1>1. /\ p \in 1 .. Len(s) /\ p \in Nat /\ Len(s) = p + 1 /\ Len(s) + 1 = p + 2 /\ Len(f) + 2 = p + 1
      /\ Len(f) + 3 = p + 2
  BY <1>0
<1>a. At(s, p) = ":" /\ At(s, p + 1) = "a"
  BY <1>0, <1>1
<1>b. Found(NoError, <<[start |-> p, next |-> p + 2, name |-> <<"a">>]>>) = ParameterAfter(Len(f))
  BY <1>1 DEF ParameterAfter
<1> HIDE DEF p
<1>2. After(s, p + 1, IdentifierParts) = p + 2
  <2>1. At(s, p + 2) = "END"
    <3>1. p + 2 \in Int /\ p + 2 \notin 1 .. Len(s)
      BY <1>1
    <3> QED BY <1>0, <3>1, AtText
  <2>2. "END" \notin IdentifierParts
    BY Unmarked DEF Marks
  <2>3. \A k \in p + 1 .. (p + 2) - 1 : At(s, k) \in IdentifierParts
    <3>1. \A k \in p + 1 .. (p + 2) - 1 : k = p + 1
      BY <1>1
    <3> QED BY <1>a, <3>1, LetterA
  <2>4. p + 1 \in 1 .. Len(s) + 1 /\ p + 2 \in p + 1 .. Len(s) + 1
    BY <1>1
  <2>5. IsAfter(s, p + 1, IdentifierParts, p + 2)
    BY <1>0, <2>1, <2>2, <2>3, <2>4 DEF IsAfter
  <2> QED BY <2>5, AfterUnique
<1>3. name = <<"a">>
  <2> DEFINE m == p + 1
             g == SubSeq(s, m, m)
             a == <<"a">>
  <2>1. m \in 1 .. Len(s) + 1 /\ m \in 0 .. Len(s) /\ m <= m + 1 /\ m - m + 1 = 1 /\ m + 1 - 1 = m
        /\ m \in Nat
    BY <1>1
  <2>2. At(s, m) = "a"
    BY <1>a
  <2> HIDE DEF m
  <2>3. g \in Texts /\ Len(g) = 1 /\ \A j \in 1 .. m - m + 1 : g[j] = At(s, m + j - 1)
    BY <1>0, <2>1, PartText
  <2>4. g[1] = "a"
    <3>1. 1 \in 1 .. m - m + 1 /\ m + 1 - 1 = m
      BY <2>1
    <3> QED BY <2>2, <2>3, <3>1
  <2>5. a \in Texts /\ Len(a) = 1 /\ At(a, 1) = "a"
    BY LetterA, ShortText
  <2> HIDE DEF g, a
  <2>6. At(g, 1) = "a"
    BY <2>3, <2>4, AtText
  <2>7. \A j \in 1 .. Len(g) : At(g, j) = At(a, j)
    BY <2>3, <2>5, <2>6
  <2>8. g = a
    BY <2>3, <2>5, <2>7, TextEqual
  <2> QED BY <2>8 DEF g, a, m
<1>4. validName(<<"a">>)
  BY LetterA DEF validName, nameStart, namePart
<1>5. Lexeme(s, p, d) = u
  <2>1. IsColon(s, p)
    BY <1>a DEF IsColon
  <2>2. Lexeme(s, p, d) = Colon(s, p)
    BY <2>1, LexemeCases
  <2>3. (p + 2) - 1 = p + 1
    BY <1>1
  <2>4. SubSeq(s, p + 1, After(s, p + 1, IdentifierParts) - 1) = <<"a">>
    BY <1>2, <1>3, <2>3
  <2>5. nameStart(At(s, p + 1)) /\ At(s, p + 1) \notin {":", "="}
    BY <1>a, LetterA DEF nameStart
  <2>6. Colon(s, p) = Parameter(p + 2, <<"a">>)
    <3> HIDE DEF name
    <3> QED BY <1>2, <1>4, <2>4, <2>5 DEF Colon
  <2> QED BY <2>2, <2>6
<1>6. u.kind = "token" /\ u.next = p + 2 /\ u.name = <<"a">> /\ u.kind \notin Errors
  BY DEF Parameter, Turn, Errors
<1>7. TokenAt(p, u) = [start |-> p, next |-> p + 2, name |-> <<"a">>]
  BY <1>6 DEF TokenAt
<1> HIDE DEF u
<1>8. From(s, d, p) = Joined(p, u, Inner(s, d, p), From(s, d, u.next))
  BY <1>0, <1>1, <1>5, FromStep
<1>9. From(s, d, p + 2) = Nothing
  BY <1>0, <1>1, FromStep
<1>10. Joined(p, u, Inner(s, d, p), From(s, d, u.next)) = Preceded(TokenAt(p, u), From(s, d, u.next))
  BY <1>6, JoinedGives
<1>11. From(s, d, p) = Preceded(TokenAt(p, u), Nothing)
  BY <1>6, <1>8, <1>9, <1>10
<1>12. Preceded(TokenAt(p, u), Nothing) = Found(NoError, <<TokenAt(p, u)>>)
  <2>1. \A x : <<x>> \o <<>> = <<x>>
    OBVIOUS
  <2>2. Nothing.err = NoError /\ Nothing.tokens = <<>>
    BY DEF Nothing, Found
  <2> QED BY <2>1, <2>2 DEF Preceded
<1>13. From(s, d, p) = ParameterAfter(Len(f))
  BY <1>7, <1>11, <1>12, <1>b
<1> QED BY <1>13 DEF p

(* A turn of text is skipped. *)
LEMMA SkipStep ==
  ASSUME NEW s \in Texts, NEW d \in Dialects, NEW i \in 1 .. Len(s), NEW n,
         Lexeme(s, i, d) = Skip(n)
  PROVE  From(s, d, i) = From(s, d, n)
<1>1. From(s, d, i) = Joined(i, Skip(n), Inner(s, d, i), From(s, d, Skip(n).next))
  BY FromStep
<1>2. Skip(n).kind = "text" /\ Skip(n).next = n /\ Skip(n).kind \notin Errors
  BY DEF Skip, Turn, Errors
<1> HIDE DEF Skip
<1> QED BY <1>1, <1>2, JoinedGives

(* Text that one turn takes as a whole yields the parameter after it. *)
LEMMA OneTurn ==
  ASSUME NEW s, NEW f, Followed(s, f), NEW d \in Dialects, Len(f) >= 1,
         Lexeme(s, 1, d) = Skip(Len(f) + 1)
  PROVE  scan(s, d) = ParameterAfter(Len(f))
<1>1. s \in Texts /\ 1 \in 1 .. Len(s)
  BY DEF Followed
<1>2. scan(s, d) = From(s, d, 1)
  BY <1>1, FromStep
<1>3. From(s, d, 1) = From(s, d, Len(f) + 1)
  BY <1>1, SkipStep
<1> QED BY <1>2, <1>3, ParameterFollows

(* Where the characters of a part stand, it is found. *)
LEMMA HasAt ==
  ASSUME NEW text \in Texts, NEW part \in Texts, NEW k \in 1 .. Len(text) - Len(part) + 1,
         \A j \in 1 .. Len(part) : At(text, k + j - 1) = At(part, j)
  PROVE  Has(text, part)
<1> DEFINE n == Len(part)
           b == k + n - 1
           g == SubSeq(text, k, b)
<1>1. n \in Nat /\ Len(text) \in Nat
  BY AtText
<1>2. k \in 1 .. Len(text) + 1 /\ b \in 0 .. Len(text) /\ k <= b + 1 /\ b - k + 1 = n
  BY <1>1
<1> HIDE DEF b
<1>3. /\ g \in Texts /\ Len(g) = b - k + 1
      /\ \A j \in Int : At(g, j) = IF j \in 1 .. b - k + 1 THEN At(text, k + j - 1) ELSE "END"
  BY <1>2, PartText
<1> HIDE DEF g
<1>4. \A j \in 1 .. Len(g) : At(g, j) = At(part, j)
  <2> TAKE j \in 1 .. Len(g)
  <2>1. j \in Int /\ j \in 1 .. b - k + 1 /\ j \in 1 .. Len(part)
    BY <1>1, <1>2, <1>3
  <2> QED BY <1>3, <2>1
<1>5. g = part
  BY <1>2, <1>3, <1>4, TextEqual
<1>6. SubSeq(text, k, k + Len(part) - 1) = part
  BY <1>5 DEF g, b, n
<1> QED BY <1>6 DEF Has

(* A character that a text does not have stands nowhere in it. *)
LEMMA HasNowhere ==
  ASSUME NEW text \in Texts, NEW c \in Bytes, ~Has(text, <<c>>)
  PROVE  \A k \in 1 .. Len(text) : At(text, k) # c
<1> SUFFICES ASSUME NEW k \in 1 .. Len(text), At(text, k) = c PROVE FALSE
  OBVIOUS
<1> DEFINE u == <<c>>
<1>1. u \in Texts /\ Len(u) = 1 /\ At(u, 1) = c
  BY ShortText
<1>2. Len(text) \in Nat
  BY AtText
<1>3. ~Has(text, u)
  OBVIOUS
<1> HIDE DEF u
<1>4. k \in 1 .. Len(text) - Len(u) + 1
  BY <1>1, <1>2
<1>5. \A j \in 1 .. Len(u) : At(text, k + j - 1) = At(u, j)
  <2> TAKE j \in 1 .. Len(u)
  <2>1. j = 1 /\ k + j - 1 = k
    BY <1>1
  <2> QED BY <1>1, <2>1
<1>6. Has(text, u)
  BY <1>1, <1>4, <1>5, HasAt
<1> QED BY <1>3, <1>6

(* Nor does a pair of characters that it does not have. *)
LEMMA HasNoPair ==
  ASSUME NEW text \in Texts, NEW c \in Bytes, NEW e \in Bytes, ~Has(text, <<c, e>>)
  PROVE  \A k \in 1 .. Len(text) - 1 : ~Pair(text, k, c, e)
<1> SUFFICES ASSUME NEW k \in 1 .. Len(text) - 1, At(text, k) = c, At(text, k + 1) = e PROVE FALSE
  BY DEF Pair
<1> DEFINE u == <<c, e>>
<1>1. u \in Texts /\ Len(u) = 2 /\ At(u, 1) = c /\ At(u, 2) = e
  BY ShortText
<1>2. Len(text) \in Nat
  BY AtText
<1>3. ~Has(text, u)
  OBVIOUS
<1> HIDE DEF u
<1>4. k \in 1 .. Len(text) - Len(u) + 1
  BY <1>1, <1>2
<1>5. \A j \in 1 .. Len(u) : At(text, k + j - 1) = At(u, j)
  <2> TAKE j \in 1 .. Len(u)
  <2>1. j \in {1, 2} /\ (j = 1 => k + j - 1 = k) /\ (j = 2 => k + j - 1 = k + 1)
    BY <1>1
  <2>2. CASE j = 1
    BY <1>1, <2>1, <2>2
  <2>3. CASE j = 2
    BY <1>1, <2>1, <2>3
  <2> QED BY <2>1, <2>2, <2>3
<1>6. Has(text, u)
  BY <1>1, <1>4, <1>5, HasAt
<1> QED BY <1>3, <1>6

(* Three characters are a text. *)
LEMMA ThreeCharacters ==
  ASSUME NEW c \in Bytes, NEW e \in Bytes, NEW g \in Bytes
  PROVE  LET u == <<c, e, g>>
         IN u \in Texts /\ Len(u) = 3 /\ At(u, 1) = c /\ At(u, 2) = e /\ At(u, 3) = g
<1> DEFINE u == <<c, e, g>>
<1>1. u \in Seq(Bytes) /\ Len(u) = 3 /\ u[1] = c /\ u[2] = e /\ u[3] = g
  OBVIOUS
<1> HIDE DEF u
<1>2. u \in Texts /\ 1 \in 1 .. Len(u) /\ 2 \in 1 .. Len(u) /\ 3 \in 1 .. Len(u)
  BY <1>1 DEF Texts
<1>3. At(u, 1) = c /\ At(u, 2) = e /\ At(u, 3) = g
  BY <1>1, <1>2, AtText
<1> QED BY <1>1, <1>2, <1>3 DEF u

(* Text f is a prefix, a text and a suffix; s has :a after it. *)
Enclosed(s, f, u, g, w) ==
  /\ u \in Texts /\ g \in Texts /\ w \in Texts
  /\ Len(u) \in Nat /\ Len(g) \in Nat /\ Len(w) \in Nat
  /\ Followed(s, f) /\ Len(f) = Len(u) + Len(g) + Len(w)
  /\ s \in Texts /\ Len(s) = Len(f) + 2 /\ Len(f) \in Nat
  /\ \A j \in 1 .. Len(u) : At(s, j) = At(u, j)
  /\ \A j \in 1 .. Len(g) : At(s, Len(u) + j) = At(g, j)
  /\ \A j \in 1 .. Len(w) : At(s, (Len(u) + Len(g)) + j) = At(w, j)
  /\ At(s, Len(f) + 1) = ":" /\ At(s, Len(f) + 2) = "a"

(* Texts written one after the other are such a text. *)
LEMMA EnclosedText ==
  ASSUME NEW u \in Texts, NEW g \in Texts, NEW w \in Texts
  PROVE  Enclosed((u \o g \o w) \o <<":", "a">>, u \o g \o w, u, g, w)
<1> DEFINE f == u \o g \o w
           s == f \o <<":", "a">>
<1>1. IsJoined(f, u, g, w)
  BY ThreeTexts
<1> HIDE DEF f
<1>2. /\ f \in Texts /\ Len(f) = Len(u) + Len(g) + Len(w)
      /\ \A j \in Int : j <= Len(u) => At(f, j) = At(u, j)
      /\ \A j \in 1 .. Len(g) : At(f, Len(u) + j) = At(g, j)
      /\ \A j \in 1 .. Len(w) : At(f, (Len(u) + Len(g)) + j) = At(w, j)
  BY <1>1 DEF IsJoined
<1>3. Followed(s, f)
  BY <1>2, FollowedText
<1> HIDE DEF s
<1>4. /\ s \in Texts /\ Len(s) = Len(f) + 2 /\ Len(f) \in Nat
      /\ \A j \in 1 .. Len(f) : At(s, j) = At(f, j)
      /\ At(s, Len(f) + 1) = ":" /\ At(s, Len(f) + 2) = "a"
  BY <1>3 DEF Followed
<1>5. Len(u) \in Nat /\ Len(g) \in Nat /\ Len(w) \in Nat
  BY AtText
<1>6. \A j \in 1 .. Len(u) : At(s, j) = At(u, j)
  <2> TAKE j \in 1 .. Len(u)
  <2>1. j \in Int /\ j <= Len(u) /\ j \in 1 .. Len(f)
    BY <1>2, <1>5
  <2> QED BY <1>2, <1>4, <2>1
<1>7. \A j \in 1 .. Len(g) : At(s, Len(u) + j) = At(g, j)
  <2> TAKE j \in 1 .. Len(g)
  <2>1. Len(u) + j \in 1 .. Len(f)
    BY <1>2, <1>5
  <2> QED BY <1>2, <1>4, <2>1
<1>8. \A j \in 1 .. Len(w) : At(s, (Len(u) + Len(g)) + j) = At(w, j)
  <2> TAKE j \in 1 .. Len(w)
  <2>1. (Len(u) + Len(g)) + j \in 1 .. Len(f)
    BY <1>2, <1>5
  <2> QED BY <1>2, <1>4, <2>1
<1>9. Enclosed(s, f, u, g, w)
  BY <1>2, <1>3, <1>4, <1>5, <1>6, <1>7, <1>8 DEF Enclosed
<1> QED BY <1>9 DEF s, f

(* A line that a dash comment takes to its end. *)
LEMMA LineOpaque ==
  ASSUME NEW s, NEW f, NEW g, NEW d \in Dialects,
         Enclosed(s, f, <<"-", "-", "SPACE">>, g, <<"NL">>),
         \A c \in LineTerminators(d) : ~Has(g, <<c>>)
  PROVE  scan(s, d) = ParameterAfter(Len(f))
<1> DEFINE u == <<"-", "-", "SPACE">>
           w == <<"NL">>
           q == Len(f)
<1>1. u \in Texts /\ Len(u) = 3 /\ At(u, 1) = "-" /\ At(u, 2) = "-" /\ At(u, 3) = "SPACE"
  <2>1. "-" \in Bytes /\ "SPACE" \in Bytes
    BY ShortText DEF Marks
  <2> QED BY <2>1, ThreeCharacters
<1>2. w \in Texts /\ Len(w) = 1 /\ At(w, 1) = "NL"
  <2>1. "NL" \in Bytes
    BY ShortText DEF Marks
  <2> QED BY <2>1, ShortText
<1>3. Enclosed(s, f, u, g, w)
  OBVIOUS
<1> HIDE DEF u, w
<1>4. /\ g \in Texts /\ Len(g) \in Nat /\ Followed(s, f) /\ q = Len(u) + Len(g) + Len(w)
      /\ s \in Texts /\ Len(s) = q + 2 /\ q \in Nat
      /\ \A j \in 1 .. Len(u) : At(s, j) = At(u, j)
      /\ \A j \in 1 .. Len(g) : At(s, Len(u) + j) = At(g, j)
      /\ \A j \in 1 .. Len(w) : At(s, (Len(u) + Len(g)) + j) = At(w, j)
  BY <1>3 DEF Enclosed
<1> HIDE DEF q
<1>5. /\ q = 4 + Len(g) /\ 1 \in 1 .. Len(s) /\ 1 \in 1 .. Len(u) /\ 2 \in 1 .. Len(u)
      /\ 3 \in 1 .. Len(u) /\ 1 \in 1 .. Len(w) /\ (Len(u) + Len(g)) + 1 = q
      /\ q \in 1 .. Len(s)
  BY <1>1, <1>2, <1>4
<1>6. At(s, 1) = "-" /\ At(s, 2) = "-" /\ At(s, 3) = "SPACE"
  BY <1>1, <1>4, <1>5
<1>7. At(s, q) = "NL"
  BY <1>2, <1>4, <1>5
<1>8. lineEnd(s, 3, d) = q
  <2>1. At(s, q) \in Stops(d)
    BY <1>7 DEF Stops, LineTerminators
  <2>2. 3 \in 1 .. Len(s) + 1 /\ q \in 3 .. Len(s) + 1
    BY <1>4, <1>5
  <2>3. \A k \in 3 .. q - 1 : At(s, k) \notin Stops(d)
    <3> TAKE k \in 3 .. q - 1
    <3>1. CASE k = 3
      BY <1>6, <3>1 DEF Stops, LineTerminators
    <3>2. CASE k # 3
      <4> DEFINE j == k - 3
      <4>1. j \in 1 .. Len(g) /\ Len(u) + j = k
        BY <1>1, <1>4, <1>5, <3>2
      <4> HIDE DEF j
      <4>2. At(s, k) = At(g, j) /\ At(g, j) \in Bytes
        <5>1. At(s, Len(u) + j) = At(g, j)
          BY <1>4, <4>1
        <5> QED BY <1>4, <4>1, <5>1, AtText
      <4>3. ASSUME NEW c \in LineTerminators(d) PROVE At(g, j) # c
        <5>1. c \in Bytes
          BY ShortText DEF LineTerminators, Marks
        <5>2. ~Has(g, <<c>>)
          OBVIOUS
        <5> QED BY <1>4, <4>1, <5>1, <5>2, HasNowhere
      <4>4. At(g, j) # "END"
        BY <4>2, ShortText
      <4> QED BY <4>2, <4>3, <4>4 DEF Stops
    <3> QED BY <3>1, <3>2
  <2>4. IsLineEnd(s, 3, d, q)
    BY <1>4, <2>1, <2>2, <2>3 DEF IsLineEnd
  <2> QED BY <2>4, LineEndUnique
<1>9. Lexeme(s, 1, d) = Skip(q)
  <2>1. StartsDashComment(s, 1, d)
    BY <1>6 DEF StartsDashComment
  <2> QED BY <1>8, <2>1, LexemeCases
<1>10. scan(s, d) = From(s, d, 1)
  BY <1>4, FromStep
<1>11. From(s, d, 1) = From(s, d, q)
  BY <1>4, <1>5, <1>9, SkipStep
<1>12. From(s, d, q) = From(s, d, q + 1)
  BY <1>4, <1>5, <1>7, NewlineIsPlain
<1>13. From(s, d, q + 1) = ParameterAfter(q)
  BY <1>4, ParameterFollows DEF q
<1>14. scan(s, d) = ParameterAfter(q)
  BY <1>10, <1>11, <1>12, <1>13
<1> QED BY <1>14 DEF q

(* A text in which a comment that is open from position 3 on is closed at q,
   and neither closed nor nested before. *)
OpenUntil(s, q, nests) ==
  /\ s \in Texts /\ nests \in BOOLEAN /\ q \in Nat /\ q >= 3 /\ q < Len(s)
  /\ Pair(s, q, "*", "/")
  /\ \A j \in 3 .. q - 1 : ~Pair(s, j, "*", "/")
  /\ nests => \A j \in 3 .. q - 1 : ~Pair(s, j, "/", "*")

(* Such a comment ends after q. *)
LEMMA BlockCloses ==
  ASSUME NEW s, NEW q, NEW nests, OpenUntil(s, q, nests)
  PROVE  CommentFrom(s, nests)[<<3, 1>>] = q + 2
<1> DEFINE e == CommentFrom(s, nests)
           S == {j \in 1 .. q : j >= 3 => e[<<j, 1>>] = q + 2}
<1>1. /\ s \in Texts /\ nests \in BOOLEAN /\ q \in Nat /\ q >= 3 /\ q < Len(s) /\ Len(s) \in Nat
      /\ Pair(s, q, "*", "/")
      /\ \A j \in 3 .. q - 1 : ~Pair(s, j, "*", "/")
      /\ nests => \A j \in 3 .. q - 1 : ~Pair(s, j, "/", "*")
  BY AtText DEF OpenUntil
<1>2. \A j \in 1 .. Len(s) :
        e[<<j, 1>>] = IF Pair(s, j, "*", "/") THEN j + 2
                      ELSE IF nests /\ Pair(s, j, "/", "*") THEN e[<<j + 2, 2>>]
                      ELSE e[<<j + 1, 1>>]
  <2>1. 1 \in Nat \ {0} /\ 1 + 1 = 2
    OBVIOUS
  <2>2. \A j \in 1 .. Len(s) :
          e[<<j, 1>>] = IF Pair(s, j, "*", "/")
                        THEN IF 1 = 1 THEN j + 2 ELSE e[<<j + 2, 1 - 1>>]
                        ELSE IF nests /\ Pair(s, j, "/", "*") THEN e[<<j + 2, 1 + 1>>]
                        ELSE e[<<j + 1, 1>>]
    BY <1>1, <2>1, CommentRecursion
  <2> HIDE DEF e
  <2> QED BY <2>1, <2>2, ZenonT(30)
<1> HIDE DEF e
<1>3. ASSUME NEW j \in 1 .. q, \A k \in j + 1 .. q : k \in S PROVE j \in S
  <2> SUFFICES ASSUME j >= 3 PROVE e[<<j, 1>>] = q + 2
    OBVIOUS
  <2>1. j \in 1 .. Len(s)
    BY <1>1
  <2>2. CASE j = q
    BY <1>1, <1>2, <2>1, <2>2
  <2>3. CASE j # q
    <3>1. j \in 3 .. q - 1 /\ j + 1 \in j + 1 .. q /\ j + 1 >= 3
      BY <1>1, <2>3
    <3>2. ~Pair(s, j, "*", "/") /\ ~(nests /\ Pair(s, j, "/", "*"))
      BY <1>1, <3>1
    <3>3. e[<<j + 1, 1>>] = q + 2
      <4>1. j + 1 \in S
        BY <1>3, <3>1
      <4> QED BY <3>1, <4>1
    <3> QED BY <1>2, <2>1, <3>2, <3>3
  <2> QED BY <2>2, <2>3
<1>4. e[<<3, 1>>] = q + 2
  <2>1. \A j \in 1 .. q : j \in S
    <3> HIDE DEF S
    <3> QED BY <1>1, <1>3, BackwardInduction
  <2>2. 3 \in 1 .. q
    BY <1>1
  <2> QED BY <2>1, <2>2
<1> QED BY <1>4 DEF e

(* A text enclosed in a comment that it neither ends nor nests. *)
LEMMA BlockOpaque ==
  ASSUME NEW s, NEW f, NEW g, NEW d \in Dialects,
         Enclosed(s, f, <<"/", "*">>, g, <<"*", "/">>),
         ~Has(g, <<"*", "/">>), Nests(d) => ~Has(g \o <<"*">>, <<"/", "*">>),
         d = "mysql" => At(g, 1) # "!"
  PROVE  scan(s, d) = ParameterAfter(Len(f))
<1> DEFINE u == <<"/", "*">>
           w == <<"*", "/">>
           n == Len(g)
           q == n + 3
<1>b. "/" \in Bytes /\ "*" \in Bytes
  BY ShortText DEF Marks
<1>1. u \in Texts /\ Len(u) = 2 /\ At(u, 1) = "/" /\ At(u, 2) = "*"
  BY <1>b, ShortText
<1>2. w \in Texts /\ Len(w) = 2 /\ At(w, 1) = "*" /\ At(w, 2) = "/"
  BY <1>b, ShortText
<1>3. Enclosed(s, f, u, g, w)
  OBVIOUS
<1>a. \A k \in 1 .. Len(g) - 1 : ~Pair(g, k, "*", "/")
  <2>1. g \in Texts
    BY <1>3 DEF Enclosed
  <2> QED BY <1>b, <2>1, HasNoPair
<1> HIDE DEF u, w
<1>4. /\ g \in Texts /\ n \in Nat /\ Followed(s, f) /\ Len(f) = Len(u) + n + Len(w)
      /\ s \in Texts /\ Len(s) = Len(f) + 2
      /\ \A j \in 1 .. Len(u) : At(s, j) = At(u, j)
      /\ \A j \in 1 .. n : At(s, Len(u) + j) = At(g, j)
      /\ \A j \in 1 .. Len(w) : At(s, (Len(u) + n) + j) = At(w, j)
  BY <1>3 DEF Enclosed
<1> HIDE DEF n
<1>5. /\ q \in Nat /\ Len(f) = q + 1 /\ Len(s) = q + 3 /\ 1 \in 1 .. Len(u) /\ 2 \in 1 .. Len(u)
      /\ 1 \in 1 .. Len(w) /\ 2 \in 1 .. Len(w) /\ (Len(u) + n) + 1 = q /\ (Len(u) + n) + 2 = q + 1
  BY <1>1, <1>2, <1>4
<1>6. At(s, 1) = "/" /\ At(s, 2) = "*"
  BY <1>1, <1>4, <1>5
<1>7. At(s, q) = "*" /\ At(s, q + 1) = "/"
  BY <1>2, <1>4, <1>5
<1>8. \A j \in 3 .. q - 1 : At(s, j) = At(g, j - 2) /\ j - 2 \in 1 .. n
  <2> TAKE j \in 3 .. q - 1
  <2> DEFINE k == j - 2
  <2>1. k \in 1 .. n /\ Len(u) + k = j
    BY <1>1, <1>4
  <2> HIDE DEF k
  <2>2. At(s, j) = At(g, k)
    BY <1>4, <2>1
  <2> QED BY <2>1, <2>2 DEF k
<1>9. \A j \in 3 .. q - 1 : ~Pair(s, j, "*", "/")
  <2> TAKE j \in 3 .. q - 1
  <2>1. CASE j = q - 1
    <3>1. j + 1 = q
      BY <1>5, <2>1, SMTT(30)
    <3> QED BY <1>7, <3>1 DEF Pair
  <2>2. CASE j # q - 1
    <3> DEFINE k == j - 2
    <3>0. n \in Nat /\ j \in 3 .. (n + 3) - 1 /\ j # (n + 3) - 1
      BY <1>4, <2>2
    <3>1. j + 1 \in 3 .. q - 1 /\ (j + 1) - 2 = k + 1 /\ k \in 1 .. n - 1
      BY <3>0
    <3>2. At(s, j) = At(g, k) /\ At(s, j + 1) = At(g, k + 1)
      <4>1. At(s, j) = At(g, k)
        BY <1>8
      <4>2. At(s, j + 1) = At(g, (j + 1) - 2)
        BY <1>8, <3>1
      <4> QED BY <3>1, <4>1, <4>2
    <3> HIDE DEF k
    <3>3. ~Pair(g, k, "*", "/")
      BY <1>a, <3>1 DEF n
    <3> QED BY <3>2, <3>3 DEF Pair
  <2> QED BY <2>1, <2>2
<1>10. ASSUME Nests(d) PROVE \A j \in 3 .. q - 1 : ~Pair(s, j, "/", "*")
  <2> DEFINE star == <<"*">>
             h == g \o star
  <2>1. star \in Texts /\ Len(star) = 1 /\ At(star, 1) = "*"
    BY <1>b, ShortText
  <2>a. ~Has(h, <<"/", "*">>)
    BY <1>10
  <2> HIDE DEF star
  <2>2. /\ h \in Texts /\ Len(h) = n + 1
        /\ \A j \in Int : At(h, j) = IF j <= n THEN At(g, j) ELSE At(star, j - n)
    <3>1. Len(g) = n /\ g \in Texts
      BY <1>4 DEF n
    <3>2. /\ h \in Texts /\ Len(h) = Len(g) + Len(star)
          /\ \A j \in Int : At(h, j) = IF j <= Len(g) THEN At(g, j) ELSE At(star, j - Len(g))
      BY <2>1, <3>1, JoinText
    <3> HIDE DEF h
    <3> QED BY <2>1, <3>1, <3>2
  <2> HIDE DEF h
  <2>3. \A k \in 1 .. Len(h) - 1 : ~Pair(h, k, "/", "*")
    BY <1>b, <2>a, <2>2, HasNoPair
  <2> TAKE j \in 3 .. q - 1
  <2> DEFINE k == j - 2
  <2>4. k \in 1 .. Len(h) - 1 /\ k \in Int /\ k + 1 \in Int /\ k <= n
    BY <1>4, <1>5, <2>2
  <2>5. At(h, k) = At(s, j)
    <3>1. At(s, j) = At(g, k)
      BY <1>8
    <3> HIDE DEF k
    <3> QED BY <2>2, <2>4, <3>1
  <2>6. At(h, k + 1) = At(s, j + 1)
    <3>1. CASE j = q - 1
      <4>1. j + 1 = q /\ k + 1 = n + 1 /\ ~(k + 1 <= n) /\ (k + 1) - n = 1
        BY <1>4, <1>5, <3>1
      <4> HIDE DEF k
      <4>2. At(h, k + 1) = At(star, (k + 1) - n)
        BY <2>2, <2>4, <4>1
      <4> QED BY <1>7, <2>1, <4>1, <4>2
    <3>2. CASE j # q - 1
      <4>1. j + 1 \in 3 .. q - 1 /\ (j + 1) - 2 = k + 1 /\ k + 1 <= n
        BY <1>4, <1>5, <3>2
      <4>2. At(s, j + 1) = At(g, k + 1)
        BY <1>8, <4>1
      <4> HIDE DEF k
      <4> QED BY <2>2, <2>4, <4>1, <4>2
    <3> QED BY <3>1, <3>2
  <2> HIDE DEF k
  <2> QED BY <2>3, <2>4, <2>5, <2>6 DEF Pair
<1>11. CommentEnd(s, 1, d) = q + 2
  <2>1. 1 + 2 = 3 /\ Nests(d) \in BOOLEAN
    BY DEF Nests
  <2>2. Pair(s, q, "*", "/")
    BY <1>7 DEF Pair
  <2>3. OpenUntil(s, q, Nests(d))
    BY <1>4, <1>5, <1>9, <1>10, <2>1, <2>2 DEF OpenUntil
  <2> HIDE DEF q
  <2> QED BY <2>1, <2>3, BlockCloses DEF CommentEnd
<1>12. ~IsExecutable(s, 1, d)
  <2>1. d = "mysql" => At(s, 3) # "!"
    <3>1. CASE n = 0
      BY <1>7, <3>1
    <3>2. CASE n # 0
      <4>1. 3 \in 3 .. q - 1 /\ 3 - 2 = 1
        BY <1>4, <3>2
      <4>2. At(s, 3) = At(g, 1)
        BY <1>8, <4>1
      <4> QED BY <4>2
    <3> QED BY <3>1, <3>2
  <2>2. 1 + 2 = 3
    OBVIOUS
  <2> QED BY <2>1, <2>2 DEF IsExecutable
<1>13. Lexeme(s, 1, d) = Skip(q + 2)
  <2>1. IsComment(s, 1)
    BY <1>6 DEF IsComment, Pair
  <2>2. Lexeme(s, 1, d) = Comment(s, 1, d)
    BY <2>1, LexemeCases
  <2>3. q + 2 # 0
    BY <1>5
  <2> HIDE DEF q
  <2>4. Comment(s, 1, d) = Skip(q + 2)
    BY <1>11, <1>12, <2>3 DEF Comment
  <2> QED BY <2>2, <2>4
<1>14. Len(f) >= 1 /\ Len(f) + 1 = q + 2
  BY <1>4, <1>5
<1> HIDE DEF q
<1> QED BY <1>4, <1>13, <1>14, OneTurn

(* A delimiter of dollar-quoted text: dollars around letters. *)
IsTag(tag) ==
  /\ tag \in Texts /\ Len(tag) \in Nat /\ Len(tag) >= 2
  /\ At(tag, 1) = "$" /\ At(tag, Len(tag)) = "$"
  /\ \A k \in 2 .. Len(tag) - 1 : At(tag, k) = "a"

(* Both tags of DollarForms are delimiters. *)
LEMMA TagForms ==
  IsTag(<<"$", "$">>) /\ IsTag(<<"$", "a", "$">>)
<1>1. "$" \in Bytes /\ "a" \in Bytes
  BY ShortText, LetterA DEF Marks
<1>2. IsTag(<<"$", "$">>)
  <2> DEFINE u == <<"$", "$">>
  <2>1. u \in Texts /\ Len(u) = 2 /\ At(u, 1) = "$" /\ At(u, 2) = "$"
    BY <1>1, ShortText
  <2> HIDE DEF u
  <2>2. IsTag(u)
    BY <2>1 DEF IsTag
  <2> QED BY <2>2 DEF u
<1>3. IsTag(<<"$", "a", "$">>)
  <2> DEFINE u == <<"$", "a", "$">>
  <2>1. u \in Texts /\ Len(u) = 3 /\ At(u, 1) = "$" /\ At(u, 2) = "a" /\ At(u, 3) = "$"
    BY <1>1, ThreeCharacters
  <2> HIDE DEF u
  <2>2. \A k \in 2 .. Len(u) - 1 : k = 2
    BY <2>1
  <2>3. IsTag(u)
    BY <2>1, <2>2 DEF IsTag
  <2> QED BY <2>3 DEF u
<1> QED BY <1>2, <1>3

(* The delimiter that a tag at the start of a text is. *)
LEMMA TagDelimits ==
  ASSUME NEW s \in Texts, NEW tag, IsTag(tag), Len(tag) <= Len(s),
         \A j \in 1 .. Len(tag) : At(s, j) = At(tag, j)
  PROVE  dollarDelimiter(s, 1) = Len(tag)
<1> DEFINE n == Len(tag)
           P == NameParts \cup HighBytes
<1>1. /\ n \in Nat /\ n >= 2 /\ n <= Len(s) /\ Len(s) \in Nat
      /\ At(tag, 1) = "$" /\ At(tag, n) = "$" /\ \A k \in 2 .. n - 1 : At(tag, k) = "a"
      /\ \A j \in 1 .. n : At(s, j) = At(tag, j)
  BY AtText DEF IsTag
<1> HIDE DEF n
<1>2. At(s, n) = "$" /\ \A k \in 2 .. n - 1 : At(s, k) = "a"
  BY <1>1
<1>3. After(s, 2, P) = n
  <2>1. "$" \notin P
    BY Unmarked
  <2>2. "a" \in P
    BY LetterA
  <2>3. 2 \in 1 .. Len(s) + 1 /\ n \in 2 .. Len(s) + 1
    BY <1>1
  <2> HIDE DEF P
  <2>4. IsAfter(s, 2, P, n)
    BY <1>2, <2>1, <2>2, <2>3 DEF IsAfter
  <2> QED BY <2>4, AfterUnique
<1>4. At(s, 2) \notin Digits
  <2>1. "$" \notin Digits /\ "a" \notin Digits
    BY Unmarked, LettersAssumption, CharactersAssumption
  <2>2. n = 2 \/ 2 \in 2 .. n - 1
    BY <1>1
  <2> QED BY <1>2, <2>1, <2>2
<1>5. 1 + 1 = 2 /\ n - 1 + 1 = n
  BY <1>1
<1>6. dollarDelimiter(s, 1) = n
  BY <1>2, <1>3, <1>4, <1>5 DEF dollarDelimiter
<1> QED BY <1>6 DEF n

(* A text between two tags that does not hold one, nor completes one. *)
LEMMA DollarOpaque ==
  ASSUME NEW s, NEW f, NEW g, NEW tag, IsTag(tag), Enclosed(s, f, tag, g, tag),
         ~Has(g \o Front(tag), tag)
  PROVE  scan(s, "postgres") = ParameterAfter(Len(f))
<1> DEFINE n == Len(tag)
           m == Len(g)
           c == (n + m) + 1
           front == Front(tag)
           h == g \o front
<1>1. /\ g \in Texts /\ m \in Nat /\ n \in Nat /\ Followed(s, f) /\ Len(f) = n + m + n
      /\ s \in Texts /\ Len(s) = Len(f) + 2
      /\ \A j \in 1 .. n : At(s, j) = At(tag, j)
      /\ \A j \in 1 .. m : At(s, n + j) = At(g, j)
      /\ \A j \in 1 .. n : At(s, (n + m) + j) = At(tag, j)
  BY DEF Enclosed
<1>2. tag \in Texts /\ n >= 2 /\ At(tag, 1) = "$"
  BY DEF IsTag
<1>3. /\ front \in Texts /\ Len(front) = n - 1
      /\ \A j \in 1 .. n - 1 : At(front, j) = At(tag, j)
  <2>1. 1 \in 1 .. Len(tag) + 1 /\ n - 1 \in 0 .. Len(tag) /\ 1 <= (n - 1) + 1
        /\ (n - 1) - 1 + 1 = n - 1
    BY <1>1, <1>2
  <2> DEFINE b == n - 1
  <2> HIDE DEF b
  <2>2. 1 \in 1 .. Len(tag) + 1 /\ b \in 0 .. Len(tag) /\ 1 <= b + 1 /\ b - 1 + 1 = b
    BY <2>1 DEF b
  <2>3. /\ SubSeq(tag, 1, b) \in Texts /\ Len(SubSeq(tag, 1, b)) = b - 1 + 1
        /\ \A j \in Int : At(SubSeq(tag, 1, b), j) =
                            IF j \in 1 .. b - 1 + 1 THEN At(tag, 1 + j - 1) ELSE "END"
    BY <1>2, <2>2, PartText
  <2>4. front = SubSeq(tag, 1, b)
    BY DEF Front, b
  <2>5. \A j \in 1 .. b : At(SubSeq(tag, 1, b), j) = At(tag, j)
    <3> TAKE j \in 1 .. b
    <3>1. j \in Int /\ j \in 1 .. b - 1 + 1 /\ 1 + j - 1 = j
      BY <2>2
    <3> QED BY <2>3, <3>1
  <2>6. front \in Texts /\ Len(front) = b /\ \A j \in 1 .. b : At(front, j) = At(tag, j)
    <3> HIDE DEF front
    <3> QED BY <2>2, <2>3, <2>4, <2>5
  <2> HIDE DEF front
  <2> QED BY <2>6 DEF b
<1>a. ~Has(h, tag)
  OBVIOUS
<1> HIDE DEF front
<1>4. /\ h \in Texts /\ Len(h) = m + (n - 1)
      /\ \A j \in Int : At(h, j) = IF j <= m THEN At(g, j) ELSE At(front, j - m)
  BY <1>1, <1>3, JoinText
<1> HIDE DEF h, n, m
<1>5. \A p \in 1 .. Len(h) : At(h, p) = At(s, n + p)
  <2> TAKE p \in 1 .. Len(h)
  <2>0. p \in Int
    BY <1>1, <1>4
  <2>1. CASE p <= m
    <3>1. p \in 1 .. m
      BY <1>1, <1>4, <2>1
    <3> QED BY <1>1, <1>4, <2>0, <2>1, <3>1
  <2>2. CASE ~(p <= m)
    <3> DEFINE j == p - m
    <3>1. j \in 1 .. n - 1 /\ j \in 1 .. n /\ (n + m) + j = n + p
      BY <1>1, <1>2, <1>4, <2>2
    <3>2. At(h, p) = At(front, j)
      BY <1>4, <2>0, <2>2
    <3> HIDE DEF j
    <3>3. At(front, j) = At(tag, j) /\ At(s, (n + m) + j) = At(tag, j)
      BY <1>1, <1>3, <3>1
    <3> QED BY <3>1, <3>2, <3>3
  <2> QED BY <2>1, <2>2
<1>6. dollarDelimiter(s, 1) = n
  <2>1. Len(tag) <= Len(s) /\ \A j \in 1 .. Len(tag) : At(s, j) = At(tag, j)
    BY <1>1, <1>2 DEF n
  <2> QED BY <1>1, <2>1, TagDelimits DEF n
<1>7. c \in Closers(s, 1, n)
  <2>1. c \in 1 + n .. Len(s) - n + 1
    BY <1>1, <1>2
  <2>2. ASSUME NEW x \in 0 .. n - 1 PROVE At(s, c + x) = At(s, 1 + x)
    <3> DEFINE j == x + 1
    <3>1. j \in 1 .. n /\ c + x = (n + m) + j /\ 1 + x = j
      BY <1>1
    <3> HIDE DEF j, c
    <3>2. At(s, (n + m) + j) = At(tag, j) /\ At(s, j) = At(tag, j)
      BY <1>1, <3>1
    <3> QED BY <3>1, <3>2
  <2> HIDE DEF c
  <2> QED BY <2>1, <2>2 DEF Closers
<1>8. \A j \in Closers(s, 1, n) : c <= j
  <2> SUFFICES ASSUME NEW j \in Closers(s, 1, n), j < c PROVE FALSE
    <3>1. \A j \in Closers(s, 1, n) : j \in 1 + n .. Len(s) - n + 1
      BY DEF Closers
    <3>2. \A j \in Closers(s, 1, n) : j \in Int
      BY <1>1, <3>1
    <3>3. c \in Int
      BY <1>1
    <3> HIDE DEF c
    <3> QED BY <3>2, <3>3
  <2>1. j \in 1 + n .. Len(s) - n + 1 /\ \A x \in 0 .. n - 1 : At(s, j + x) = At(s, 1 + x)
    BY DEF Closers
  <2> DEFINE k == j - n
  <2>2. k \in 1 .. Len(h) - n + 1 /\ j = n + k /\ k \in Int
    BY <1>1, <1>4, <2>1
  <2> HIDE DEF k, c
  <2>3. \A x \in 1 .. n : At(h, k + x - 1) = At(tag, x)
    <3> TAKE x \in 1 .. n
    <3> DEFINE p == k + x - 1
               y == x - 1
    <3>1. p \in 1 .. Len(h) /\ n + p = j + y /\ y \in 0 .. n - 1 /\ 1 + y = x
      BY <1>1, <1>2, <1>4, <2>2
    <3> HIDE DEF p, y
    <3>2. At(h, p) = At(s, n + p) /\ At(s, j + y) = At(s, 1 + y) /\ At(s, x) = At(tag, x)
      BY <1>1, <1>5, <2>1, <3>1
    <3>3. At(h, p) = At(tag, x)
      BY <3>1, <3>2
    <3> QED BY <3>3 DEF p
  <2>4. Has(h, tag)
    BY <1>2, <1>4, <2>2, <2>3, HasAt DEF n
  <2> QED BY <1>a, <2>4
<1>9. Min(Closers(s, 1, n)) = c
  <2>1. Closers(s, 1, n) \in SUBSET Nat
    <3>1. \A j \in Closers(s, 1, n) : j \in 1 + n .. Len(s) - n + 1
      BY DEF Closers
    <3>2. \A j \in Closers(s, 1, n) : j \in Nat
      BY <1>1, <3>1
    <3> QED BY <3>2
  <2> HIDE DEF c
  <2> QED BY <1>7, <1>8, <2>1, LeastIsMin
<1>10. Len(f) >= 1 /\ Len(f) + 1 = c + n
  BY <1>1, <1>2
<1>11. Lexeme(s, 1, "postgres") = Skip(c + n)
  <2>1. At(s, 1) = "$"
    <3>1. 1 \in 1 .. n
      BY <1>1, <1>2
    <3> QED BY <1>1, <1>2, <3>1
  <2>2. At(s, 0) = "END"
    <3>1. 0 \in Int /\ 0 \notin 1 .. Len(s)
      OBVIOUS
    <3> QED BY <1>1, <3>1, AtText
  <2>3. ~identifierPart(At(s, 0)) /\ 1 - 1 = 0
    BY <2>2, Unmarked DEF identifierPart, Marks
  <2>4. IsDollar(s, 1, "postgres")
    BY <2>1, <2>3 DEF IsDollar
  <2>5. Lexeme(s, 1, "postgres") = Dollar(s, 1)
    BY <2>4, LexemeCases
  <2>6. n # 0 /\ Closers(s, 1, n) # {}
    BY <1>1, <1>2, <1>7
  <2> HIDE DEF c
  <2>7. Dollar(s, 1) = Skip(c + n)
    BY <1>6, <1>9, <2>6 DEF Dollar
  <2> QED BY <2>5, <2>7
<1> HIDE DEF c
<1>12. "postgres" \in Dialects
  BY DEF Dialects
<1> QED BY <1>1, <1>10, <1>11, <1>12, OneTurn

(* A code that writes every character of a text as one or two, and how long
   the text up to a character becomes. *)
IsCode(text, code) ==
  \A k \in 1 .. Len(text) : code[text[k]] \in Texts /\ Len(code[text[k]]) \in {1, 2}
Width(text, code, k) == Len(SpelledTo(text, code)[k])

(* The recursion of SpelledTo. *)
LEMMA SpelledRecursion ==
  ASSUME NEW text \in Texts, NEW code, IsCode(text, code)
  PROVE  LET f == SpelledTo(text, code)
         IN /\ \A m \in 0 .. Len(text) : f[m] \in Texts
            /\ f[0] = <<>>
            /\ \A k \in 1 .. Len(text) : f[k] = f[k - 1] \o code[text[k]]
<1> DEFINE n == Len(text)
           D == 0 .. n
           X == Texts
           w(k) == code[text[k]]
           step == [k \in 1 .. n |-> [g \in X |-> g \o w(k)]]
           F == CHOOSE f : f = [k \in D |-> IF k = 0 THEN <<>> ELSE f[k - 1] \o w(k)]
<1>1. n \in Nat
  BY AtText
<1>2. \A k \in 1 .. n : w(k) \in Texts
  BY DEF IsCode
<1>11. SpelledTo(text, code) = F
  BY DEF SpelledTo
<1> HIDE DEF w
<1>3. \A k \in 1 .. n : \A g \in X : g \o w(k) \in X
  BY <1>2, JoinText
<1>4. step \in [1 .. n -> [X -> X]]
  <2> HIDE DEF n, X
  <2> QED BY <1>3
<1>5. <<>> \in X
  BY ShortText
<1>6. PICK h : Iterates(h, X, <<>>, n, step)
  <2> HIDE DEF step, X, n
  <2> QED BY <1>1, <1>4, <1>5, Iteration
<1>7. /\ h \in [D -> X] /\ h[0] = <<>>
      /\ \A k \in 1 .. n : h[k] = step[k][h[k - 1]]
  <2> HIDE DEF step, X
  <2> QED BY <1>6 DEF Iterates
<1>8. \A k \in 1 .. n : h[k] = h[k - 1] \o w(k)
  <2> TAKE k \in 1 .. n
  <2>1. k - 1 \in D
    BY <1>1
  <2> HIDE DEF X, n
  <2>2. h[k - 1] \in X
    BY <1>7, <2>1
  <2>3. step[k] = [g \in X |-> g \o w(k)]
    OBVIOUS
  <2>4. step[k][h[k - 1]] = h[k - 1] \o w(k)
    BY <2>2, <2>3
  <2> QED BY <1>7, <2>4
<1>9. h = [k \in D |-> IF k = 0 THEN <<>> ELSE h[k - 1] \o w(k)]
  <2>1. \A k \in D : h[k] = IF k = 0 THEN <<>> ELSE h[k - 1] \o w(k)
    <3> TAKE k \in D
    <3>1. k = 0 \/ k \in 1 .. n
      BY <1>1
    <3> HIDE DEF D, n
    <3> QED BY <1>7, <1>8, <3>1
  <2> DEFINE body(k) == IF k = 0 THEN <<>> ELSE h[k - 1] \o w(k)
  <2>2. \A k \in D : h[k] = body(k)
    BY <2>1
  <2> HIDE DEF D, body
  <2>3. h = [k \in D |-> body(k)]
    BY <1>7, <2>2
  <2> QED BY <2>3 DEF body
<1>10. F = [k \in D |-> IF k = 0 THEN <<>> ELSE F[k - 1] \o w(k)]
  <2> HIDE DEF D
  <2> QED BY <1>9, ZenonT(30)
<1> HIDE DEF F
<1>12. F[0] = <<>> /\ \A k \in 1 .. n : F[k] = F[k - 1] \o w(k)
  <2>1. 0 \in D /\ \A k \in 1 .. n : k \in D /\ k # 0
    BY <1>1
  <2> DEFINE body(k) == IF k = 0 THEN <<>> ELSE F[k - 1] \o w(k)
  <2>2. F = [k \in D |-> body(k)]
    BY <1>10
  <2> HIDE DEF D, body
  <2>3. F[0] = body(0) /\ \A k \in 1 .. n : F[k] = body(k)
    BY <2>1, <2>2
  <2>4. \A k \in 1 .. n : body(k) = F[k - 1] \o w(k)
    BY <2>1 DEF body
  <2>5. body(0) = <<>>
    BY DEF body
  <2> HIDE DEF n
  <2> QED BY <2>3, <2>4, <2>5
<1>13. \A m \in D : F[m] \in Texts
  <2> DEFINE S == {m \in D : F[m] \in Texts}
  <2>1. 0 \in S
    BY <1>1, <1>5, <1>12
  <2>2. \A k \in 1 .. n : k - 1 \in S => k \in S
    <3> TAKE k \in 1 .. n
    <3> HAVE k - 1 \in S
    <3>1. F[k - 1] \in X
      OBVIOUS
    <3>2. k \in D
      BY <1>1
    <3> HIDE DEF D, n
    <3>3. F[k] \in X
      BY <1>3, <1>12, <3>1
    <3> QED BY <3>2, <3>3
  <2> HIDE DEF S, n
  <2>3. 0 .. n \subseteq S
    BY <1>1, <2>1, <2>2, BoundedInduction
  <2> QED BY <2>3 DEF S
<1> QED BY <1>11, <1>12, <1>13 DEF w

(* Where what is written for each character stands. *)
LEMMA SpelledLayout ==
  ASSUME NEW text \in Texts, NEW code, IsCode(text, code)
  PROVE  /\ Spelled(text, code) \in Texts
         /\ Len(Spelled(text, code)) = Width(text, code, Len(text))
         /\ Width(text, code, 0) = 0
         /\ \A k \in 0 .. Len(text) : Width(text, code, k) \in Nat
         /\ \A k \in 1 .. Len(text) :
              /\ Width(text, code, k) <= Len(Spelled(text, code))
              /\ Width(text, code, k) = Width(text, code, k - 1) + Len(code[text[k]])
              /\ \A j \in 1 .. Len(code[text[k]]) :
                   At(Spelled(text, code), Width(text, code, k - 1) + j) = At(code[text[k]], j)
<1> DEFINE n == Len(text)
           f == SpelledTo(text, code)
           W(k) == code[text[k]]
           P(k) == Len(f[k])
           Placed(m, k) == /\ P(k) <= P(m)
                           /\ \A j \in 1 .. Len(W(k)) : At(f[m], P(k - 1) + j) = At(W(k), j)
           S == {m \in 0 .. n : \A k \in 1 .. m : Placed(m, k)}
<1>1. /\ n \in Nat /\ \A m \in 0 .. n : f[m] \in Texts
      /\ f[0] = <<>> /\ \A k \in 1 .. n : f[k] = f[k - 1] \o W(k)
  BY AtText, SpelledRecursion
<1>2. \A k \in 1 .. n : W(k) \in Texts /\ Len(W(k)) \in 1 .. 2
  BY DEF IsCode
<1>3. \A m \in 0 .. n : P(m) \in Nat
  <2> TAKE m \in 0 .. n
  <2>1. f[m] \in Texts
    BY <1>1
  <2> HIDE DEF f
  <2> QED BY <2>1, AtText
<1>a. P(0) = 0
  BY <1>1, ShortText
<1> HIDE DEF f, W
<1>4. \A k \in 1 .. n :
        /\ k - 1 \in 0 .. n /\ k \in 0 .. n /\ P(k - 1) \in Nat /\ P(k) = P(k - 1) + Len(W(k))
        /\ \A j \in Int : At(f[k], j) = IF j <= P(k - 1) THEN At(f[k - 1], j)
                                        ELSE At(W(k), j - P(k - 1))
  <2> TAKE k \in 1 .. n
  <2>1. k - 1 \in 0 .. n /\ k \in 0 .. n
    BY <1>1
  <2> DEFINE g == f[k - 1]
             v == W(k)
  <2>2. g \in Texts /\ v \in Texts /\ f[k] = g \o v /\ Len(g) = P(k - 1)
    BY <1>1, <1>2, <2>1
  <2> HIDE DEF g, v
  <2>3. /\ Len(g \o v) = Len(g) + Len(v)
        /\ \A j \in Int : At(g \o v, j) = IF j <= Len(g) THEN At(g, j) ELSE At(v, j - Len(g))
    BY <2>2, JoinText
  <2>4. /\ P(k) = P(k - 1) + Len(v)
        /\ \A j \in Int : At(f[k], j) = IF j <= P(k - 1) THEN At(g, j) ELSE At(v, j - P(k - 1))
    <3>1. P(k) = Len(g \o v)
      BY <2>2
    <3> HIDE DEF P
    <3> QED BY <2>2, <2>3, <3>1
  <2>5. P(k - 1) \in Nat
    BY <1>3, <2>1
  <2> HIDE DEF P
  <2> QED BY <2>1, <2>4, <2>5 DEF g, v
<1> HIDE DEF n, P
<1>5. \A k \in 1 .. n : P(k - 1) <= P(k)
  BY <1>2, <1>4
<1>6. 0 \in S
  BY <1>1
<1>7. \A m \in 1 .. n : m - 1 \in S => m \in S
  <2> TAKE m \in 1 .. n
  <2> HAVE m - 1 \in S
  <2>0. \A k \in 1 .. m - 1 : Placed(m - 1, k)
    OBVIOUS
  <2>1. \A k \in 1 .. m : Placed(m, k)
    <3> TAKE k \in 1 .. m
    <3>1. CASE k = m
      <4>1. m \in 0 .. n /\ P(m) \in Nat /\ P(m - 1) \in Nat /\ Len(W(m)) \in 1 .. 2
        BY <1>2, <1>3, <1>4
      <4>2. ASSUME NEW j \in 1 .. Len(W(m)) PROVE At(f[m], P(m - 1) + j) = At(W(m), j)
        <5> DEFINE x == P(m - 1) + j
        <5>1. x \in Int /\ ~(x <= P(m - 1)) /\ x - P(m - 1) = j
          BY <4>1
        <5> HIDE DEF x
        <5>2. At(f[m], x) = At(W(m), x - P(m - 1))
          BY <1>4, <5>1
        <5> QED BY <5>1, <5>2 DEF x
      <4>3. P(m) <= P(m)
        BY <4>1
      <4> QED BY <3>1, <4>2, <4>3
    <3>2. CASE k # m
      <4>1. k \in 1 .. m - 1 /\ k \in 1 .. n /\ k \in 0 .. n
        BY <1>1, <3>2
      <4>2. Placed(m - 1, k)
        BY <2>0, <4>1
      <4>3. /\ P(k) <= P(m - 1) /\ P(m - 1) <= P(m) /\ P(k - 1) \in Nat
            /\ P(k) \in Nat /\ P(m) \in Nat /\ P(m - 1) \in Nat
        BY <1>3, <1>4, <1>5, <4>1, <4>2
      <4>4. ASSUME NEW j \in 1 .. Len(W(k)) PROVE At(f[m], P(k - 1) + j) = At(W(k), j)
        <5> DEFINE x == P(k - 1) + j
        <5>1. x \in Int /\ x <= P(m - 1)
          <6>1. Len(W(k)) \in 1 .. 2 /\ P(k) = P(k - 1) + Len(W(k))
            BY <1>2, <1>4, <4>1
          <6> QED BY <4>3, <6>1
        <5>2. At(f[m - 1], x) = At(W(k), j)
          BY <4>2
        <5> HIDE DEF x
        <5>3. At(f[m], x) = At(f[m - 1], x)
          BY <1>4, <5>1
        <5> QED BY <5>2, <5>3 DEF x
      <4>5. P(k) <= P(m)
        BY <4>3
      <4> QED BY <4>4, <4>5
    <3> QED BY <3>1, <3>2
  <2>2. m \in 0 .. n
    BY <1>4
  <2> HIDE DEF Placed
  <2> QED BY <2>1, <2>2
<1>8. n \in S
  <2>1. 0 .. n \subseteq S
    <3> HIDE DEF S
    <3> QED BY <1>1, <1>6, <1>7, BoundedInduction
  <2>2. n \in 0 .. n
    BY <1>1
  <2> QED BY <2>1, <2>2
<1>9. \A k \in 1 .. n : Placed(n, k)
  BY <1>8
<1>10. Spelled(text, code) = f[n] /\ f[n] \in Texts /\ Len(f[n]) = P(n)
  <2>1. n \in 0 .. n
    BY <1>1
  <2>2. f[n] \in Texts
    BY <1>1, <2>1
  <2>3. Spelled(text, code) = f[n]
    BY DEF Spelled, f, n
  <2> QED BY <2>2, <2>3 DEF P
<1>11. \A k : Width(text, code, k) = P(k)
  BY DEF Width, P, f
<1> HIDE DEF Placed
<1>12. \A k \in 1 .. n :
         /\ Width(text, code, k) <= Len(Spelled(text, code))
         /\ Width(text, code, k) = Width(text, code, k - 1) + Len(code[text[k]])
         /\ \A j \in 1 .. Len(code[text[k]]) :
              At(Spelled(text, code), Width(text, code, k - 1) + j) = At(code[text[k]], j)
  BY <1>4, <1>9, <1>10, <1>11 DEF Placed, W
<1> QED BY <1>3, <1>10, <1>11, <1>12, <1>a DEF n

(* Where each character of the text stands in what is written for it in
   quotes. *)
DoubledWidth(text, Special, k) == Width(text, Twice(text, Special), k)

(* A special character stands there twice, any other once. *)
LEMMA DoubledLayout ==
  ASSUME NEW text \in Texts, NEW Special
  PROVE  /\ Doubled(text, Special) \in Texts
         /\ Len(Doubled(text, Special)) = DoubledWidth(text, Special, Len(text))
         /\ DoubledWidth(text, Special, 0) = 0
         /\ \A k \in 0 .. Len(text) : DoubledWidth(text, Special, k) \in Nat
         /\ \A k \in 1 .. Len(text) :
              /\ DoubledWidth(text, Special, k) <= Len(Doubled(text, Special))
              /\ At(Doubled(text, Special), DoubledWidth(text, Special, k - 1) + 1) = At(text, k)
              /\ At(text, k) \in Special =>
                   /\ DoubledWidth(text, Special, k) = DoubledWidth(text, Special, k - 1) + 2
                   /\ At(Doubled(text, Special), DoubledWidth(text, Special, k - 1) + 2) = At(text, k)
              /\ At(text, k) \notin Special =>
                   DoubledWidth(text, Special, k) = DoubledWidth(text, Special, k - 1) + 1
<1> DEFINE code == Twice(text, Special)
           P(k) == Width(text, code, k)
           W(k) == code[text[k]]
<1>1. \A k \in 1 .. Len(text) : At(text, k) = text[k] /\ text[k] \in Bytes
  BY AtText
<1>2. ASSUME NEW k \in 1 .. Len(text)
      PROVE  /\ W(k) \in Texts /\ Len(W(k)) \in {1, 2} /\ At(W(k), 1) = At(text, k)
             /\ At(text, k) \in Special => Len(W(k)) = 2 /\ At(W(k), 2) = At(text, k)
             /\ At(text, k) \notin Special => Len(W(k)) = 1
  <2> DEFINE c == text[k]
  <2>1. c \in ToSet(text)
    BY DEF ToSet
  <2>2. W(k) = IF c \in Special THEN <<c, c>> ELSE <<c>>
    BY <2>1 DEF Twice
  <2>3. c \in Bytes /\ At(text, k) = c
    BY <1>1
  <2> HIDE DEF c
  <2>4. /\ <<c>> \in Texts /\ Len(<<c>>) = 1 /\ At(<<c>>, 1) = c
        /\ <<c, c>> \in Texts /\ Len(<<c, c>>) = 2 /\ At(<<c, c>>, 1) = c /\ At(<<c, c>>, 2) = c
    BY <2>3, ShortText
  <2>5. CASE c \in Special
    <3> DEFINE v == <<c, c>>
    <3>1. W(k) = v /\ v \in Texts /\ Len(v) = 2 /\ At(v, 1) = c /\ At(v, 2) = c
      BY <2>2, <2>4, <2>5
    <3> HIDE DEF v
    <3> QED BY <2>3, <2>5, <3>1
  <2>6. CASE c \notin Special
    <3> DEFINE v == <<c>>
    <3>1. W(k) = v /\ v \in Texts /\ Len(v) = 1 /\ At(v, 1) = c
      BY <2>2, <2>4, <2>6
    <3> HIDE DEF v
    <3> QED BY <2>3, <2>6, <3>1
  <2> QED BY <2>5, <2>6
<1>3. IsCode(text, code)
  BY <1>2 DEF IsCode
<1>4. Doubled(text, Special) = Spelled(text, code) /\ \A k : DoubledWidth(text, Special, k) = P(k)
  BY DEF Doubled, DoubledWidth
<1> DEFINE g == Spelled(text, code)
<1> HIDE DEF code
<1>5. /\ g \in Texts /\ Len(g) = P(Len(text)) /\ P(0) = 0
      /\ \A k \in 0 .. Len(text) : P(k) \in Nat
      /\ \A k \in 1 .. Len(text) :
           /\ P(k) <= Len(g) /\ P(k) = P(k - 1) + Len(W(k))
           /\ \A j \in 1 .. Len(W(k)) : At(g, P(k - 1) + j) = At(W(k), j)
  BY <1>3, SpelledLayout
<1> HIDE DEF P, W, g
<1>6. \A k \in 1 .. Len(text) :
        /\ P(k) <= Len(g) /\ At(g, P(k - 1) + 1) = At(text, k)
        /\ At(text, k) \in Special =>
             P(k) = P(k - 1) + 2 /\ At(g, P(k - 1) + 2) = At(text, k)
        /\ At(text, k) \notin Special => P(k) = P(k - 1) + 1
  <2> TAKE k \in 1 .. Len(text)
  <2>1. CASE At(text, k) \in Special
    <3>1. Len(W(k)) = 2 /\ 1 \in 1 .. 2 /\ 2 \in 1 .. 2
      BY <1>2, <2>1
    <3> QED BY <1>2, <1>5, <2>1, <3>1
  <2>2. CASE At(text, k) \notin Special
    <3>1. Len(W(k)) = 1 /\ 1 \in 1 .. 1
      BY <1>2, <2>2
    <3> QED BY <1>2, <1>5, <2>2, <3>1
  <2> QED BY <2>1, <2>2
<1> QED BY <1>4, <1>5, <1>6 DEF g

(* Text f is a prefix, the doubled form of a text, and a closing character:
   what may be skipped as quoted text from the end of the prefix on. *)
QuotedFacts(s, f, u, text, Special, c, backslash, doubles) ==
  /\ text \in Texts /\ Enclosed(s, f, u, Doubled(text, Special), <<c>>)
  /\ c \in {"'", "QUOTE", "BACKQUOTE", "]"}
  /\ backslash \in BOOLEAN /\ doubles \in BOOLEAN
  /\ Special = IF backslash THEN {c, "\\"} ELSE {c}
  /\ ~doubles => \A k \in 1 .. Len(text) : At(text, k) # c

(* Such a text is skipped to its end. *)
LEMMA QuotedSkips ==
  ASSUME NEW s, NEW f, NEW u, NEW text, NEW Special, NEW c, NEW backslash, NEW doubles,
         QuotedFacts(s, f, u, text, Special, c, backslash, doubles)
  PROVE  QuotedFrom(s, c, backslash, doubles)[Len(u) + 1] = Len(f) + 1
<1> DEFINE e == QuotedFrom(s, c, backslash, doubles)
           i == Len(u)
           n == Len(text)
           q == Len(f)
           g == Doubled(text, Special)
           w == <<c>>
           P(k) == DoubledWidth(text, Special, k)
<1>0. /\ text \in Texts /\ Enclosed(s, f, u, g, w)
      /\ c \in {"'", "QUOTE", "BACKQUOTE", "]"}
      /\ backslash \in BOOLEAN /\ doubles \in BOOLEAN
      /\ Special = IF backslash THEN {c, "\\"} ELSE {c}
      /\ ~doubles => \A k \in 1 .. Len(text) : At(text, k) # c
  BY DEF QuotedFacts
<1>1. c \in Bytes /\ c # "\\" /\ c # ":" /\ c # "END"
  BY <1>0, ShortText DEF Marks
<1>2. Len(w) = 1 /\ At(w, 1) = c
  BY <1>1, ShortText
<1> HIDE DEF w
<1>3. /\ g \in Texts /\ Len(g) = P(n) /\ P(0) = 0 /\ n \in Nat
      /\ \A k \in 0 .. n : P(k) \in Nat
      /\ \A k \in 1 .. n :
           /\ P(k) <= Len(g) /\ At(g, P(k - 1) + 1) = At(text, k)
           /\ At(text, k) \in Special => /\ P(k) = P(k - 1) + 2
                                         /\ At(g, P(k - 1) + 2) = At(text, k)
           /\ At(text, k) \notin Special => P(k) = P(k - 1) + 1
  <2>1. n \in Nat
    BY <1>0, AtText
  <2>2. text \in Texts
    BY <1>0
  <2> QED BY <2>1, <2>2, DoubledLayout
<1> HIDE DEF P, g
<1>4. /\ s \in Texts /\ i \in Nat /\ Len(g) \in Nat /\ q \in Nat /\ q = (i + Len(g)) + 1
      /\ Len(s) = q + 2 /\ \A j \in 1 .. Len(g) : At(s, i + j) = At(g, j)
      /\ At(s, q) = c /\ At(s, q + 1) = ":"
  <2>1. /\ s \in Texts /\ i \in Nat /\ Len(g) \in Nat /\ q \in Nat /\ q = i + Len(g) + Len(w)
        /\ Len(s) = q + 2 /\ \A j \in 1 .. Len(g) : At(s, i + j) = At(g, j)
        /\ \A j \in 1 .. Len(w) : At(s, (i + Len(g)) + j) = At(w, j)
        /\ At(s, q + 1) = ":"
    BY <1>0 DEF Enclosed
  <2> HIDE DEF i, q
  <2>2. 1 \in 1 .. Len(w) /\ q = (i + Len(g)) + 1
    BY <1>2, <2>1
  <2> QED BY <1>2, <2>1, <2>2
<1>5. QuotedEquation(e, s, c, backslash, doubles)
  BY <1>0, <1>1, <1>4, QuotedRecursion
<1> HIDE DEF e, i, q
<1>6. \A j \in 1 .. Len(s) :
        e[j] = IF backslash /\ At(s, j) = "\\" /\ j < Len(s) THEN e[j + 2]
               ELSE IF At(s, j) # c THEN e[j + 1]
               ELSE IF doubles /\ At(s, j + 1) = c THEN e[j + 2]
               ELSE j + 1
  BY <1>5 DEF QuotedEquation
<1>7. e[q] = q + 1
  <2>1. q \in 1 .. Len(s)
    BY <1>4
  <2> QED BY <1>1, <1>4, <1>6, <2>1
<1>8. ASSUME NEW k \in 1 .. n PROVE e[(i + P(k - 1)) + 1] = e[(i + P(k)) + 1]
  <2> DEFINE j == (i + P(k - 1)) + 1
             y == At(text, k)
             p == P(k - 1)
  <2>1. /\ p \in Nat /\ P(k) \in Nat /\ P(k) <= Len(g) /\ At(g, p + 1) = y
        /\ y \in Special => P(k) = p + 2 /\ At(g, p + 2) = y
        /\ y \notin Special => P(k) = p + 1
    <3>1. k - 1 \in 0 .. n /\ k \in 0 .. n
      BY <1>3
    <3> QED BY <1>3, <3>1
  <2>2. j = (i + p) + 1
    OBVIOUS
  <2>a. ~doubles => y # c
    BY <1>0
  <2> HIDE DEF j, y, p
  <2>3. /\ p + 1 \in 1 .. Len(g) /\ i + (p + 1) = j /\ j \in 1 .. Len(s) /\ j < Len(s)
    <3>1. P(k) = p + 2 \/ P(k) = p + 1
      BY <2>1
    <3> QED BY <1>4, <2>1, <2>2, <3>1, SMTT(30)
  <2>4. At(s, j) = y
    BY <1>4, <2>1, <2>3
  <2>5. CASE y \in Special
    <3>1. P(k) = p + 2 /\ At(g, p + 2) = y
      BY <2>1, <2>5
    <3>2. p + 2 \in 1 .. Len(g) /\ i + (p + 2) = j + 1 /\ (i + P(k)) + 1 = j + 2
      BY <1>4, <2>1, <2>2, <3>1
    <3>3. At(s, j + 1) = y
      BY <1>4, <3>1, <3>2
    <3>4. e[j] = e[j + 2]
      <4>1. CASE backslash /\ y = "\\"
        BY <1>6, <2>3, <2>4, <4>1
      <4>2. CASE ~(backslash /\ y = "\\")
        <5>1. y = c
          BY <1>0, <2>5, <4>2
        <5>2. doubles = TRUE
          BY <1>0, <2>a, <5>1
        <5> QED BY <1>6, <2>3, <2>4, <3>3, <4>2, <5>1, <5>2
      <4> QED BY <4>1, <4>2
    <3> QED BY <3>2, <3>4 DEF j, p
  <2>6. CASE y \notin Special
    <3>1. P(k) = p + 1
      BY <2>1, <2>6
    <3>2. (i + P(k)) + 1 = j + 1
      BY <1>4, <2>1, <2>2, <3>1
    <3>3. y # c /\ ~(backslash /\ y = "\\")
      BY <1>0, <2>6
    <3>4. e[j] = e[j + 1]
      BY <1>6, <2>3, <2>4, <3>3
    <3> QED BY <3>2, <3>4 DEF j, p
  <2> QED BY <2>5, <2>6
<1> DEFINE S == {k \in 0 .. n : e[i + 1] = e[(i + P(k)) + 1]}
<1>9. 0 \in S
  <2>1. 0 \in 0 .. n /\ (i + P(0)) + 1 = i + 1
    BY <1>3, <1>4
  <2> QED BY <2>1
<1>10. \A k \in 1 .. n : k - 1 \in S => k \in S
  <2> TAKE k \in 1 .. n
  <2> HAVE k - 1 \in S
  <2>1. k \in 0 .. n
    BY <1>3
  <2>2. e[i + 1] = e[(i + P(k - 1)) + 1]
    OBVIOUS
  <2>3. e[i + 1] = e[(i + P(k)) + 1]
    BY <1>8, <2>2
  <2> QED BY <2>1, <2>3
<1>11. n \in S
  <2>1. n \in 0 .. n
    BY <1>3
  <2> HIDE DEF S, n
  <2>2. 0 .. n \subseteq S
    BY <1>3, <1>9, <1>10, BoundedInduction
  <2> QED BY <2>1, <2>2
<1>12. e[i + 1] = q + 1
  <2>1. e[i + 1] = e[(i + P(n)) + 1]
    BY <1>11
  <2>2. (i + P(n)) + 1 = q
    BY <1>3, <1>4
  <2> QED BY <1>7, <2>1, <2>2
<1> QED BY <1>12 DEF e, i, q

(* Nothing stands before a text, and no name. *)
LEMMA NothingBefore ==
  ASSUME NEW s \in Texts
  PROVE  At(s, 0) = "END" /\ ~identifierPart(At(s, 0)) /\ At(s, 0) \notin {"E", "e"}
<1>1. At(s, 0) = "END"
  <2>1. 0 \in Int /\ 0 \notin 1 .. Len(s)
    OBVIOUS
  <2> QED BY <2>1, AtText
<1>2. "END" \notin IdentifierParts
  BY Unmarked DEF Marks
<1>3. "END" \notin {"E", "e"}
  OBVIOUS
<1> QED BY <1>1, <1>2, <1>3 DEF identifierPart

(* What is doubled in text that q quotes, whether a backslash escapes in
   it, and whether it may hold the closing character. *)
SpecialOf(q, d)   == IF d = "mysql" /\ q # "BACKQUOTE" THEN {q, "\\"} ELSE {Closing(q)}
Backslashes(q, d) == d = "mysql" /\ q # "BACKQUOTE"

(* They follow from how the quote is closed, doubled and escaped. *)
LEMMA QuoteForms ==
  ASSUME NEW d \in Dialects, NEW q \in Quotes(d)
  PROVE  /\ q \in Bytes /\ Closing(q) \in Bytes
         /\ Closing(q) \in {"'", "QUOTE", "BACKQUOTE", "]"}
         /\ Backslashes(q, d) \in BOOLEAN /\ Doubles(q, d) \in BOOLEAN
         /\ Backslashes(q, d) <=> d = "mysql" /\ q \in {"'", "QUOTE"}
         /\ SpecialOf(q, d) = IF Backslashes(q, d) THEN {Closing(q), "\\"} ELSE {Closing(q)}
         /\ ~Doubles(q, d) => q = "[" /\ d = "sqlite" /\ Closing(q) = "]"
<1>1. q \in {"'", "QUOTE", "BACKQUOTE", "["} /\ (d = "mysql" => q # "[")
  BY DEF Quotes, Dialects
<1>2. {"'", "QUOTE", "BACKQUOTE", "[", "]"} \subseteq Bytes
  BY ShortText DEF Marks
<1>3. /\ Closing(q) \in {"'", "QUOTE", "BACKQUOTE", "]"}
      /\ q = "[" => Closing(q) = "]"
      /\ q # "[" => Closing(q) = q
  BY <1>1 DEF Closing
<1>4. Backslashes(q, d) \in BOOLEAN /\ Doubles(q, d) \in BOOLEAN
  BY DEF Backslashes, Doubles
<1>5. Backslashes(q, d) <=> d = "mysql" /\ q \in {"'", "QUOTE"}
  BY <1>1 DEF Backslashes
<1>6. SpecialOf(q, d) = IF Backslashes(q, d) THEN {Closing(q), "\\"} ELSE {Closing(q)}
  BY <1>1, <1>3 DEF Backslashes, SpecialOf
<1>7. ~Doubles(q, d) => q = "[" /\ d = "sqlite" /\ Closing(q) = "]"
  BY <1>3 DEF Doubles
<1> QED BY <1>1, <1>2, <1>3, <1>4, <1>5, <1>6, <1>7

(* Quoted text is taken as a whole. *)
LEMMA QuotedOpaque ==
  ASSUME NEW text \in Texts, NEW d \in Dialects, NEW q \in Quotes(d),
         q = "[" /\ d = "sqlite" => ~Has(text, <<"]">>)
  PROVE  LET f == <<q>> \o Doubled(text, SpecialOf(q, d)) \o <<Closing(q)>>
         IN scan(f \o <<":", "a">>, d) = ParameterAfter(Len(f))
<1> DEFINE c == Closing(q)
           Special == SpecialOf(q, d)
           b == Backslashes(q, d)
           o == Doubles(q, d)
           u == <<q>>
           w == <<c>>
           g == Doubled(text, Special)
           f == u \o g \o w
           s == f \o <<":", "a">>
<1>1. /\ q \in Bytes /\ c \in Bytes /\ c \in {"'", "QUOTE", "BACKQUOTE", "]"}
      /\ b \in BOOLEAN /\ o \in BOOLEAN
      /\ b <=> d = "mysql" /\ q \in {"'", "QUOTE"}
      /\ Special = IF b THEN {c, "\\"} ELSE {c}
      /\ ~o => q = "[" /\ d = "sqlite" /\ c = "]"
  BY QuoteForms
<1>2. o = Doubles(q, d) /\ c = Closing(q)
  OBVIOUS
<1> HIDE DEF c, b, o, Special
<1>3. g \in Texts
  BY DoubledLayout
<1>4. u \in Texts /\ Len(u) = 1 /\ At(u, 1) = q /\ w \in Texts
  BY <1>1, ShortText
<1> HIDE DEF u
<1>5. Enclosed(s, f, u, g, w)
  <2> HIDE DEF g, w
  <2> QED BY <1>3, <1>4, EnclosedText
<1> HIDE DEF s, f
<1>6. QuotedFacts(s, f, u, text, Special, c, b, o)
  <2>1. ~o => \A k \in 1 .. Len(text) : At(text, k) # c
    <3> SUFFICES ASSUME ~o PROVE \A k \in 1 .. Len(text) : At(text, k) # c
      OBVIOUS
    <3>1. c = "]" /\ ~Has(text, <<"]">>)
      BY <1>1
    <3>2. ~Has(text, <<c>>)
      BY <3>1
    <3> QED BY <1>1, <3>2, HasNowhere
  <2> QED BY <1>1, <1>5, <2>1 DEF QuotedFacts
<1>7. /\ s \in Texts /\ Len(s) = Len(f) + 2 /\ Len(f) \in Nat /\ Followed(s, f)
      /\ Len(f) = Len(u) + Len(g) + Len(w) /\ Len(g) \in Nat /\ Len(w) \in Nat
      /\ \A j \in 1 .. Len(u) : At(s, j) = At(u, j)
  <2> HIDE DEF g, w
  <2> QED BY <1>5 DEF Enclosed
<1>8. Len(f) >= 1 /\ At(s, 1) = q
  <2>1. 1 \in 1 .. Len(u)
    BY <1>4
  <2>2. At(s, 1) = q
    BY <1>4, <1>7, <2>1
  <2>3. Len(f) >= 1
    <3> DEFINE x == Len(g)
               y == Len(w)
               z == Len(f)
    <3>1. z = 1 + x + y /\ x \in Nat /\ y \in Nat
      BY <1>4, <1>7
    <3> HIDE DEF x, y, z
    <3>2. z >= 1
      BY <3>1
    <3> QED BY <3>2 DEF z
  <2> QED BY <2>2, <2>3
<1>9. BackslashEscapes(s, 1, d) = b
  <2>1. At(s, 1 - 1) \notin {"E", "e"}
    BY <1>7, NothingBefore
  <2>2. BackslashEscapes(s, 1, d) <=> b
    BY <1>1, <1>8, <2>1 DEF BackslashEscapes
  <2>3. BackslashEscapes(s, 1, d) \in BOOLEAN
    BY DEF BackslashEscapes
  <2> QED BY <1>1, <2>2, <2>3
<1>10. QuotedEnd(s, 1, d) = Len(f) + 1
  <2>1. QuotedFrom(s, c, b, o)[Len(u) + 1] = Len(f) + 1
    BY <1>6, QuotedSkips
  <2>2. Len(u) + 1 = 1 + 1
    BY <1>4
  <2>3. QuotedEnd(s, 1, d) = QuotedFrom(s, c, b, o)[1 + 1]
    BY <1>2, <1>8, <1>9 DEF QuotedEnd
  <2> QED BY <2>1, <2>2, <2>3
<1>11. Lexeme(s, 1, d) = Skip(Len(f) + 1)
  <2>1. IsQuote(s, 1, d)
    BY <1>8 DEF IsQuote
  <2>2. Lexeme(s, 1, d) = Quoted(s, 1, d)
    BY <2>1, LexemeCases
  <2>3. Len(f) + 1 # 0
    BY <1>7
  <2> QED BY <1>10, <2>2, <2>3 DEF Quoted
<1>12. scan(s, d) = ParameterAfter(Len(f))
  BY <1>7, <1>8, <1>11, OneTurn
<1> QED BY <1>12, Zenon DEF s, f, u, w, g, c, Special

(* So is PostgreSQL's text with escapes. *)
LEMMA EscapesOpaque ==
  ASSUME NEW text \in Texts
  PROVE  LET f == <<"E", "'">> \o Doubled(text, {"'", "\\"}) \o <<"'">>
         IN scan(f \o <<":", "a">>, "postgres") = ParameterAfter(Len(f))
<1> DEFINE c == "'"
           d == "postgres"
           b == TRUE
           Special == {c, "\\"}
           u == <<"E", c>>
           w == <<c>>
           g == Doubled(text, Special)
           f == u \o g \o w
           s == f \o <<":", "a">>
<1>0. d \in Dialects
  BY DEF Dialects
<1>1. "E" \in Bytes /\ "E" \in NameParts /\ c \in Bytes
  <2>1. "E" \in Letters
    BY LettersAssumption
  <2>2. "E" \in Bytes
    BY <2>1 DEF Bytes, Marks
  <2>3. c \in Bytes
    BY ShortText DEF Marks
  <2> QED BY <2>1, <2>2, <2>3 DEF NameParts, NameStarts
<1>2. /\ u \in Texts /\ Len(u) = 2 /\ At(u, 1) = "E" /\ At(u, 2) = c /\ w \in Texts
  BY <1>1, ShortText
<1> HIDE DEF u
<1>3. g \in Texts
  BY DoubledLayout
<1>5. Enclosed(s, f, u, g, w)
  <2> HIDE DEF g, w
  <2> QED BY <1>2, <1>3, EnclosedText
<1> HIDE DEF s, f
<1>4. b \in BOOLEAN /\ b
  OBVIOUS
<1> HIDE DEF b
<1>6. QuotedFacts(s, f, u, text, Special, c, b, b)
  BY <1>4, <1>5 DEF QuotedFacts
<1>7. /\ s \in Texts /\ Len(s) = Len(f) + 2 /\ Len(f) \in Nat /\ Followed(s, f)
      /\ Len(f) = Len(u) + Len(g) + Len(w) /\ Len(g) \in Nat /\ Len(w) \in Nat
      /\ \A j \in 1 .. Len(u) : At(s, j) = At(u, j)
  <2> HIDE DEF g, w
  <2> QED BY <1>5 DEF Enclosed
<1>8. At(s, 1) = "E" /\ At(s, 2) = c /\ 1 \in 1 .. Len(s) /\ 2 \in 1 .. Len(s)
  <2>1. 1 \in 1 .. Len(u) /\ 2 \in 1 .. Len(u)
    BY <1>2
  <2>2. At(s, 1) = "E" /\ At(s, 2) = c
    BY <1>2, <1>7, <2>1
  <2>3. 1 \in 1 .. Len(s) /\ 2 \in 1 .. Len(s)
    BY <1>7
  <2> QED BY <2>2, <2>3
<1>9. BackslashEscapes(s, 2, d) = b
  <2>1. ~identifierPart(At(s, 2 - 2))
    BY <1>7, NothingBefore
  <2>2. At(s, 2 - 1) \in {"E", "e"} /\ At(s, 2) = "'" /\ d = "postgres"
    BY <1>8
  <2>3. BackslashEscapes(s, 2, d) \in BOOLEAN /\ BackslashEscapes(s, 2, d)
    BY <2>1, <2>2 DEF BackslashEscapes
  <2> QED BY <1>4, <2>3
<1>10. QuotedEnd(s, 2, d) = Len(f) + 1
  <2>1. QuotedFrom(s, c, b, b)[Len(u) + 1] = Len(f) + 1
    BY <1>6, QuotedSkips
  <2>2. Len(u) + 1 = 2 + 1
    BY <1>2
  <2>3. Closing(At(s, 2)) = c /\ Doubles(At(s, 2), d) = b
    <3>1. Doubles(At(s, 2), d) \in BOOLEAN /\ Doubles(At(s, 2), d)
      BY <1>8 DEF Doubles
    <3> QED BY <1>4, <1>8, <3>1 DEF Closing
  <2>4. QuotedEnd(s, 2, d) = QuotedFrom(s, c, b, b)[2 + 1]
    BY <1>9, <2>3 DEF QuotedEnd
  <2> QED BY <2>1, <2>2, <2>4
<1>11. Lexeme(s, 2, d) = Skip(Len(f) + 1)
  <2>1. IsQuote(s, 2, d)
    BY <1>8 DEF IsQuote, Quotes
  <2>2. Lexeme(s, 2, d) = Quoted(s, 2, d)
    BY <2>1, LexemeCases
  <2>3. Len(f) + 1 # 0
    BY <1>7
  <2> QED BY <1>10, <2>2, <2>3 DEF Quoted
<1>12. From(s, d, 1) = From(s, d, 2)
  <2>1. IsPlain(s, 1, d)
    BY <1>1, <1>8, NameIsPlain
  <2>2. From(s, d, 1) = From(s, d, 1 + 1)
    BY <1>0, <1>7, <1>8, <2>1, PlainStep
  <2> QED BY <2>2
<1>13. From(s, d, 2) = From(s, d, Len(f) + 1)
  BY <1>0, <1>7, <1>8, <1>11, SkipStep
<1>14. From(s, d, Len(f) + 1) = ParameterAfter(Len(f))
  BY <1>0, <1>7, ParameterFollows
<1>15. scan(s, d) = ParameterAfter(Len(f))
  BY <1>0, <1>7, <1>12, <1>13, <1>14, FromStep
<1> QED BY <1>15, Zenon DEF s, f, u, w, g, c, d, Special

(* How often a character occurs among the first k of a text. *)
Count(text, c, k) == Cardinality({n \in 1 .. k : text[n] = c})

(* It occurs once more where it stands. *)
LEMMA CountSteps ==
  ASSUME NEW text \in Texts, NEW c
  PROVE  /\ Count(text, c, 0) = 0
         /\ \A k \in 0 .. Len(text) : Count(text, c, k) \in Nat
         /\ \A k \in 1 .. Len(text) :
              Count(text, c, k) = Count(text, c, k - 1) + IF text[k] = c THEN 1 ELSE 0
<1> DEFINE S(k) == {n \in 1 .. k : text[n] = c}
<1>1. Len(text) \in Nat
  BY AtText
<1>2. \A k \in Nat : IsFiniteSet(S(k)) /\ Cardinality(S(k)) \in Nat
  <2> TAKE k \in Nat
  <2> DEFINE T == S(k)
             X == 1 .. k
  <2>1. IsFiniteSet(X)
    BY FS_Interval
  <2>2. T \in SUBSET X
    OBVIOUS
  <2> HIDE DEF T, X
  <2>3. IsFiniteSet(T)
    BY <2>1, <2>2, FS_Subset
  <2>4. Cardinality(T) \in Nat
    BY <2>3, FS_CardinalityType
  <2> QED BY <2>3, <2>4 DEF T
<1>3. Cardinality(S(0)) = 0
  <2>1. S(0) = {}
    OBVIOUS
  <2> HIDE DEF S
  <2> QED BY <2>1, FS_EmptySet
<1>4. \A k \in 1 .. Len(text) :
        Cardinality(S(k)) = Cardinality(S(k - 1)) + IF text[k] = c THEN 1 ELSE 0
  <2> TAKE k \in 1 .. Len(text)
  <2>1. k - 1 \in Nat /\ k \notin S(k - 1)
    BY <1>1
  <2>2. IsFiniteSet(S(k - 1)) /\ Cardinality(S(k - 1)) \in Nat
    BY <1>2, <2>1
  <2>3. CASE text[k] = c
    <3>1. S(k) = S(k - 1) \cup {k}
      BY <1>1, <2>3
    <3> HIDE DEF S
    <3>2. Cardinality(S(k - 1) \cup {k}) = Cardinality(S(k - 1)) + 1
      BY <2>1, <2>2, FS_AddElement
    <3> QED BY <2>3, <3>1, <3>2
  <2>4. CASE text[k] # c
    <3>1. S(k) = S(k - 1)
      BY <1>1, <2>4
    <3> HIDE DEF S
    <3> QED BY <2>2, <2>4, <3>1
  <2> QED BY <2>3, <2>4
<1>5. \A k : Count(text, c, k) = Cardinality(S(k))
  BY DEF Count
<1> HIDE DEF S
<1>6. \A k \in 0 .. Len(text) : k \in Nat
  BY <1>1
<1> QED BY <1>2, <1>3, <1>4, <1>5, <1>6

(* Two characters of a text that stand for the opening and the end of a
   comment. *)
Stand(text, open, close) == text \in Texts /\ open # close

(* An opening is one more comment that is open, an end one less. *)
LEMMA DepthSteps ==
  ASSUME NEW text, NEW open, NEW close, Stand(text, open, close)
  PROVE  /\ Depth(text, open, close, 0) = 1
         /\ \A k \in 0 .. Len(text) : Depth(text, open, close, k) \in Int
         /\ \A k \in 1 .. Len(text) :
              Depth(text, open, close, k)
                = IF text[k] = open THEN Depth(text, open, close, k - 1) + 1
                  ELSE IF text[k] = close THEN Depth(text, open, close, k - 1) - 1
                  ELSE Depth(text, open, close, k - 1)
<1> DEFINE O(k) == Count(text, open, k)
           C(k) == Count(text, close, k)
<1>0. text \in Texts /\ open # close
  BY DEF Stand
<1>1. /\ O(0) = 0 /\ \A k \in 0 .. Len(text) : O(k) \in Nat
      /\ \A k \in 1 .. Len(text) : O(k) = O(k - 1) + IF text[k] = open THEN 1 ELSE 0
  BY <1>0, CountSteps
<1>2. /\ C(0) = 0 /\ \A k \in 0 .. Len(text) : C(k) \in Nat
      /\ \A k \in 1 .. Len(text) : C(k) = C(k - 1) + IF text[k] = close THEN 1 ELSE 0
  BY <1>0, CountSteps
<1>3. \A k : Depth(text, open, close, k) = 1 + (O(k) - C(k))
  BY DEF Depth, Count
<1>4. Len(text) \in Nat
  BY <1>0, AtText
<1> HIDE DEF O, C
<1>5. Depth(text, open, close, 0) = 1
  <2>1. Depth(text, open, close, 0) = 1 + (O(0) - C(0))
    BY <1>3
  <2> QED BY <1>1, <1>2, <2>1
<1>6. \A k \in 0 .. Len(text) : Depth(text, open, close, k) \in Int
  <2> TAKE k \in 0 .. Len(text)
  <2>1. O(k) \in Nat /\ C(k) \in Nat
    BY <1>1, <1>2
  <2>2. Depth(text, open, close, k) = 1 + (O(k) - C(k))
    BY <1>3
  <2> QED BY <2>1, <2>2
<1>7. ASSUME NEW k \in 1 .. Len(text)
      PROVE  Depth(text, open, close, k)
                = IF text[k] = open THEN Depth(text, open, close, k - 1) + 1
                  ELSE IF text[k] = close THEN Depth(text, open, close, k - 1) - 1
                  ELSE Depth(text, open, close, k - 1)
  <2> DEFINE m == k - 1
             x == Depth(text, open, close, k)
             y == Depth(text, open, close, m)
  <2>1. m \in 0 .. Len(text)
    BY <1>4
  <2>2. /\ O(m) \in Nat /\ C(m) \in Nat
        /\ O(k) = O(m) + IF text[k] = open THEN 1 ELSE 0
        /\ C(k) = C(m) + IF text[k] = close THEN 1 ELSE 0
    BY <1>1, <1>2, <2>1
  <2>3. x = 1 + (O(k) - C(k)) /\ y = 1 + (O(m) - C(m))
    BY <1>3
  <2> HIDE DEF m, x, y
  <2>4. CASE text[k] = open
    <3>1. text[k] # close
      BY <1>0, <2>4
    <3>2. x = y + 1
      BY <2>2, <2>3, <2>4, <3>1
    <3> QED BY <2>4, <3>2 DEF x, y, m
  <2>5. CASE text[k] = close
    <3>1. text[k] # open
      BY <1>0, <2>5
    <3>2. x = y - 1
      BY <2>2, <2>3, <2>5, <3>1
    <3> QED BY <2>5, <3>1, <3>2 DEF x, y, m
  <2>6. CASE text[k] # open /\ text[k] # close
    <3>1. x = y
      BY <2>2, <2>3, <2>6
    <3> QED BY <2>6, <3>1 DEF x, y, m
  <2> QED BY <2>4, <2>5, <2>6
<1> QED BY <1>5, <1>6, <1>7

(* Where each character of a text with comments in it stands. *)
CommentsWidth(text, open, close, k) == Width(text, Comments(text, open, close), k)

(* An opening and an end take two characters there, any other one. *)
LEMMA CommentsLayout ==
  ASSUME NEW text \in Texts, NEW open, NEW close, open # close
  PROVE  LET g == Spelled(text, Comments(text, open, close))
             P(k) == CommentsWidth(text, open, close, k)
         IN /\ g \in Texts /\ Len(g) = P(Len(text)) /\ P(0) = 0
            /\ \A k \in 0 .. Len(text) : P(k) \in Nat
            /\ \A k \in 1 .. Len(text) :
                 /\ P(k) <= Len(g)
                 /\ At(text, k) = open =>
                      /\ P(k) = P(k - 1) + 2
                      /\ At(g, P(k - 1) + 1) = "/" /\ At(g, P(k - 1) + 2) = "*"
                 /\ At(text, k) = close =>
                      /\ P(k) = P(k - 1) + 2
                      /\ At(g, P(k - 1) + 1) = "*" /\ At(g, P(k - 1) + 2) = "/"
                 /\ At(text, k) \notin {open, close} =>
                      P(k) = P(k - 1) + 1 /\ At(g, P(k - 1) + 1) = At(text, k)
<1> DEFINE code == Comments(text, open, close)
           g == Spelled(text, code)
           P(k) == CommentsWidth(text, open, close, k)
           W(k) == code[text[k]]
           slash == <<"/", "*">>
           star == <<"*", "/">>
<1>1. \A k \in 1 .. Len(text) : At(text, k) = text[k] /\ text[k] \in Bytes
  BY AtText
<1>a. /\ slash \in Texts /\ Len(slash) = 2 /\ At(slash, 1) = "/" /\ At(slash, 2) = "*"
      /\ star \in Texts /\ Len(star) = 2 /\ At(star, 1) = "*" /\ At(star, 2) = "/"
  <2>1. "/" \in Bytes /\ "*" \in Bytes
    BY ShortText DEF Marks
  <2> QED BY <2>1, ShortText
<1>2. ASSUME NEW k \in 1 .. Len(text)
      PROVE  /\ W(k) \in Texts /\ Len(W(k)) \in {1, 2}
             /\ At(text, k) = open => W(k) = slash
             /\ At(text, k) = close => W(k) = star
             /\ At(text, k) \notin {open, close} => Len(W(k)) = 1 /\ At(W(k), 1) = At(text, k)
  <2> DEFINE c == text[k]
  <2>1. c \in ToSet(text)
    BY DEF ToSet
  <2>2. W(k) = IF c = open THEN slash ELSE IF c = close THEN star ELSE <<c>>
    BY <2>1 DEF Comments
  <2>3. c \in Bytes /\ At(text, k) = c
    BY <1>1
  <2> HIDE DEF c
  <2>4. <<c>> \in Texts /\ Len(<<c>>) = 1 /\ At(<<c>>, 1) = c
    BY <2>3, ShortText
  <2> HIDE DEF slash, star, code
  <2>5. CASE c = open
    <3>1. W(k) = slash /\ c # close
      BY <2>2, <2>5
    <3> QED BY <1>a, <2>3, <2>5, <3>1
  <2>6. CASE c = close
    <3>1. W(k) = star /\ c # open
      BY <2>2, <2>6
    <3> QED BY <1>a, <2>3, <2>6, <3>1
  <2>7. CASE c # open /\ c # close
    <3> DEFINE v == <<c>>
    <3>1. W(k) = v /\ v \in Texts /\ Len(v) = 1 /\ At(v, 1) = c
      BY <2>2, <2>4, <2>7
    <3> HIDE DEF v
    <3> QED BY <2>3, <2>7, <3>1
  <2> QED BY <2>5, <2>6, <2>7
<1>3. IsCode(text, code)
  BY <1>2 DEF IsCode
<1>4. \A k : P(k) = Width(text, code, k)
  BY DEF CommentsWidth
<1> HIDE DEF code, slash, star, P
<1>5. /\ g \in Texts /\ Len(g) = P(Len(text)) /\ P(0) = 0
      /\ \A k \in 0 .. Len(text) : P(k) \in Nat
      /\ \A k \in 1 .. Len(text) :
           /\ P(k) <= Len(g) /\ P(k) = P(k - 1) + Len(W(k))
           /\ \A j \in 1 .. Len(W(k)) : At(g, P(k - 1) + j) = At(W(k), j)
  BY <1>3, <1>4, SpelledLayout
<1> HIDE DEF g, W
<1>6. ASSUME NEW k \in 1 .. Len(text)
      PROVE  /\ P(k) <= Len(g)
             /\ At(text, k) = open =>
                  /\ P(k) = P(k - 1) + 2
                  /\ At(g, P(k - 1) + 1) = "/" /\ At(g, P(k - 1) + 2) = "*"
             /\ At(text, k) = close =>
                  /\ P(k) = P(k - 1) + 2
                  /\ At(g, P(k - 1) + 1) = "*" /\ At(g, P(k - 1) + 2) = "/"
             /\ At(text, k) \notin {open, close} =>
                  P(k) = P(k - 1) + 1 /\ At(g, P(k - 1) + 1) = At(text, k)
  <2>1. CASE At(text, k) = open
    <3>1. W(k) = slash /\ 1 \in 1 .. 2 /\ 2 \in 1 .. 2 /\ At(text, k) # close
      BY <1>2, <2>1
    <3> QED BY <1>5, <1>a, <2>1, <3>1
  <2>2. CASE At(text, k) = close
    <3>1. W(k) = star /\ 1 \in 1 .. 2 /\ 2 \in 1 .. 2 /\ At(text, k) # open
      BY <1>2, <2>2
    <3> QED BY <1>5, <1>a, <2>2, <3>1
  <2>3. CASE At(text, k) \notin {open, close}
    <3>1. Len(W(k)) = 1 /\ At(W(k), 1) = At(text, k) /\ 1 \in 1 .. 1
      BY <1>2, <2>3
    <3> QED BY <1>5, <2>3, <3>1
  <2> QED BY <2>1, <2>2, <2>3
<1> QED BY <1>5, <1>6 DEF g, P, code

(* What is written first for a character of a text with comments in it. *)
First(c, open, close) == IF c = open THEN "/" ELSE IF c = close THEN "*" ELSE c

(* A text with comments in it, in a comment, where comments nest. *)
NestFacts(s, f, text, open, close) ==
  /\ text \in Texts /\ open \in ToSet(text) /\ close \in ToSet(text)
  /\ IsNested(text, open, close)
  /\ Enclosed(s, f, <<"/", "*">>, Spelled(text, Comments(text, open, close)), <<"*", "/">>)

(* Nothing but the openings and the ends can be read as one. *)
LEMMA NestPlain ==
  ASSUME NEW text \in Texts, NEW open \in ToSet(text), NEW close \in ToSet(text),
         IsNested(text, open, close)
  PROVE  LET w == text \o <<close>>
         IN /\ w \in Texts /\ Len(w) = Len(text) + 1
            /\ \A k \in 1 .. Len(text) : At(w, k) = At(text, k)
            /\ At(w, Len(text) + 1) = close
            /\ \A k \in 1 .. Len(text) :
                 /\ At(w, k) = "*" => First(At(w, k + 1), open, close) # "/"
                 /\ At(w, k) = "/" => First(At(w, k + 1), open, close) # "*"
<1> DEFINE last == <<close>>
           w == text \o last
           n == Len(text)
<1>1. open \in Bytes /\ close \in Bytes /\ "/" \in Bytes /\ "*" \in Bytes
  <2>1. "/" \in Bytes /\ "*" \in Bytes
    BY ShortText DEF Marks
  <2>2. \A k \in 1 .. n : text[k] \in Bytes
    BY AtText
  <2>3. \A c \in ToSet(text) : \E k \in 1 .. n : c = text[k]
    BY AtText DEF ToSet
  <2> QED BY <2>1, <2>2, <2>3
<1>2. last \in Texts /\ Len(last) = 1 /\ At(last, 1) = close /\ n \in Nat
  BY <1>1, ShortText, AtText
<1>3. /\ ~Has(w, <<"*", "/">>) /\ ~Has(w, <<"*", open>>)
      /\ ~Has(w, <<"/", "*">>) /\ ~Has(w, <<"/", close>>)
  BY DEF IsNested
<1> HIDE DEF last
<1>4. /\ w \in Texts /\ Len(w) = Len(text) + Len(last)
      /\ \A j \in Int : At(w, j) = IF j <= Len(text) THEN At(text, j) ELSE At(last, j - Len(text))
  BY <1>2, JoinText
<1> HIDE DEF w
<1>5. Len(w) = n + 1 /\ \A k \in 1 .. n : At(w, k) = At(text, k) /\ k \in 1 .. Len(w) - 1
  BY <1>2, <1>4
<1>6. At(w, n + 1) = close
  <2>1. n + 1 \in Int /\ ~(n + 1 <= n) /\ (n + 1) - n = 1
    BY <1>2
  <2> QED BY <1>2, <1>4, <2>1
<1>7. /\ \A k \in 1 .. Len(w) - 1 : ~Pair(w, k, "*", "/")
      /\ \A k \in 1 .. Len(w) - 1 : ~Pair(w, k, "*", open)
      /\ \A k \in 1 .. Len(w) - 1 : ~Pair(w, k, "/", "*")
      /\ \A k \in 1 .. Len(w) - 1 : ~Pair(w, k, "/", close)
  BY <1>1, <1>3, <1>4, HasNoPair
<1>8. ASSUME NEW k \in 1 .. n
      PROVE  /\ At(w, k) = "*" => First(At(w, k + 1), open, close) # "/"
             /\ At(w, k) = "/" => First(At(w, k + 1), open, close) # "*"
  <2>1. k \in 1 .. Len(w) - 1
    BY <1>5
  <2>2. /\ ~Pair(w, k, "*", "/") /\ ~Pair(w, k, "*", open)
        /\ ~Pair(w, k, "/", "*") /\ ~Pair(w, k, "/", close)
    BY <1>7, <2>1
  <2> DEFINE c == At(w, k)
             x == At(w, k + 1)
  <2>3. /\ c = "*" => x # "/" /\ x # open
        /\ c = "/" => x # "*" /\ x # close
    BY <2>2 DEF Pair
  <2> HIDE DEF c, x
  <2>4. /\ c = "*" => First(x, open, close) # "/"
        /\ c = "/" => First(x, open, close) # "*"
    BY <2>3 DEF First
  <2> QED BY <2>4 DEF c, x
<1> QED BY <1>4, <1>5, <1>6, <1>8 DEF w, last

(* Where everything stands in such a text: the comment is opened, character
   k is written from 3 + P(k - 1) on, and the end follows. *)
LEMMA NestLayout ==
  ASSUME NEW s, NEW f, NEW text, NEW open, NEW close, NestFacts(s, f, text, open, close)
  PROVE  LET P(k) == CommentsWidth(text, open, close, k)
             n == Len(text)
         IN /\ s \in Texts /\ Followed(s, f) /\ n \in Nat
            /\ P(0) = 0 /\ \A k \in 0 .. n : P(k) \in Nat
            /\ Len(f) = P(n) + 4 /\ Len(s) = P(n) + 6
            /\ Pair(s, 1, "/", "*") /\ Pair(s, P(n) + 3, "*", "/")
            /\ \A k \in 1 .. n :
                 /\ P(k) <= P(n)
                 /\ At(text, k) = open => P(k) = P(k - 1) + 2 /\ Pair(s, P(k - 1) + 3, "/", "*")
                 /\ At(text, k) = close => P(k) = P(k - 1) + 2 /\ Pair(s, P(k - 1) + 3, "*", "/")
                 /\ At(text, k) \notin {open, close} =>
                      /\ P(k) = P(k - 1) + 1
                      /\ ~Pair(s, P(k - 1) + 3, "*", "/") /\ ~Pair(s, P(k - 1) + 3, "/", "*")
<1> DEFINE P(k) == CommentsWidth(text, open, close, k)
           n == Len(text)
           g == Spelled(text, Comments(text, open, close))
           u == <<"/", "*">>
           v == <<"*", "/">>
           w == text \o <<close>>
<1>1. /\ text \in Texts /\ open \in ToSet(text) /\ close \in ToSet(text) /\ open # close
      /\ IsNested(text, open, close) /\ Enclosed(s, f, u, g, v)
  BY DEF NestFacts, IsNested
<1>2. /\ u \in Texts /\ Len(u) = 2 /\ At(u, 1) = "/" /\ At(u, 2) = "*"
      /\ v \in Texts /\ Len(v) = 2 /\ At(v, 1) = "*" /\ At(v, 2) = "/"
  <2>1. "/" \in Bytes /\ "*" \in Bytes
    BY ShortText DEF Marks
  <2> QED BY <2>1, ShortText
<1>3. /\ g \in Texts /\ Len(g) = P(n) /\ P(0) = 0
      /\ \A k \in 0 .. n : P(k) \in Nat
      /\ \A k \in 1 .. n :
           /\ P(k) <= Len(g)
           /\ At(text, k) = open =>
                P(k) = P(k - 1) + 2 /\ At(g, P(k - 1) + 1) = "/" /\ At(g, P(k - 1) + 2) = "*"
           /\ At(text, k) = close =>
                P(k) = P(k - 1) + 2 /\ At(g, P(k - 1) + 1) = "*" /\ At(g, P(k - 1) + 2) = "/"
           /\ At(text, k) \notin {open, close} =>
                P(k) = P(k - 1) + 1 /\ At(g, P(k - 1) + 1) = At(text, k)
  BY <1>1, CommentsLayout
<1>4. n \in Nat
  BY <1>1, AtText
<1> HIDE DEF u, v, g, P
<1>5. /\ w \in Texts /\ Len(w) = n + 1
      /\ \A k \in 1 .. n : At(w, k) = At(text, k)
      /\ At(w, n + 1) = close
      /\ \A k \in 1 .. n :
           /\ At(w, k) = "*" => First(At(w, k + 1), open, close) # "/"
           /\ At(w, k) = "/" => First(At(w, k + 1), open, close) # "*"
  BY <1>1, NestPlain
<1> HIDE DEF w, n
<1>6. /\ Followed(s, f) /\ s \in Texts /\ Len(f) = (2 + P(n)) + 2 /\ Len(s) = Len(f) + 2
      /\ \A j \in 1 .. 2 : At(s, j) = At(u, j)
      /\ \A j \in 1 .. P(n) : At(s, 2 + j) = At(g, j)
      /\ \A j \in 1 .. 2 : At(s, (2 + P(n)) + j) = At(v, j)
  BY <1>1, <1>2, <1>3 DEF Enclosed
<1>7. n \in 0 .. n /\ P(n) \in Nat
  BY <1>3, <1>4
<1>8. Len(f) = P(n) + 4 /\ Len(s) = P(n) + 6 /\ 1 \in 1 .. 2 /\ 2 \in 1 .. 2
      /\ (2 + P(n)) + 1 = P(n) + 3 /\ (2 + P(n)) + 2 = (P(n) + 3) + 1 /\ 1 + 1 = 2
  BY <1>6, <1>7
<1>9. Pair(s, 1, "/", "*") /\ Pair(s, P(n) + 3, "*", "/")
  BY <1>2, <1>6, <1>8 DEF Pair
<1>10. \A k \in 1 .. n : P(k) \in Nat /\ P(k - 1) \in Nat /\ P(k) <= P(n)
                         /\ P(k) \in {P(k - 1) + 1, P(k - 1) + 2}
  <2> TAKE k \in 1 .. n
  <2>1. k \in 0 .. n /\ k - 1 \in 0 .. n
    BY <1>4
  <2>2. P(k) \in {P(k - 1) + 1, P(k - 1) + 2} /\ P(k) <= P(n)
    BY <1>3
  <2> QED BY <1>3, <2>1, <2>2
<1>11. ASSUME NEW k \in 1 .. n
       PROVE  /\ At(s, P(k - 1) + 3) = At(g, P(k - 1) + 1)
              /\ P(k) = P(k - 1) + 2 => At(s, (P(k - 1) + 3) + 1) = At(g, P(k - 1) + 2)
  <2> DEFINE p == P(k - 1)
  <2>1. p \in Nat /\ P(k) <= P(n) /\ P(k) \in {p + 1, p + 2} /\ P(n) \in Nat
    BY <1>7, <1>10
  <2> HIDE DEF p
  <2>2. p + 1 \in 1 .. P(n) /\ 2 + (p + 1) = p + 3
    BY <2>1
  <2>3. P(k) = p + 2 => p + 2 \in 1 .. P(n) /\ 2 + (p + 2) = (p + 3) + 1
    BY <2>1
  <2>4. At(s, p + 3) = At(g, p + 1)
    BY <1>6, <2>2
  <2>5. P(k) = p + 2 => At(s, (p + 3) + 1) = At(g, p + 2)
    BY <1>6, <2>3
  <2> QED BY <2>4, <2>5 DEF p
<1>12. \A k \in 1 .. n : At(s, P(k - 1) + 3) = First(At(w, k), open, close)
  <2> TAKE k \in 1 .. n
  <2> DEFINE c == At(text, k)
  <2>1. At(w, k) = c /\ At(s, P(k - 1) + 3) = At(g, P(k - 1) + 1)
    BY <1>5, <1>11
  <2>2. /\ c = open => At(g, P(k - 1) + 1) = "/"
        /\ c = close => At(g, P(k - 1) + 1) = "*"
        /\ c \notin {open, close} => At(g, P(k - 1) + 1) = c
    BY <1>3
  <2> HIDE DEF c
  <2> QED BY <1>1, <2>1, <2>2 DEF First
<1>13. \A k \in 1 .. n : At(s, P(k) + 3) = First(At(w, k + 1), open, close)
  <2> TAKE k \in 1 .. n
  <2>1. CASE k = n
    <3>1. At(s, P(k) + 3) = "*"
      BY <1>9, <2>1 DEF Pair
    <3>2. At(w, k + 1) = close
      BY <1>5, <2>1
    <3> QED BY <1>1, <3>1, <3>2 DEF First
  <2>2. CASE k # n
    <3> DEFINE m == k + 1
    <3>1. m \in 1 .. n /\ m - 1 = k
      BY <1>4, <2>2
    <3> HIDE DEF m
    <3>2. At(s, P(m - 1) + 3) = First(At(w, m), open, close)
      BY <1>12, <3>1
    <3> QED BY <3>1, <3>2 DEF m
  <2> QED BY <2>1, <2>2
<1>14. ASSUME NEW k \in 1 .. n
       PROVE  /\ P(k) <= P(n)
              /\ At(text, k) = open => P(k) = P(k - 1) + 2 /\ Pair(s, P(k - 1) + 3, "/", "*")
              /\ At(text, k) = close => P(k) = P(k - 1) + 2 /\ Pair(s, P(k - 1) + 3, "*", "/")
              /\ At(text, k) \notin {open, close} =>
                   /\ P(k) = P(k - 1) + 1
                   /\ ~Pair(s, P(k - 1) + 3, "*", "/") /\ ~Pair(s, P(k - 1) + 3, "/", "*")
  <2> DEFINE p == P(k - 1)
             x == At(s, p + 3)
             y == At(s, (p + 3) + 1)
             c == At(text, k)
  <2>1. /\ P(k) <= P(n) /\ P(k) \in Nat /\ p \in Nat
        /\ c = open => P(k) = p + 2 /\ x = "/" /\ y = "*"
        /\ c = close => P(k) = p + 2 /\ x = "*" /\ y = "/"
    BY <1>3, <1>10, <1>11
  <2>2. c \notin {open, close} =>
          P(k) = p + 1 /\ (x = "*" => y # "/") /\ (x = "/" => y # "*")
    <3> HAVE c \notin {open, close}
    <3>1. P(k) = p + 1 /\ x = c
      BY <1>3, <1>11
    <3>2. P(k) + 3 = (p + 3) + 1
      BY <2>1, <3>1
    <3>3. y = First(At(w, k + 1), open, close)
      <4>1. At(s, P(k) + 3) = First(At(w, k + 1), open, close)
        BY <1>13
      <4> HIDE DEF p
      <4> QED BY <3>2, <4>1
    <3>4. At(w, k) = c
      BY <1>5
    <3> HIDE DEF x, y, c, p
    <3> QED BY <1>5, <3>1, <3>3, <3>4
  <2> HIDE DEF c
  <2>3. /\ c = open => P(k) = p + 2 /\ Pair(s, p + 3, "/", "*")
        /\ c = close => P(k) = p + 2 /\ Pair(s, p + 3, "*", "/")
        /\ c \notin {open, close} =>
             P(k) = p + 1 /\ ~Pair(s, p + 3, "*", "/") /\ ~Pair(s, p + 3, "/", "*")
    BY <2>1, <2>2 DEF Pair
  <2> QED BY <2>1, <2>3 DEF c, p
<1> QED BY <1>3, <1>4, <1>6, <1>8, <1>9, <1>14 DEF P, n

(* A comment ends where as many ends as openings have been read. *)
LEMMA NestCloses ==
  ASSUME NEW s, NEW f, NEW text, NEW open, NEW close, NestFacts(s, f, text, open, close)
  PROVE  CommentFrom(s, TRUE)[<<3, 1>>] = Len(f) + 1
<1> DEFINE b == TRUE
           e == CommentFrom(s, b)
           n == Len(text)
           P(k) == CommentsWidth(text, open, close, k)
           D(k) == Depth(text, open, close, k)
<1>1. /\ s \in Texts /\ n \in Nat /\ P(0) = 0 /\ \A k \in 0 .. n : P(k) \in Nat
      /\ Len(f) = P(n) + 4 /\ Len(s) = P(n) + 6
      /\ Pair(s, P(n) + 3, "*", "/")
      /\ \A k \in 1 .. n :
           /\ P(k) <= P(n)
           /\ At(text, k) = open => P(k) = P(k - 1) + 2 /\ Pair(s, P(k - 1) + 3, "/", "*")
           /\ At(text, k) = close => P(k) = P(k - 1) + 2 /\ Pair(s, P(k - 1) + 3, "*", "/")
           /\ At(text, k) \notin {open, close} =>
                /\ P(k) = P(k - 1) + 1
                /\ ~Pair(s, P(k - 1) + 3, "*", "/") /\ ~Pair(s, P(k - 1) + 3, "/", "*")
  BY NestLayout
<1>2. /\ D(0) = 1 /\ \A k \in 0 .. n : D(k) \in Nat \ {0}
      /\ D(n) = 1 /\ open # close /\ text \in Texts
      /\ \A k \in 1 .. n :
           D(k) = IF text[k] = open THEN D(k - 1) + 1
                  ELSE IF text[k] = close THEN D(k - 1) - 1 ELSE D(k - 1)
  <2>1. /\ text \in Texts /\ open # close /\ D(n) = 1 /\ \A k \in 1 .. n : D(k) > 0
    BY DEF NestFacts, IsNested
  <2>2. /\ D(0) = 1 /\ \A k \in 0 .. n : D(k) \in Int
        /\ \A k \in 1 .. n :
             D(k) = IF text[k] = open THEN D(k - 1) + 1
                    ELSE IF text[k] = close THEN D(k - 1) - 1 ELSE D(k - 1)
    <3>1. Stand(text, open, close)
      BY <2>1 DEF Stand
    <3> QED BY <3>1, DepthSteps
  <2> HIDE DEF D, n
  <2>3. \A k \in 0 .. n : D(k) \in Nat \ {0}
    <3> TAKE k \in 0 .. n
    <3>1. k = 0 \/ k \in 1 .. n
      BY <1>1
    <3>2. D(k) \in Int /\ D(k) > 0
      BY <2>1, <2>2, <3>1
    <3> QED BY <3>2
  <2> QED BY <2>1, <2>2, <2>3
<1>3. \A k \in 1 .. n : At(text, k) = text[k]
  BY <1>2, AtText
<1>b. b \in BOOLEAN /\ b
  OBVIOUS
<1> HIDE DEF b, P, D, n
<1>4. \A depth \in Nat \ {0} : \A j \in 1 .. Len(s) :
        e[<<j, depth>>] = IF Pair(s, j, "*", "/")
                          THEN IF depth = 1 THEN j + 2 ELSE e[<<j + 2, depth - 1>>]
                          ELSE IF b /\ Pair(s, j, "/", "*") THEN e[<<j + 2, depth + 1>>]
                          ELSE e[<<j + 1, depth>>]
  BY <1>1, <1>b, CommentRecursion
<1> HIDE DEF e
<1>5. ASSUME NEW k \in 1 .. n
      PROVE  e[<<P(k - 1) + 3, D(k - 1)>>] = e[<<P(k) + 3, D(k)>>]
  <2> DEFINE m == k - 1
             j == P(m) + 3
             x == D(m)
             c == text[k]
  <2>1. m \in 0 .. n /\ k \in 0 .. n
    BY <1>1
  <2>2. P(m) \in Nat /\ P(k) \in Nat /\ P(k) <= P(n) /\ x \in Nat \ {0} /\ D(k) \in Nat \ {0}
    BY <1>1, <1>2, <2>1
  <2>3. j \in 1 .. Len(s)
    <3>1. P(k) \in {P(m) + 1, P(m) + 2}
      BY <1>1
    <3>2. P(n) \in Nat /\ Len(s) = P(n) + 6
      BY <1>1
    <3>3. P(m) \in Nat /\ P(m) <= P(n)
      BY <2>2, <3>1, <3>2
    <3> QED BY <3>2, <3>3
  <2>4. e[<<j, x>>] = IF Pair(s, j, "*", "/")
                      THEN IF x = 1 THEN j + 2 ELSE e[<<j + 2, x - 1>>]
                      ELSE IF b /\ Pair(s, j, "/", "*") THEN e[<<j + 2, x + 1>>]
                      ELSE e[<<j + 1, x>>]
    BY <1>4, <2>2, <2>3
  <2>5. At(text, k) = c
    BY <1>3
  <2>6. CASE c = open
    <3>1. Pair(s, j, "/", "*") /\ P(k) = P(m) + 2 /\ D(k) = x + 1
      BY <1>1, <1>2, <2>5, <2>6
    <3>2. ~Pair(s, j, "*", "/")
      BY <3>1 DEF Pair
    <3>3. P(k) + 3 = j + 2
      BY <2>2, <3>1
    <3> HIDE DEF j, x
    <3>4. e[<<j, x>>] = e[<<P(k) + 3, D(k)>>]
      BY <1>b, <2>4, <3>1, <3>2, <3>3
    <3> QED BY <3>4 DEF j, x, m
  <2>7. CASE c = close
    <3>1. Pair(s, j, "*", "/") /\ P(k) = P(m) + 2 /\ D(k) = x - 1
      BY <1>1, <1>2, <2>5, <2>7
    <3>2. x # 1
      BY <2>2, <3>1
    <3>3. P(k) + 3 = j + 2
      BY <2>2, <3>1
    <3> HIDE DEF j, x
    <3>4. e[<<j, x>>] = e[<<P(k) + 3, D(k)>>]
      BY <2>4, <3>1, <3>2, <3>3
    <3> QED BY <3>4 DEF j, x, m
  <2>8. CASE c \notin {open, close}
    <3>1. ~Pair(s, j, "*", "/") /\ ~Pair(s, j, "/", "*") /\ P(k) = P(m) + 1 /\ D(k) = x
      BY <1>1, <1>2, <2>5, <2>8
    <3>3. P(k) + 3 = j + 1
      BY <2>2, <3>1
    <3> HIDE DEF j, x
    <3>4. e[<<j, x>>] = e[<<P(k) + 3, D(k)>>]
      BY <2>4, <3>1, <3>3
    <3> QED BY <3>4 DEF j, x, m
  <2> QED BY <2>6, <2>7, <2>8
<1> DEFINE S == {k \in 0 .. n : e[<<3, 1>>] = e[<<P(k) + 3, D(k)>>]}
<1>6. 0 \in S
  <2>1. 0 \in 0 .. n /\ P(0) + 3 = 3
    BY <1>1
  <2> QED BY <1>2, <2>1
<1>7. \A k \in 1 .. n : k - 1 \in S => k \in S
  <2> TAKE k \in 1 .. n
  <2> HAVE k - 1 \in S
  <2>1. k \in 0 .. n
    BY <1>1
  <2>2. e[<<3, 1>>] = e[<<P(k - 1) + 3, D(k - 1)>>]
    OBVIOUS
  <2>3. e[<<3, 1>>] = e[<<P(k) + 3, D(k)>>]
    BY <1>5, <2>2
  <2> QED BY <2>1, <2>3
<1>8. n \in S
  <2>1. n \in 0 .. n
    BY <1>1
  <2> HIDE DEF S
  <2>2. 0 .. n \subseteq S
    BY <1>1, <1>6, <1>7, BoundedInduction
  <2> QED BY <2>1, <2>2
<1>9. e[<<P(n) + 3, 1>>] = (P(n) + 3) + 2
  <2>1. P(n) \in Nat /\ P(n) + 3 \in 1 .. Len(s) /\ 1 \in Nat \ {0}
    BY <1>1
  <2> DEFINE j == P(n) + 3
  <2> HIDE DEF j
  <2>2. Pair(s, j, "*", "/") /\ j \in 1 .. Len(s)
    BY <1>1, <2>1 DEF j
  <2>3. e[<<j, 1>>] = j + 2
    BY <1>4, <2>1, <2>2
  <2> QED BY <2>3 DEF j
<1>10. e[<<3, 1>>] = Len(f) + 1
  <2>1. e[<<3, 1>>] = e[<<P(n) + 3, 1>>]
    BY <1>2, <1>8
  <2>2. (P(n) + 3) + 2 = Len(f) + 1
    <3>1. P(n) \in Nat
      BY <1>1
    <3> QED BY <1>1, <3>1
  <2> QED BY <1>9, <2>1, <2>2
<1> QED BY <1>10 DEF e, b

(* Comments in a comment hide nothing where comments nest. *)
LEMMA NestOpaque ==
  ASSUME NEW s, NEW f, NEW text, NEW open, NEW close, NestFacts(s, f, text, open, close),
         NEW d \in Nesting
  PROVE  scan(s, d) = ParameterAfter(Len(f))
<1>1. d \in Dialects /\ Nests(d) = TRUE /\ d # "mysql"
  BY DEF Nesting, Dialects, Nests
<1>2. /\ s \in Texts /\ Followed(s, f) /\ Len(f) \in Nat /\ Len(f) >= 1 /\ Pair(s, 1, "/", "*")
  <2> DEFINE p == CommentsWidth(text, open, close, Len(text))
  <2>1. /\ s \in Texts /\ Followed(s, f) /\ Len(f) = p + 4 /\ Pair(s, 1, "/", "*") /\ p \in Nat
    <3>1. Len(text) \in 0 .. Len(text)
      <4>1. Len(text) \in Nat
        BY NestLayout
      <4> QED BY <4>1
    <3> QED BY <3>1, NestLayout
  <2> HIDE DEF p
  <2> QED BY <2>1
<1>3. CommentEnd(s, 1, d) = Len(f) + 1
  <2>1. 1 + 2 = 3
    OBVIOUS
  <2> QED BY <1>1, <2>1, NestCloses DEF CommentEnd
<1>4. Lexeme(s, 1, d) = Skip(Len(f) + 1)
  <2>1. Lexeme(s, 1, d) = Comment(s, 1, d)
    BY <1>2, LexemeCases DEF IsComment
  <2>2. Len(f) + 1 # 0
    BY <1>2
  <2>3. Comment(s, 1, d) = Skip(Len(f) + 1)
    BY <1>1, <1>3, <2>2 DEF Comment, IsExecutable
  <2> QED BY <2>1, <2>3
<1> QED BY <1>1, <1>2, <1>4, OneTurn

(* What is found in the text of an executable comment is what is found in
   that text alone, moved. *)
LEMMA ExecutableInner ==
  ASSUME NEW s, NEW f, NEW g, NEW d \in Dialects,
         Enclosed(s, f, <<"/", "*", "!">>, g, <<"*", "/">>)
  PROVE  FoundIn(s, d)[<<4, Len(g) + 3>>] = Shift(scan(g, d), 3)
<1> DEFINE u == <<"/", "*", "!">>
           hi == Len(g)
           k == 3
           lo == 1
<1>1. Len(u) = 3 /\ At(u, 3) = "!"
  <2>1. "/" \in Bytes /\ "*" \in Bytes /\ "!" \in Bytes
    BY ShortText DEF Marks
  <2> QED BY <2>1, ThreeCharacters
<1>2. /\ s \in Texts /\ g \in Texts /\ hi \in Nat
      /\ \A j \in 1 .. Len(u) : At(s, j) = At(u, j)
      /\ \A j \in 1 .. hi : At(s, Len(u) + j) = At(g, j)
      /\ Len(s) >= hi + 3
  <2>1. /\ s \in Texts /\ g \in Texts /\ hi \in Nat /\ Len(s) = Len(f) + 2
        /\ Len(f) = Len(u) + hi + Len(<<"*", "/">>) /\ Len(<<"*", "/">>) \in Nat
        /\ \A j \in 1 .. Len(u) : At(s, j) = At(u, j)
        /\ \A j \in 1 .. hi : At(s, Len(u) + j) = At(g, j)
    BY DEF Enclosed
  <2> DEFINE m == Len(<<"*", "/">>)
  <2> HIDE DEF hi, u, m
  <2>2. Len(s) = ((3 + hi) + m) + 2 /\ m \in Nat
    BY <1>1, <2>1 DEF m
  <2>3. Len(s) >= hi + 3
    BY <2>1, <2>2
  <2> QED BY <2>1, <2>3
<1> HIDE DEF u
<1>3. \A j \in lo .. hi : At(s, j + k) = At(g, j)
  <2> TAKE j \in lo .. hi
  <2>1. j \in 1 .. hi /\ Len(u) + j = j + k
    BY <1>1, <1>2
  <2> QED BY <1>2, <2>1
<1>4. Window(g, s, k, lo, hi) /\ k \in Nat /\ lo \in lo .. hi + 1 /\ hi \in 0 .. hi
  <2>1. k \in Nat /\ k \in Int /\ lo \in 1 .. hi + 1 /\ lo + k >= 1 /\ hi + k <= Len(s)
        /\ hi <= Len(g) /\ hi \in 0 .. hi
    BY <1>2
  <2> QED BY <1>2, <1>3, <2>1 DEF Window
<1>5. SameBehind(g, lo, s, lo + k)
  <2>1. (lo + k) - 1 = 3 /\ lo - 1 = 0 /\ 3 \in 1 .. 3
    OBVIOUS
  <2>2. At(g, lo - 1) = "END" /\ At(s, (lo + k) - 1) = "!"
    <3>1. At(g, 0) = "END"
      BY <1>2, NothingBefore
    <3>2. At(s, 3) = "!"
      BY <1>1, <1>2, <2>1
    <3> QED BY <2>1, <3>1, <3>2
  <2>3. "END" \notin IdentifierParts /\ "!" \notin IdentifierParts
    BY Unmarked DEF Marks
  <2> HIDE DEF lo, k
  <2> QED BY <2>2, <2>3 DEF SameBehind, identifierPart
<1>6. Aligned(g, s, k, lo, hi)
  BY <1>4, <1>5 DEF Aligned
<1>7. scan(g, d) = FoundIn(g, d)[<<lo, hi>>]
  BY DEF scan
<1>8. <<lo + k, hi + k>> = <<4, Len(g) + 3>>
  BY <1>2
<1> HIDE DEF lo, hi, k
<1>9. FoundIn(s, d)[<<lo + k, hi + k>>] = Shift(FoundIn(g, d)[<<lo, hi>>], k)
  <2>1. FoundAlike(g, s, k, lo, hi)
    BY <1>6, FoundMoved
  <2> QED BY <1>4, <2>1, Zenon DEF FoundAlike
<1>10. FoundIn(s, d)[<<4, Len(g) + 3>>] = Shift(scan(g, d), k)
  BY <1>7, <1>8, <1>9, Zenon
<1> QED BY <1>10 DEF k

(* The comment that MySQL may execute is one turn. *)
LEMMA ExecutableTurn ==
  ASSUME NEW s, NEW f, NEW g, Enclosed(s, f, <<"/", "*", "!">>, g, <<"*", "/">>),
         ~Has(g, <<"*", "/">>)
  PROVE  /\ s \in Texts /\ Followed(s, f) /\ Len(g) \in Nat /\ Len(f) = Len(g) + 5
         /\ Len(s) = Len(f) + 2
         /\ Lexeme(s, 1, "mysql") = Executable(Len(f) + 1)
<1> DEFINE u == <<"/", "*", "!">>
           w == <<"*", "/">>
           n == Len(g)
           q == n + 4
           d == "mysql"
<1>b. "/" \in Bytes /\ "*" \in Bytes /\ "!" \in Bytes
  BY ShortText DEF Marks
<1>1. Len(u) = 3 /\ At(u, 1) = "/" /\ At(u, 2) = "*" /\ At(u, 3) = "!"
  BY <1>b, ThreeCharacters
<1>2. Len(w) = 2 /\ At(w, 1) = "*" /\ At(w, 2) = "/"
  BY <1>b, ShortText
<1>3. Enclosed(s, f, u, g, w)
  OBVIOUS
<1> HIDE DEF u, w
<1>4. /\ g \in Texts /\ n \in Nat /\ Followed(s, f) /\ Len(f) = (Len(u) + n) + Len(w)
      /\ s \in Texts /\ Len(s) = Len(f) + 2
      /\ \A j \in 1 .. Len(u) : At(s, j) = At(u, j)
      /\ \A j \in 1 .. n : At(s, Len(u) + j) = At(g, j)
      /\ \A j \in 1 .. Len(w) : At(s, (Len(u) + n) + j) = At(w, j)
  BY <1>3 DEF Enclosed
<1>5. \A k \in 1 .. n - 1 : ~Pair(g, k, "*", "/")
  BY <1>4, <1>b, HasNoPair
<1> HIDE DEF n
<1>6. /\ q \in Nat /\ q >= 3 /\ Len(f) = n + 5 /\ Len(f) + 1 = q + 2 /\ q < Len(s)
      /\ 1 \in 1 .. 3 /\ 2 \in 1 .. 3 /\ 3 \in 1 .. 3 /\ 1 \in 1 .. 2 /\ 2 \in 1 .. 2
      /\ (3 + n) + 1 = q /\ (3 + n) + 2 = q + 1 /\ 1 + 1 = 2 /\ 1 + 2 = 3
  BY <1>1, <1>2, <1>4
<1>7. At(s, 1) = "/" /\ At(s, 2) = "*" /\ At(s, 3) = "!"
  BY <1>1, <1>4, <1>6
<1>8. At(s, q) = "*" /\ At(s, q + 1) = "/"
  <2>1. At(s, (3 + n) + 1) = "*" /\ At(s, (3 + n) + 2) = "/"
    BY <1>1, <1>2, <1>4, <1>6
  <2> HIDE DEF q
  <2> QED BY <1>6, <2>1
<1>9. ASSUME NEW j \in 3 .. q - 1 PROVE ~Pair(s, j, "*", "/")
  <2>0. n \in Nat /\ j \in 3 .. (n + 4) - 1
    BY <1>4
  <2>1. CASE j = 3
    BY <1>7, <2>1 DEF Pair
  <2>2. CASE j = q - 1
    <3>1. j + 1 = q
      BY <2>0, <2>2
    <3> HIDE DEF q
    <3> QED BY <1>8, <3>1 DEF Pair
  <2>3. CASE j # 3 /\ j # q - 1
    <3> DEFINE k == j - 3
    <3>1. /\ k \in 1 .. n - 1 /\ k \in 1 .. n /\ k + 1 \in 1 .. n
          /\ 3 + k = j /\ 3 + (k + 1) = j + 1
      BY <2>0, <2>3
    <3> HIDE DEF k
    <3>2. At(s, j) = At(g, k) /\ At(s, j + 1) = At(g, k + 1)
      <4>1. At(s, 3 + k) = At(g, k) /\ At(s, 3 + (k + 1)) = At(g, k + 1)
        BY <1>1, <1>4, <3>1
      <4> QED BY <3>1, <4>1
    <3>3. ~Pair(g, k, "*", "/")
      BY <1>5, <3>1
    <3> QED BY <3>2, <3>3 DEF Pair
  <2> QED BY <2>1, <2>2, <2>3
<1>10. CommentEnd(s, 1, d) = q + 2
  <2>1. Nests(d) = FALSE
    BY DEF Nests
  <2>2. Pair(s, q, "*", "/")
    BY <1>8 DEF Pair
  <2>3. OpenUntil(s, q, Nests(d))
    BY <1>4, <1>6, <1>9, <2>1, <2>2 DEF OpenUntil
  <2> HIDE DEF q
  <2> QED BY <1>6, <2>3, BlockCloses DEF CommentEnd
<1>11. IsExecutable(s, 1, d)
  BY <1>6, <1>7 DEF IsExecutable
<1>12. q + 2 # 0
  BY <1>6
<1>13. IsComment(s, 1)
  BY <1>6, <1>7 DEF IsComment, Pair
<1> HIDE DEF q
<1>14. Lexeme(s, 1, d) = Executable(q + 2)
  <2>1. Lexeme(s, 1, d) = Comment(s, 1, d)
    BY <1>13, LexemeCases
  <2> HIDE DEF d
  <2>2. Comment(s, 1, d) = Executable(q + 2)
    BY <1>10, <1>11, <1>12 DEF Comment
  <2> QED BY <2>1, <2>2
<1> QED BY <1>4, <1>6, <1>14 DEF n

(* Text that MySQL may execute is checked. *)
LEMMA ExecutableChecked ==
  ASSUME NEW s, NEW f, NEW g, Enclosed(s, f, <<"/", "*", "!">>, g, <<"*", "/">>),
         ~Has(g, <<"*", "/">>)
  PROVE  LET inner == scan(g, "mysql")
         IN scan(s, "mysql")
              = IF inner = Nothing THEN ParameterAfter(Len(f))
                ELSE Found(IF inner.err = NoError THEN "syntax" ELSE inner.err, <<>>)
<1> DEFINE d == "mysql"
           r == scan(g, d)
           t == Executable(Len(f) + 1)
           inner == Inner(s, d, 1)
           rest == From(s, d, Len(f) + 1)
<1>1. /\ s \in Texts /\ Followed(s, f) /\ Len(g) \in Nat /\ Len(f) = Len(g) + 5
      /\ Len(s) = Len(f) + 2 /\ Lexeme(s, 1, d) = t /\ g \in Texts
  <2>1. g \in Texts
    BY DEF Enclosed
  <2> QED BY <2>1, ExecutableTurn
<1>2. d \in Dialects /\ 1 \in 1 .. Len(s) /\ 1 + 3 = 4 /\ (Len(f) + 1) - 3 = Len(g) + 3
  BY <1>1 DEF Dialects
<1>3. t.kind = "executable" /\ t.next = Len(f) + 1 /\ t.kind \notin Errors
  BY DEF Executable, Turn, Errors
<1>4. inner = Shift(r, 3)
  <2>1. FoundIn(s, d)[<<4, Len(g) + 3>>] = Shift(r, 3)
    BY <1>2, ExecutableInner
  <2>2. inner = FoundIn(s, d)[<<4, Len(g) + 3>>]
    BY <1>1, <1>2, <1>3 DEF Inner
  <2> QED BY <2>1, <2>2
<1>5. r \in Results
  BY <1>1, <1>2, ScanTokens
<1> HIDE DEF d, r, t, inner
<1>6. inner.err = r.err /\ (inner = Nothing <=> r = Nothing)
  <2>1. 3 \in Nat
    OBVIOUS
  <2>2. Shift(r, 3).err = r.err /\ (Shift(r, 3) = Nothing <=> r = Nothing)
    BY <1>5, <2>1, ShiftResults
  <2> QED BY <1>4, <2>2
<1>7. scan(s, d) = Joined(1, t, inner, rest)
  <2>1. scan(s, d) = From(s, d, 1)
    BY <1>1, <1>2, FromStep
  <2>2. From(s, d, 1) = Joined(1, Lexeme(s, 1, d), Inner(s, d, 1), From(s, d, Lexeme(s, 1, d).next))
    BY <1>1, <1>2, FromStep
  <2> QED BY <1>1, <1>3, <2>1, <2>2 DEF inner
<1>8. rest = ParameterAfter(Len(f))
  BY <1>1, <1>2, ParameterFollows
<1> HIDE DEF rest
<1>9. CASE r = Nothing
  <2>1. Joined(1, t, inner, rest) = rest
    BY <1>3, <1>6, <1>9, JoinedGives
  <2> QED BY <1>7, <1>8, <1>9, <2>1 DEF r, d
<1>10. CASE r # Nothing
  <2>1. Joined(1, t, inner, rest) = Found(IF inner.err = NoError THEN "syntax" ELSE inner.err, <<>>)
    BY <1>3, <1>6, <1>10 DEF Joined
  <2>2. scan(s, d) = Found(IF r.err = NoError THEN "syntax" ELSE r.err, <<>>)
    BY <1>6, <1>7, <2>1
  <2> QED BY <1>10, <2>2 DEF r, d
<1> QED BY <1>9, <1>10

(* Every form of protected text yields the parameter after it. *)
LEMMA FormsOpaque ==
  ASSUME Typed,
         NEW text \in QuotedForms(sql, dialect) \cup DollarForms(sql, dialect)
                        \cup CommentForms(sql, dialect) \cup NestedForms(sql, dialect)
  PROVE  scan(text \o <<":", "a">>, dialect) = ParameterAfter(Len(text))
<1> DEFINE d == dialect
           g == sql
           Opaque(f) == scan(f \o <<":", "a">>, d) = ParameterAfter(Len(f))
<1>1. g \in Texts /\ d \in Dialects
  BY DEF Typed
<1> HIDE DEF d, g
<1>2. ASSUME text \in QuotedForms(g, d) PROVE Opaque(text)
  <2> DEFINE Form(q) == <<q>> \o Doubled(g, SpecialOf(q, d)) \o <<Closing(q)>>
             Plain == {q \in Quotes(d) : q = "[" /\ d = "sqlite" => ~Has(g, <<"]">>)}
             escapes == <<"E", "'">> \o Doubled(g, {"'", "\\"}) \o <<"'">>
  <2>1. \/ \E q \in Plain : text = Form(q)
        \/ d = "postgres" /\ text = escapes
    BY <1>2 DEF QuotedForms, SpecialOf
  <2>2. ASSUME NEW q \in Plain PROVE Opaque(Form(q))
    BY <1>1, QuotedOpaque
  <2>3. d = "postgres" => Opaque(escapes)
    <3>1. scan(escapes \o <<":", "a">>, "postgres") = ParameterAfter(Len(escapes))
      BY <1>1, EscapesOpaque
    <3> HIDE DEF escapes
    <3> QED BY <3>1
  <2> HIDE DEF Form, Plain, escapes, Opaque
  <2> QED BY <2>1, <2>2, <2>3
<1>3. ASSUME text \in DollarForms(g, d) PROVE Opaque(text)
  <2>1. PICK tag \in {<<"$", "$">>, <<"$", "a", "$">>} :
          d = "postgres" /\ ~Has(g \o Front(tag), tag) /\ text = tag \o g \o tag
    BY <1>3 DEF DollarForms
  <2>2. IsTag(tag)
    BY TagForms
  <2>3. tag \in Texts
    BY <2>2 DEF IsTag
  <2> DEFINE f == tag \o g \o tag
             s == f \o <<":", "a">>
  <2>4. Enclosed(s, f, tag, g, tag)
    BY <1>1, <2>3, EnclosedText
  <2> HIDE DEF f, s
  <2>5. scan(s, "postgres") = ParameterAfter(Len(f))
    BY <2>1, <2>2, <2>4, DollarOpaque
  <2> QED BY <2>1, <2>5 DEF s, f
<1>4. ASSUME text \in CommentForms(g, d) PROVE Opaque(text)
  <2> DEFINE line  == <<"-", "-", "SPACE">> \o g \o <<"NL">>
             block == <<"/", "*">> \o g \o <<"*", "/">>
  <2>1. \/ text = line /\ \A c \in LineTerminators(d) : ~Has(g, <<c>>)
        \/ /\ text = block /\ ~Has(g, <<"*", "/">>)
           /\ d \in Nesting => ~Has(g \o <<"*">>, <<"/", "*">>)
           /\ d = "mysql" => At(g, 1) # "!"
    BY <1>4 DEF CommentForms
  <2>2. {"-", "SPACE", "NL", "/", "*"} \subseteq Bytes
    BY ShortText DEF Marks
  <2>3. CASE text = line /\ \A c \in LineTerminators(d) : ~Has(g, <<c>>)
    <3> DEFINE s == line \o <<":", "a">>
    <3>1. <<"-", "-", "SPACE">> \in Texts /\ <<"NL">> \in Texts
      BY <2>2, ThreeCharacters, ShortText
    <3>2. Enclosed(s, line, <<"-", "-", "SPACE">>, g, <<"NL">>)
      BY <1>1, <3>1, EnclosedText
    <3> HIDE DEF s, line
    <3>3. scan(s, d) = ParameterAfter(Len(line))
      BY <1>1, <2>3, <3>2, LineOpaque
    <3> QED BY <2>3, <3>3 DEF s
  <2>4. CASE /\ text = block /\ ~Has(g, <<"*", "/">>)
             /\ d \in Nesting => ~Has(g \o <<"*">>, <<"/", "*">>)
             /\ d = "mysql" => At(g, 1) # "!"
    <3> DEFINE s == block \o <<":", "a">>
    <3>1. <<"/", "*">> \in Texts /\ <<"*", "/">> \in Texts
      BY <2>2, ShortText
    <3>2. Enclosed(s, block, <<"/", "*">>, g, <<"*", "/">>)
      BY <1>1, <3>1, EnclosedText
    <3> HIDE DEF s, block
    <3>3. Nests(d) <=> d \in Nesting
      BY DEF Nests, Nesting
    <3>4. scan(s, d) = ParameterAfter(Len(block))
      BY <1>1, <2>4, <3>2, <3>3, BlockOpaque
    <3> QED BY <2>4, <3>4 DEF s
  <2> QED BY <2>1, <2>3, <2>4
<1>5. ASSUME text \in NestedForms(g, d) PROVE Opaque(text)
  <2>1. PICK p \in ToSet(g) \X ToSet(g) :
          /\ d \in Nesting /\ IsNested(g, p[1], p[2])
          /\ text = <<"/", "*">> \o Spelled(g, Comments(g, p[1], p[2])) \o <<"*", "/">>
    BY <1>5 DEF NestedForms
  <2> DEFINE open == p[1]
             close == p[2]
             h == Spelled(g, Comments(g, open, close))
             f == <<"/", "*">> \o h \o <<"*", "/">>
             s == f \o <<":", "a">>
  <2>2. open \in ToSet(g) /\ close \in ToSet(g)
    OBVIOUS
  <2>3. "/" \in Bytes /\ "*" \in Bytes
    BY ShortText DEF Marks
  <2>4. <<"/", "*">> \in Texts /\ <<"*", "/">> \in Texts
    BY <2>3, ShortText
  <2>5. h \in Texts
    <3>1. open # close
      BY <2>1 DEF IsNested
    <3> HIDE DEF open, close
    <3> QED BY <1>1, <3>1, CommentsLayout
  <2> HIDE DEF h
  <2>6. Enclosed(s, f, <<"/", "*">>, h, <<"*", "/">>)
    BY <2>4, <2>5, EnclosedText
  <2> HIDE DEF open, close, f, s
  <2>7. NestFacts(s, f, g, open, close)
    BY <1>1, <2>1, <2>2, <2>6 DEF NestFacts, h, open, close
  <2>8. scan(s, d) = ParameterAfter(Len(f))
    BY <2>1, <2>7, NestOpaque
  <2>9. text = f
    BY <2>1 DEF f, h, open, close
  <2> QED BY <2>8, <2>9 DEF s
<1>6. Opaque(text)
  BY <1>2, <1>3, <1>4, <1>5 DEF d, g
<1> QED BY <1>6 DEF d

(* What MySQL may execute is checked, whatever the statement. *)
LEMMA TypedChecked == Typed => ExecutableTextIsChecked
<1> SUFFICES ASSUME Typed, dialect = "mysql", ~Has(sql, <<"*", "/">>)
             PROVE  LET f == <<"/", "*", "!">> \o sql \o <<"*", "/">>
                        inner == scan(sql, "mysql")
                    IN scan(f \o <<":", "a">>, "mysql")
                         = IF inner = Nothing THEN ParameterAfter(Len(f))
                           ELSE Found(IF inner.err = NoError THEN "syntax" ELSE inner.err, <<>>)
  BY ZenonT(30) DEF ExecutableTextIsChecked
<1> DEFINE u == <<"/", "*", "!">>
           w == <<"*", "/">>
           f == u \o sql \o w
           s == f \o <<":", "a">>
<1>1. sql \in Texts
  BY DEF Typed
<1>2. u \in Texts /\ w \in Texts
  <2>1. "/" \in Bytes /\ "*" \in Bytes /\ "!" \in Bytes
    BY ShortText DEF Marks
  <2> QED BY <2>1, ThreeCharacters, ShortText
<1>3. Enclosed(s, f, u, sql, w)
  BY <1>1, <1>2, EnclosedText
<1> HIDE DEF s, f
<1>4. LET inner == scan(sql, "mysql")
      IN scan(s, "mysql")
           = IF inner = Nothing THEN ParameterAfter(Len(f))
             ELSE Found(IF inner.err = NoError THEN "syntax" ELSE inner.err, <<>>)
  BY <1>3, ExecutableChecked
<1> QED BY <1>4 DEF s, f

(* The property of every statement. *)
LEMMA TypedOpaque == Typed => ProtectedTextIsOpaque
<1> SUFFICES ASSUME Typed PROVE ProtectedTextIsOpaque
  OBVIOUS
<1>1. ExecutableTextIsChecked
  BY TypedChecked
<1>2. \A text \in QuotedForms(sql, dialect) \cup DollarForms(sql, dialect)
                     \cup CommentForms(sql, dialect) \cup NestedForms(sql, dialect) :
        scan(text \o <<":", "a">>, dialect) = ParameterAfter(Len(text))
  BY FormsOpaque
<1> QED BY <1>1, <1>2 DEF ProtectedTextIsOpaque

(* ProtectedTextIsOpaque always: text that is quoted or commented out by
   the rules of the dialect, comments within it included, hides nothing of
   what follows it, and text that may be executed is checked. *)
THEOREM LexerProtectedTextIsOpaque == Spec => []ProtectedTextIsOpaque
<1> QED BY AlwaysTyped, TypedOpaque, PTL

=============================================================================
