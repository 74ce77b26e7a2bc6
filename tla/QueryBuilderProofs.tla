------------------------- MODULE QueryBuilderProofs -------------------------
(***************************************************************************)
(* Proofs about QueryBuilder, checked by TLAPS, for fragments, bindings    *)
(* and lists of any number and length, in every dialect: the types, that   *)
(* Build reports the first mistake, that what it returns means the         *)
(* bindings, and that the size it reserves is enough.                      *)
(*                                                                         *)
(* The four say something of a Build that has returned; BuilderInv says    *)
(* what holds while it expands token after token:                          *)
(*   ScanInv   the names with a span are those of the tokens passed, and   *)
(*             none of these tokens is a mistake;                          *)
(*   SpansInv  a span holds what the value of its name expands to;         *)
(*   ArgsInv   question marks: the arguments are what the pieces up to     *)
(*             here ask for, one after the other; numbers: every argument  *)
(*             lies in the span of a name;                                 *)
(*   SizeInv   the size is a sum over the statement, of the estimates of   *)
(*             the pieces passed and the lengths of the others.            *)
(* That the compiled statement then reads as what is meant, and is no      *)
(* longer than that sum, are inductions over its pieces.                   *)
(***************************************************************************)
EXTENDS QueryBuilder, FiniteSetTheorems, SequenceTheorems, TLAPS

-----------------------------------------------------------------------------
(* Induction, in a form without operator parameters. *)

(* A set of naturals that is not empty has a least element.                *)
LEMMA LeastNatural ==
  ASSUME NEW S \in SUBSET Nat, S # {}
  PROVE  \E m \in S : \A k \in S : m <= k
<1> DEFINE R == StrictSubsetOrdering(Nat)
           Below == {0 .. m : m \in S}
<1>1. Below \subseteq FiniteSubsetsOf(Nat)
  <2>1. \A m \in Nat : IsFiniteSet(0 .. m) /\ 0 .. m \in SUBSET Nat
    <3> TAKE m \in Nat
    <3>1. 0 \in Int /\ m \in Int
      OBVIOUS
    <3> QED BY <3>1, FS_Interval
  <2> QED BY <2>1 DEF FiniteSubsetsOf
<1>2. Below # {}
  OBVIOUS
<1>3. \E x \in Below : \A y \in Below : <<y, x>> \notin R
  <2> HIDE DEF R, Below
  <2>1. IsWellFoundedOn(R, FiniteSubsetsOf(Nat))
    BY FS_StrictSubsetOrderingWellFounded DEF R
  <2> QED BY <2>1, <1>1, <1>2, WFMin
<1>4. PICK m \in S : \A k \in S : <<0 .. k, 0 .. m>> \notin R
  BY <1>3
<1>5. ASSUME NEW k \in S, k < m PROVE FALSE
  <2>1. /\ 0 .. k \subseteq 0 .. m
        /\ m \in 0 .. m /\ m \notin 0 .. k
        /\ 0 .. k \in SUBSET Nat /\ 0 .. m \in SUBSET Nat
    BY <1>5
  <2>2. 0 .. k # 0 .. m
    BY <2>1
  <2> QED BY <1>4, <2>1, <2>2 DEF StrictSubsetOrdering
<1> QED BY <1>4, <1>5

(* A set that holds 0 and the successor of each of its elements holds all.  *)
LEMMA NaturalInduction ==
  ASSUME NEW S \in SUBSET Nat, 0 \in S, \A n \in S : n + 1 \in S
  PROVE  S = Nat
<1> SUFFICES ASSUME Nat \ S # {} PROVE FALSE
  OBVIOUS
<1>1. PICK m \in Nat \ S : \A k \in Nat \ S : m <= k
  <2>1. Nat \ S \in SUBSET Nat
    OBVIOUS
  <2> QED BY <2>1, LeastNatural
<1>2. m - 1 \in Nat /\ m - 1 \in S
  BY <1>1
<1> QED BY <1>1, <1>2

(* The same up to a bound.                                                  *)
LEMMA BoundedInduction ==
  ASSUME NEW n \in Nat, NEW S, 0 \in S, \A k \in 1 .. n : k - 1 \in S => k \in S
  PROVE  0 .. n \subseteq S
<1> DEFINE T == {k \in Nat : k <= n => k \in S}
<1>1. 0 \in T
  OBVIOUS
<1>2. ASSUME NEW k \in T PROVE k + 1 \in T
  <2>1. CASE k + 1 <= n
    BY <2>1
  <2>2. CASE ~(k + 1 <= n)
    BY <2>2
  <2> QED BY <2>1, <2>2
<1>3. T = Nat
  <2>1. T \in SUBSET Nat
    OBVIOUS
  <2> HIDE DEF T
  <2> QED BY <1>1, <1>2, <2>1, NaturalInduction
<1> QED BY <1>3

(* Min of FiniteSetsExt.                                                    *)
LEMMA MinNatural ==
  ASSUME NEW S \in SUBSET Nat, S # {}
  PROVE  Min(S) \in S /\ \A k \in S : Min(S) <= k
BY LeastNatural DEF Min

-----------------------------------------------------------------------------
(* Recursive functions. *)

(* Repeated application of a step has a result for every number of steps.   *)
Iterates(f, X, a, n, step) ==
  /\ f \in [0 .. n -> X]
  /\ f[0] = a
  /\ \A k \in 1 .. n : f[k] = step[k][f[k - 1]]

(* Steps that are all given can be taken one after the other.               *)
LEMMA Iteration ==
  ASSUME NEW X, NEW a \in X, NEW n \in Nat, NEW step \in [1 .. n -> [X -> X]]
  PROVE  \E f : Iterates(f, X, a, n, step)
<1> DEFINE Upto(m) == \E f : Iterates(f, X, a, m, step)
           S == {m \in 0 .. n : Upto(m)}
<1>1. 0 \in S
  <2> DEFINE g == [k \in 0 .. 0 |-> a]
  <2>1. g \in [0 .. 0 -> X] /\ g[0] = a /\ \A k \in 1 .. 0 : g[k] = step[k][g[k - 1]]
    OBVIOUS
  <2>2. Upto(0)
    <3> HIDE DEF g
    <3>1. Iterates(g, X, a, 0, step)
      BY <2>1 DEF Iterates
    <3> QED BY <3>1
  <2> QED BY <2>2
<1>2. ASSUME NEW l \in 1 .. n, l - 1 \in S PROVE l \in S
  <2> DEFINE m == l - 1
  <2>0. m \in Nat /\ l = m + 1 /\ m + 1 \in 1 .. n
    OBVIOUS
  <2>1. PICK f : Iterates(f, X, a, m, step)
    BY <1>2
  <2> DEFINE g == [k \in 0 .. m + 1 |-> IF k = m + 1 THEN step[m + 1][f[m]] ELSE f[k]]
  <2> HIDE DEF m
  <2>2. f[m] \in X /\ step[m + 1][f[m]] \in X
    BY <2>0, <2>1 DEF Iterates
  <2>3. g \in [0 .. m + 1 -> X]
    BY <2>0, <2>2, <2>1 DEF Iterates
  <2>4. g[0] = a
    BY <2>0, <2>1 DEF Iterates
  <2>5. ASSUME NEW k \in 1 .. m + 1 PROVE g[k] = step[k][g[k - 1]]
    <3>1. CASE k = m + 1
      <4>1. g[m] = f[m] /\ g[m + 1] = step[m + 1][f[m]] /\ k - 1 = m
        BY <2>0, <3>1
      <4> HIDE DEF g
      <4> QED BY <3>1, <4>1
    <3>2. CASE k # m + 1
      <4>1. k \in 1 .. m /\ g[k] = f[k] /\ g[k - 1] = f[k - 1]
        BY <2>0, <3>2
      <4> HIDE DEF g
      <4> QED BY <4>1, <2>1 DEF Iterates
    <3> QED BY <3>1, <3>2
  <2>6. Upto(l)
    <3> HIDE DEF g
    <3>1. Iterates(g, X, a, m + 1, step)
      BY <2>3, <2>4, <2>5 DEF Iterates
    <3> QED BY <2>0, <3>1
  <2> QED BY <2>6
<1>3. 0 .. n \subseteq S
  <2> HIDE DEF S
  <2> QED BY <1>1, <1>2, BoundedInduction
<1>4. n \in 0 .. n
  OBVIOUS
<1> QED BY <1>3, <1>4

-----------------------------------------------------------------------------
(* Sums and concatenations, by what they are up to every place. *)

SumTo(s) ==
  LET upto[k \in 0 .. Len(s)] == IF k = 0 THEN 0 ELSE upto[k - 1] + s[k] IN upto

(* A sum is what its recursion says.                                        *)
LEMMA SumToRecursion ==
  ASSUME NEW s \in Seq(Nat)
  PROVE  /\ SumTo(s) \in [0 .. Len(s) -> Nat]
         /\ SumTo(s)[0] = 0
         /\ \A k \in 1 .. Len(s) : SumTo(s)[k] = SumTo(s)[k - 1] + s[k]
         /\ Total(s) = SumTo(s)[Len(s)]
<1> DEFINE X == Nat
           n == Len(s)
           step == [k \in 1 .. n |-> [x \in X |-> x + s[k]]]
           F == SumTo(s)
<1>1. n \in Nat /\ \A k \in 1 .. n : s[k] \in Nat
  OBVIOUS
<1>2. step \in [1 .. n -> [X -> X]]
  BY <1>1
<1>3. PICK f : Iterates(f, X, 0, n, step)
  <2>1. 0 \in X
    OBVIOUS
  <2>2. n \in Nat
    OBVIOUS
  <2> HIDE DEF step, n, X
  <2> QED BY <1>2, <2>1, <2>2, Iteration
<1>4. ASSUME NEW k \in 1 .. n PROVE f[k] = f[k - 1] + s[k]
  <2>1. f \in [0 .. n -> X] /\ f[k] = step[k][f[k - 1]]
    <3> HIDE DEF step, n, X
    <3> QED BY <1>3 DEF Iterates
  <2>2. k - 1 \in 0 .. n
    BY <1>1
  <2>3. f[k - 1] \in X
    <3> HIDE DEF n, X
    <3> QED BY <2>1, <2>2
  <2> QED BY <2>1, <2>3
<1>5. f = [k \in 0 .. n |-> IF k = 0 THEN 0 ELSE f[k - 1] + s[k]]
  BY <1>1, <1>3, <1>4 DEF Iterates
<1>6. F = [k \in 0 .. n |-> IF k = 0 THEN 0 ELSE F[k - 1] + s[k]]
  BY <1>5 DEF SumTo
<1>7. F[0] = 0 /\ \A k \in 1 .. n : F[k] = F[k - 1] + s[k]
  <2> HIDE DEF F
  <2> QED BY <1>1, <1>6
<1> DEFINE S == {k \in 0 .. n : F[k] \in Nat}
<1>8. 0 .. n \subseteq S
  <2> HIDE DEF F
  <2>1. 0 \in S
    BY <1>1, <1>7
  <2>2. \A k \in 1 .. n : k - 1 \in S => k \in S
    <3> TAKE k \in 1 .. n
    <3> HAVE k - 1 \in S
    <3>1. k \in 0 .. n /\ s[k] \in Nat
      BY <1>1
    <3>2. F[k - 1] \in Nat /\ F[k] = F[k - 1] + s[k]
      BY <1>7
    <3> QED BY <3>1, <3>2
  <2> HIDE DEF S
  <2> QED BY <1>1, <2>1, <2>2, BoundedInduction
<1>9. F \in [0 .. n -> Nat]
  <2> HIDE DEF F
  <2> QED BY <1>6, <1>8
<1>10. Total(s) = F[n]
  BY DEF Total, SumTo
<1> QED BY <1>7, <1>9, <1>10

Nothing == <<>>

(* The empty sequence adds nothing.                                         *)
LEMMA NothingJoined ==
  ASSUME NEW X
  PROVE  /\ Nothing \in Seq(X) /\ Len(Nothing) = 0
         /\ \A s \in Seq(X) : Nothing \o s = s /\ s \o Nothing = s
BY EmptySeq, ConcatEmptySeq DEF Nothing

JoinTo(P) ==
  LET upto[k \in 0 .. Len(P)] == IF k = 0 THEN Nothing ELSE upto[k - 1] \o P[k] IN upto

(* FlattenSeq joins its parts one after the other.                          *)
LEMMA JoinToRecursion ==
  ASSUME NEW X, NEW P \in Seq(Seq(X))
  PROVE  /\ JoinTo(P) \in [0 .. Len(P) -> Seq(X)]
         /\ JoinTo(P)[0] = Nothing
         /\ \A k \in 1 .. Len(P) : JoinTo(P)[k] = JoinTo(P)[k - 1] \o P[k]
         /\ FlattenSeq(P) = JoinTo(P)[Len(P)]
<1> DEFINE Y == Seq(X)
           n == Len(P)
           step == [k \in 1 .. n |-> [x \in Y |-> x \o P[k]]]
           F == JoinTo(P)
<1>1. n \in Nat /\ \A k \in 1 .. n : P[k] \in Seq(X)
  OBVIOUS
<1>2. step \in [1 .. n -> [Y -> Y]]
  BY <1>1
<1>3. PICK f : Iterates(f, Y, Nothing, n, step)
  <2>1. Nothing \in Y
    BY NothingJoined
  <2> HIDE DEF step, n, Y
  <2> QED BY <1>1, <1>2, <2>1, Iteration
<1>4. ASSUME NEW k \in 1 .. n PROVE f[k] = f[k - 1] \o P[k]
  <2>1. f \in [0 .. n -> Y] /\ f[k] = step[k][f[k - 1]]
    <3> HIDE DEF step, n, Y
    <3> QED BY <1>3 DEF Iterates
  <2>2. k - 1 \in 0 .. n
    BY <1>1
  <2>3. f[k - 1] \in Y
    <3> HIDE DEF n, Y
    <3> QED BY <2>1, <2>2
  <2> QED BY <2>1, <2>3
<1>5. f = [k \in 0 .. n |-> IF k = 0 THEN Nothing ELSE f[k - 1] \o P[k]]
  <2>0. f \in [0 .. n -> Y] /\ f[0] = Nothing
    <3> HIDE DEF step, n, Y
    <3> QED BY <1>3 DEF Iterates
  <2>1. ASSUME NEW k \in 0 .. n PROVE f[k] = IF k = 0 THEN Nothing ELSE f[k - 1] \o P[k]
    <3>1. k # 0 => k \in 1 .. n
      BY <1>1
    <3> QED BY <1>4, <2>0, <3>1, Zenon
  <2>2. f = [k \in 0 .. n |-> f[k]]
    BY <2>0
  <2> QED BY <2>1, <2>2, Zenon
<1>6. F = [k \in 0 .. n |-> IF k = 0 THEN Nothing ELSE F[k - 1] \o P[k]]
  BY <1>5 DEF JoinTo
<1>7. F[0] = Nothing /\ \A k \in 1 .. n : F[k] = F[k - 1] \o P[k]
  <2> HIDE DEF F
  <2> QED BY <1>1, <1>6
<1> DEFINE S == {k \in 0 .. n : F[k] \in Seq(X)}
<1>8. 0 .. n \subseteq S
  <2> HIDE DEF F
  <2>1. 0 \in S
    BY <1>1, <1>7, NothingJoined
  <2>2. ASSUME NEW k \in 1 .. n, k - 1 \in S PROVE k \in S
    <3>1. F[k - 1] \in Seq(X) /\ P[k] \in Seq(X) /\ k \in 0 .. n
      BY <1>1, <2>2
    <3>2. F[k - 1] \o P[k] \in Seq(X)
      BY <3>1, ConcatProperties
    <3> QED BY <1>7, <3>1, <3>2
  <2> HIDE DEF S
  <2> QED BY <1>1, <2>1, <2>2, BoundedInduction
<1>9. F \in [0 .. n -> Seq(X)]
  <2> HIDE DEF F
  <2> QED BY <1>6, <1>8
<1>10. ASSUME n # 0 PROVE F[0] \o P[1] = P[1] /\ 1 - 1 = 0
  <2>1. P[1] \in Seq(X)
    BY <1>1, <1>10
  <2> HIDE DEF F
  <2>2. Nothing \o P[1] = P[1]
    BY <2>1, NothingJoined
  <2> QED BY <1>7, <2>2
<1>11. FlattenSeq(P) = F[n]
  <2> DEFINE G == CHOOSE g : g = [i \in 1 .. n |-> IF i = 1 THEN P[i] ELSE g[i - 1] \o P[i]]
  <2>1. CASE n = 0
    BY <2>1, <1>7 DEF FlattenSeq, Nothing
  <2>2. CASE n # 0
    <3> DEFINE h == [i \in 1 .. n |-> F[i]]
    <3>1. h = [i \in 1 .. n |-> IF i = 1 THEN P[i] ELSE h[i - 1] \o P[i]]
      <4>1. ASSUME NEW i \in 1 .. n PROVE F[i] = IF i = 1 THEN P[i] ELSE h[i - 1] \o P[i]
        <5> HIDE DEF F
        <5>1. i = 1 => F[i - 1] \o P[i] = P[i]
          <6>1. i = 1 => i - 1 = 0
            OBVIOUS
          <6> QED BY <6>1, <2>2, <1>10, Zenon
        <5>2. i # 1 => h[i - 1] = F[i - 1]
          BY <1>1
        <5> QED BY <1>7, <5>1, <5>2
      <4> HIDE DEF F
      <4> QED BY <4>1
    <3>2. G = [i \in 1 .. n |-> IF i = 1 THEN P[i] ELSE G[i - 1] \o P[i]]
      <4> HIDE DEF h
      <4> QED BY <3>1
    <3> DEFINE T == {k \in 0 .. n : k = 0 \/ G[k] = F[k]}
    <3>3. 0 .. n \subseteq T
      <4>1. 0 \in T
        BY <1>1
      <4>2. ASSUME NEW k \in 1 .. n, k - 1 \in T PROVE k \in T
        <5> HIDE DEF F, G
        <5>1. G[k] = IF k = 1 THEN P[k] ELSE G[k - 1] \o P[k]
          BY <3>2
        <5>2. k = 1 => F[k - 1] \o P[k] = P[k]
          <6>1. k = 1 => k - 1 = 0
            OBVIOUS
          <6> QED BY <6>1, <2>2, <1>10, Zenon
        <5>3. k # 1 => k - 1 \in 0 .. n /\ k - 1 # 0
          BY <1>1
        <5>4. F[k] = F[k - 1] \o P[k]
          BY <1>7
        <5>5. k # 1 => G[k - 1] = F[k - 1]
          BY <4>2, <5>3
        <5>6. G[k] = F[k]
          BY <5>1, <5>2, <5>4, <5>5, Zenon
        <5> QED BY <5>6
      <4> HIDE DEF T
      <4> QED BY <1>1, <4>1, <4>2, BoundedInduction
    <3>4. n \in 0 .. n
      BY <1>1
    <3>5. FlattenSeq(P) = G[n]
      BY <2>2 DEF FlattenSeq
    <3> HIDE DEF F, G
    <3> QED BY <2>2, <3>3, <3>4, <3>5
  <2> QED BY <2>1, <2>2
<1> QED BY <1>7, <1>9, <1>11

(* Two sums whose terms agree but at one place differ by that term.         *)
LEMMA SumWithOneChange ==
  ASSUME NEW s \in Seq(Nat), NEW t \in Seq(Nat), Len(s) = Len(t),
         NEW i \in 1 .. Len(s), \A k \in 1 .. Len(s) : k # i => t[k] = s[k]
  PROVE  Total(t) = Total(s) + (t[i] - s[i])
<1> DEFINE n == Len(s)
           F == SumTo(s)
           G == SumTo(t)
           S == {k \in 0 .. n : G[k] = IF k < i THEN F[k] ELSE F[k] + (t[i] - s[i])}
<1>1. /\ n \in Nat /\ n = Len(t) /\ i \in 1 .. n
      /\ \A k \in 1 .. n : s[k] \in Nat /\ t[k] \in Nat
  OBVIOUS
<1>2. /\ F \in [0 .. n -> Nat] /\ F[0] = 0 /\ Total(s) = F[n]
      /\ \A k \in 1 .. n : F[k] = F[k - 1] + s[k]
  BY SumToRecursion
<1>3. /\ G \in [0 .. n -> Nat] /\ G[0] = 0 /\ Total(t) = G[n]
      /\ \A k \in 1 .. n : G[k] = G[k - 1] + t[k]
  BY SumToRecursion
<1>4. \A k \in 1 .. n : k # i => t[k] = s[k]
  OBVIOUS
<1> HIDE DEF n, F, G
<1>5. 0 \in S
  BY <1>1, <1>2, <1>3
<1>6. ASSUME NEW k \in 1 .. n, k - 1 \in S PROVE k \in S
  <2>1. /\ F[k] = F[k - 1] + s[k] /\ G[k] = G[k - 1] + t[k]
        /\ s[k] \in Nat /\ t[k] \in Nat /\ s[i] \in Nat /\ t[i] \in Nat
    BY <1>1, <1>2, <1>3
  <2>1a. k - 1 \in 0 .. n
    BY <1>1
  <2>1b. F[k - 1] \in Nat /\ G[k - 1] \in Nat
    BY <1>2, <1>3, <2>1a
  <2>1c. k \in 0 .. n
    BY <1>1
  <2>2. CASE k < i
    BY <2>1, <2>1b, <2>1c, <2>2, <1>6, <1>4, <1>1
  <2>3. CASE k = i
    BY <2>1, <2>1b, <2>1c, <2>3, <1>6, <1>1
  <2>4. CASE k > i
    <3>1. G[k - 1] = F[k - 1] + (t[i] - s[i]) /\ ~(k < i) /\ t[k] = s[k]
      BY <2>4, <1>6, <1>4, <1>1
    <3>2. G[k] = F[k] + (t[i] - s[i])
      <4> DEFINE d == t[i] - s[i]
      <4>1. d \in Int
        BY <2>1
      <4>2. G[k - 1] = F[k - 1] + d
        BY <3>1
      <4> HIDE DEF d
      <4>3. G[k] = F[k] + d
        <5>1. /\ t[k] = s[k] /\ G[k] = G[k - 1] + t[k] /\ F[k] = F[k - 1] + s[k]
              /\ s[k] \in Nat /\ F[k - 1] \in Nat
          BY <2>1, <2>1b, <3>1
        <5>2. (F[k - 1] + d) + s[k] = (F[k - 1] + s[k]) + d
          BY <4>1, <5>1, SMTT(30)
        <5> QED BY <4>2, <5>1, <5>2
      <4> QED BY <4>3 DEF d
    <3> QED BY <2>1c, <3>1, <3>2
  <2> QED BY <2>2, <2>3, <2>4, <1>1
<1>7. n \in S
  <2>1. 0 .. n \subseteq S
    <3> HIDE DEF S
    <3> QED BY <1>1, <1>5, <1>6, BoundedInduction
  <2> QED BY <2>1, <1>1, SMTT(30)
<1> QED BY <1>1, <1>2, <1>3, <1>7

(* The sum of a concatenation.                                              *)
LEMMA SumOfConcatenation ==
  ASSUME NEW s \in Seq(Nat), NEW t \in Seq(Nat)
  PROVE  Total(s \o t) = Total(s) + Total(t)
<1> DEFINE u == s \o t
           n == Len(s)
           m == Len(t)
           F == SumTo(s)
           G == SumTo(t)
           H == SumTo(u)
           S == {k \in 0 .. n : H[k] = F[k]}
           T == {k \in 0 .. m : H[n + k] = F[n] + G[k]}
<1>1. /\ n \in Nat /\ m \in Nat /\ u \in Seq(Nat) /\ Len(u) = n + m
      /\ \A k \in 1 .. n : s[k] \in Nat /\ u[k] = s[k]
      /\ \A k \in 1 .. m : t[k] \in Nat /\ u[n + k] = t[k]
  <2>1. u \in Seq(Nat) /\ Len(u) = n + m
    BY ConcatProperties
  <2>2. \A k \in 1 .. n + m : u[k] = IF k <= n THEN s[k] ELSE t[k - n]
    BY ConcatProperties
  <2>3. n \in Nat /\ m \in Nat
    OBVIOUS
  <2>4. \A k \in 1 .. n : s[k] \in Nat
    OBVIOUS
  <2>5. \A k \in 1 .. m : t[k] \in Nat
    OBVIOUS
  <2> HIDE DEF u, n, m
  <2>6. \A k \in 1 .. n : u[k] = s[k]
    BY <2>2, <2>3
  <2>7. ASSUME NEW k \in 1 .. m PROVE u[n + k] = t[k]
    <3>1. n + k \in 1 .. n + m /\ (n + k) - n = k /\ ~(n + k <= n)
      BY <2>3
    <3> QED BY <2>2, <3>1
  <2> QED BY <2>1, <2>3, <2>4, <2>5, <2>6, <2>7
<1>2. /\ F \in [0 .. n -> Nat] /\ F[0] = 0 /\ Total(s) = F[n]
      /\ \A k \in 1 .. n : F[k] = F[k - 1] + s[k]
  BY SumToRecursion
<1>3. /\ G \in [0 .. m -> Nat] /\ G[0] = 0 /\ Total(t) = G[m]
      /\ \A k \in 1 .. m : G[k] = G[k - 1] + t[k]
  BY SumToRecursion
<1>4. /\ H \in [0 .. n + m -> Nat] /\ H[0] = 0 /\ Total(u) = H[n + m]
      /\ \A k \in 1 .. n + m : H[k] = H[k - 1] + u[k]
  <2> HIDE DEF u
  <2> QED BY <1>1, SumToRecursion
<1> HIDE DEF u, n, m, F, G, H
<1>5. n \in S
  <2>1. 0 \in S
    BY <1>1, <1>2, <1>4
  <2>2. ASSUME NEW k \in 1 .. n, k - 1 \in S PROVE k \in S
    <3>1. k \in 1 .. n + m
      BY <1>1
    <3>2. H[k] = H[k - 1] + s[k] /\ F[k] = F[k - 1] + s[k]
      BY <3>1, <1>1, <1>2, <1>4
    <3> QED BY <3>2, <2>2
  <2>3. 0 .. n \subseteq S
    <3> HIDE DEF S
    <3> QED BY <1>1, <2>1, <2>2, BoundedInduction
  <2> QED BY <2>3, <1>1
<1>6. m \in T
  <2>1. 0 \in T
    BY <1>1, <1>2, <1>3, <1>5
  <2>2. ASSUME NEW k \in 1 .. m, k - 1 \in T PROVE k \in T
    <3>1. n + k \in 1 .. n + m /\ (n + k) - 1 = n + (k - 1) /\ k - 1 \in 0 .. m
      BY <1>1
    <3>2. H[n + k] = H[n + (k - 1)] + t[k] /\ G[k] = G[k - 1] + t[k]
      BY <3>1, <1>1, <1>3, <1>4
    <3>3. F[n] \in Nat /\ G[k - 1] \in Nat /\ t[k] \in Nat
      BY <3>1, <1>1, <1>2, <1>3, SMTT(30)
    <3> QED BY <3>2, <3>3, <2>2
  <2>3. 0 .. m \subseteq T
    <3> HIDE DEF T
    <3> QED BY <1>1, <2>1, <2>2, BoundedInduction
  <2> QED BY <2>3, <1>1
<1>7. Total(u) = Total(s) + Total(t)
  BY <1>2, <1>3, <1>4, <1>6
<1> QED BY <1>7 DEF u

(* Empty parts do not change a concatenation.                               *)
LEMMA JoinOverEmpty ==
  ASSUME NEW X, NEW P \in Seq(Seq(X)), NEW i \in 0 .. Len(P), NEW j \in i .. Len(P),
         \A k \in i + 1 .. j : P[k] = Nothing
  PROVE  JoinTo(P)[j] = JoinTo(P)[i]
<1> DEFINE n == Len(P)
           F == JoinTo(P)
           S == {k \in 0 .. j - i : F[i + k] = F[i]}
<1>1. /\ F \in [0 .. n -> Seq(X)]
      /\ \A k \in 1 .. n : F[k] = F[k - 1] \o P[k]
  BY JoinToRecursion, Zenon
<1>1a. n \in Nat
  OBVIOUS
<1>2. i \in 0 .. n /\ j \in i .. n /\ \A k \in i + 1 .. j : P[k] = Nothing
  OBVIOUS
<1> HIDE DEF n, F
<1>3. 0 \in S
  BY <1>1, <1>1a, <1>2
<1>4. ASSUME NEW k \in 1 .. j - i, k - 1 \in S PROVE k \in S
  <2>1. /\ i + k \in 1 .. n /\ i + k \in i + 1 .. j /\ (i + k) - 1 = i + (k - 1)
        /\ k \in 0 .. j - i
    BY <1>1, <1>1a, <1>2
  <2>2. F[i + k] = F[i + (k - 1)] \o Nothing
    BY <2>1, <1>1, <1>2
  <2>3. F[i + (k - 1)] = F[i] /\ F[i] \in Seq(X)
    BY <1>1, <1>1a, <1>2, <1>4
  <2>4. F[i] \o Nothing = F[i]
    BY <2>3, NothingJoined
  <2>5. F[i + k] = F[i]
    BY <2>2, <2>3, <2>4, Zenon
  <2> QED BY <2>1, <2>5
<1>5. 0 .. j - i \subseteq S
  <2>1. j - i \in Nat
    BY <1>1, <1>1a, <1>2
  <2> HIDE DEF S
  <2> QED BY <2>1, <1>3, <1>4, BoundedInduction
<1>6. j - i \in 0 .. j - i /\ i + (j - i) = j
  BY <1>1, <1>1a, <1>2
<1>7. F[j] = F[i]
  <2>1. j - i \in S
    <3> HIDE DEF S
    <3> QED BY <1>5, <1>6
  <2> QED BY <2>1, <1>6
<1> QED BY <1>7 DEF F

(* Parts of one element each are a sequence taken apart.                    *)
LEMMA JoinOfSingletons ==
  ASSUME NEW X, NEW s \in Seq(X), NEW P \in Seq(Seq(X)), Len(P) = Len(s),
         \A k \in 1 .. Len(s) : P[k] = <<s[k]>>
  PROVE  FlattenSeq(P) = s
<1> DEFINE n == Len(s)
           F == JoinTo(P)
           S == {k \in 0 .. n : F[k] = SubSeq(s, 1, k)}
<1>0. n \in Nat /\ n = Len(P)
  OBVIOUS
<1>1. F[0] = Nothing /\ FlattenSeq(P) = F[Len(P)]
  BY JoinToRecursion, Zenon
<1>1a. \A k \in 1 .. Len(P) : F[k] = F[k - 1] \o P[k]
  BY JoinToRecursion, Zenon
<1>1b. \A k \in 1 .. n : P[k] = <<s[k]>>
  OBVIOUS
<1> HIDE DEF F
<1>2. 0 \in S
  <2>1. SubSeq(s, 1, 0) = Nothing
    BY SubSeqEmpty DEF Nothing
  <2>2. 0 \in 0 .. n
    BY <1>0
  <2> QED BY <1>1, <2>1, <2>2, Zenon
<1>3. ASSUME NEW k \in 1 .. n, k - 1 \in S PROVE k \in S
  <2>1. F[k] = SubSeq(s, 1, k - 1) \o <<s[k]>>
    BY <1>0, <1>1a, <1>1b, <1>3
  <2>2. 1 \in 1 .. Len(s) /\ k \in 1 .. Len(s)
    BY <1>0
  <2>3. SubSeq(s, 1, k) = SubSeq(s, 1, k - 1) \o <<s[k]>>
    BY <2>2, SubSeqRecursiveSecond
  <2>4. k \in 0 .. n
    BY <1>0
  <2> QED BY <2>1, <2>3, <2>4, Zenon
<1>4. 0 .. n \subseteq S
  <2> HIDE DEF S, n
  <2> QED BY <1>0, <1>2, <1>3, BoundedInduction
<1>5. F[n] = SubSeq(s, 1, n)
  <2>1. n \in 0 .. n
    BY <1>0
  <2> QED BY <2>1, <1>4, Zenon
<1>6. SubSeq(s, 1, n) = s
  BY SubSeqFull
<1> QED BY <1>0, <1>1, <1>5, <1>6, Zenon

-----------------------------------------------------------------------------
(* Digits. *)

Width == CHOOSE f : f = [m \in Nat |-> IF m < 10 THEN 1 ELSE 1 + f[m \div 10]]

(* f counts the digits of the numbers up to n.                              *)
CountsUpto(f, n) ==
  /\ f \in [0 .. n -> Nat]
  /\ \A m \in 0 .. n : f[m] = IF m < 10 THEN 1 ELSE 1 + f[m \div 10]

(* Without its last digit a number is smaller.                              *)
LEMMA TenthSmaller ==
  ASSUME NEW m \in Nat, m >= 10
  PROVE  m \div 10 \in 0 .. m - 1
OBVIOUS

(* The digits can be counted up to any number.                              *)
LEMMA CountsExist ==
  ASSUME NEW n \in Nat
  PROVE  \E f : CountsUpto(f, n)
<1> DEFINE S == {k \in Nat : \E f : CountsUpto(f, k)}
<1>1. 0 \in S
  <2> DEFINE f == [k \in 0 .. 0 |-> 1]
  <2>1. f \in [0 .. 0 -> Nat] /\ \A m \in 0 .. 0 : f[m] = IF m < 10 THEN 1 ELSE 1 + f[m \div 10]
    OBVIOUS
  <2>2. CountsUpto(f, 0)
    BY <2>1 DEF CountsUpto
  <2> HIDE DEF f
  <2> QED BY <2>2
<1>2. ASSUME NEW k \in S PROVE k + 1 \in S
  <2>0. k \in Nat
    OBVIOUS
  <2>1. PICK f : CountsUpto(f, k)
    OBVIOUS
  <2> DEFINE new == IF k + 1 < 10 THEN 1 ELSE 1 + f[(k + 1) \div 10]
             g == [m \in 0 .. k + 1 |-> IF m = k + 1 THEN new ELSE f[m]]
  <2>2. \A m \in 0 .. k : f[m] \in Nat
    BY <2>1 DEF CountsUpto
  <2>3. new \in Nat
    <3>1. CASE k + 1 < 10
      BY <3>1
    <3>2. CASE ~(k + 1 < 10)
      <4>1. (k + 1) \div 10 \in 0 .. k
        BY <2>0, <3>2, TenthSmaller
      <4> QED BY <2>2, <4>1, <3>2
    <3> QED BY <3>1, <3>2
  <2>4. g \in [0 .. k + 1 -> Nat]
    <3> HIDE DEF new
    <3> QED BY <2>0, <2>2, <2>3
  <2>5. ASSUME NEW m \in 0 .. k + 1 PROVE g[m] = IF m < 10 THEN 1 ELSE 1 + g[m \div 10]
    <3>1. ASSUME m >= 10 PROVE m \div 10 \in 0 .. k /\ g[m \div 10] = f[m \div 10]
      <4>1. m \div 10 \in 0 .. m - 1 /\ m \in Nat
        BY <3>1, <2>0, TenthSmaller
      <4>2. m \div 10 \in 0 .. k
        BY <4>1, <2>0
      <4> DEFINE q == m \div 10
      <4> HIDE DEF q, new
      <4>3. q \in 0 .. k => g[q] = f[q]
        BY <2>0
      <4> QED BY <4>2, <4>3 DEF q
    <3>2. CASE m = k + 1
      <4>1. g[m] = new
        <5> HIDE DEF new
        <5> QED BY <3>2
      <4>2. m < 10 => new = 1
        BY <3>2
      <4>3. ~(m < 10) => new = 1 + f[m \div 10] /\ m >= 10
        BY <3>2, <2>0
      <4> HIDE DEF g, new
      <4> QED BY <3>1, <4>1, <4>2, <4>3
    <3>3. CASE m # k + 1
      <4>1. m \in 0 .. k /\ g[m] = f[m]
        <5> HIDE DEF new
        <5> QED BY <3>3, <2>0
      <4>2. f[m] = IF m < 10 THEN 1 ELSE 1 + f[m \div 10]
        BY <4>1, <2>1 DEF CountsUpto
      <4>3. ~(m < 10) => m >= 10
        BY <2>0
      <4> HIDE DEF g
      <4> QED BY <3>1, <4>1, <4>2, <4>3
    <3> QED BY <3>2, <3>3
  <2>6. CountsUpto(g, k + 1)
    <3> HIDE DEF g
    <3> QED BY <2>4, <2>5 DEF CountsUpto
  <2> HIDE DEF g
  <2> QED BY <2>0, <2>6
<1>3. S = Nat
  <2>1. S \in SUBSET Nat
    OBVIOUS
  <2> HIDE DEF S
  <2> QED BY <1>1, <1>2, <2>1, NaturalInduction
<1> QED BY <1>3

(* Two such counts agree.                                                   *)
LEMMA CountsAgree ==
  ASSUME NEW n \in Nat, NEW k \in Nat, NEW f, NEW g, CountsUpto(f, n), CountsUpto(g, k),
         NEW m \in Nat, m <= n, m <= k
  PROVE  f[m] = g[m]
<1> DEFINE S == {i \in Nat : i <= n /\ i <= k /\ f[i] # g[i]}
<1>1. ASSUME NEW i \in S, \A j \in S : i <= j PROVE FALSE
  <2>1. /\ f[i] = IF i < 10 THEN 1 ELSE 1 + f[i \div 10]
        /\ g[i] = IF i < 10 THEN 1 ELSE 1 + g[i \div 10]
    <3>1. i \in 0 .. n /\ i \in 0 .. k
      OBVIOUS
    <3> QED BY <3>1 DEF CountsUpto
  <2>2. ~(i < 10)
    BY <2>1
  <2> DEFINE q == i \div 10
  <2>3. q \in Nat /\ q < i
    BY <2>2, TenthSmaller
  <2>4. f[q] # g[q]
    BY <2>1, <2>2
  <2> HIDE DEF q
  <2>5. q \in S
    BY <2>3, <2>4
  <2> QED BY <1>1, <2>3, <2>5
<1>2. S = {}
  <2>1. S \in SUBSET Nat
    OBVIOUS
  <2> HIDE DEF S
  <2> QED BY <1>1, <2>1, LeastNatural
<1> QED BY <1>2

(* The number of digits of a number is what the code's loop counts.         *)
LEMMA DigitsRecursion ==
  ASSUME NEW n \in Nat
  PROVE  /\ Digits(n) \in Nat
         /\ Digits(n) = IF n < 10 THEN 1 ELSE 1 + Digits(n \div 10)
<1> DEFINE of == [m \in Nat |-> CHOOSE f : CountsUpto(f, m)]
           F == [m \in Nat |-> of[m][m]]
<1>1. ASSUME NEW m \in Nat PROVE CountsUpto(of[m], m)
  <2>1. of[m] = CHOOSE f : CountsUpto(f, m)
    OBVIOUS
  <2> HIDE DEF of
  <2> QED BY <2>1, CountsExist
<1> HIDE DEF of
<1>2. ASSUME NEW m \in Nat PROVE F[m] \in Nat /\ F[m] = IF m < 10 THEN 1 ELSE 1 + F[m \div 10]
  <2>1. F[m] = of[m][m] /\ CountsUpto(of[m], m)
    BY <1>1
  <2>2. F[m] \in Nat /\ F[m] = IF m < 10 THEN 1 ELSE 1 + of[m][m \div 10]
    BY <2>1 DEF CountsUpto
  <2>3. ASSUME ~(m < 10) PROVE of[m][m \div 10] = F[m \div 10]
    <3> DEFINE q == m \div 10
    <3>1. q \in Nat /\ q <= m /\ q <= q
      BY <2>3, TenthSmaller
    <3>2. CountsUpto(of[q], q)
      <4> HIDE DEF q
      <4> QED BY <3>1, <1>1
    <3>3. F[q] = of[q][q]
      <4> HIDE DEF q
      <4> QED BY <3>1
    <3>4. of[m][q] = of[q][q]
      <4> HIDE DEF q
      <4> QED BY <2>1, <3>1, <3>2, CountsAgree
    <3> QED BY <3>3, <3>4
  <2> QED BY <2>2, <2>3
<1>3. F = [m \in Nat |-> IF m < 10 THEN 1 ELSE 1 + F[m \div 10]]
  <2>1. F = [m \in Nat |-> F[m]]
    OBVIOUS
  <2> HIDE DEF F
  <2> QED BY <1>2, <2>1
<1>4. Width = [m \in Nat |-> IF m < 10 THEN 1 ELSE 1 + Width[m \div 10]]
  <2> HIDE DEF F
  <2> QED BY <1>3 DEF Width
<1>5. \A m \in Nat : Width[m] = F[m]
  <2> DEFINE S == {i \in Nat : Width[i] # F[i]}
  <2>1. ASSUME NEW i \in S, \A j \in S : i <= j PROVE FALSE
    <3> HIDE DEF F
    <3>1. /\ Width[i] = IF i < 10 THEN 1 ELSE 1 + Width[i \div 10]
          /\ F[i] = IF i < 10 THEN 1 ELSE 1 + F[i \div 10]
      BY <1>2, <1>4
    <3>2. ~(i < 10)
      BY <3>1
    <3> DEFINE q == i \div 10
    <3>3. q \in Nat /\ q < i
      BY <3>2, TenthSmaller
    <3>4. Width[q] # F[q]
      BY <3>1, <3>2
    <3> HIDE DEF q
    <3>5. q \in S
      BY <3>3, <3>4
    <3> QED BY <2>1, <3>3, <3>5
  <2>2. S = {}
    <3>1. S \in SUBSET Nat
      OBVIOUS
    <3> HIDE DEF S
    <3> QED BY <2>1, <3>1, LeastNatural
  <2> HIDE DEF F
  <2> QED BY <2>2
<1>6. \A m \in Nat : Digits(m) = Width[m]
  BY DEF Digits, Width
<1>7. \A m \in Nat : Width[m] \in Nat /\ Width[m] = IF m < 10 THEN 1 ELSE 1 + Width[m \div 10]
  <2>1. \A m \in Nat : m \div 10 \in Nat
    OBVIOUS
  <2> HIDE DEF F
  <2> QED BY <1>2, <1>4, <1>5, <2>1
<1>8. n \div 10 \in Nat
  OBVIOUS
<1> QED BY <1>6, <1>7, <1>8

(* A larger number has no fewer digits.                                     *)
LEMMA DigitsMonotonic ==
  ASSUME NEW i \in Nat, NEW j \in Nat, i <= j
  PROVE  Digits(i) \in Nat /\ Digits(j) \in Nat /\ 1 <= Digits(i) /\ Digits(i) <= Digits(j)
<1> DEFINE S == {k \in Nat : \E l \in Nat : l <= k /\ ~(1 <= Digits(l) /\ Digits(l) <= Digits(k))}
<1>1. ASSUME NEW k \in S, \A m \in S : k <= m PROVE FALSE
  <2>1. PICK l \in Nat : l <= k /\ ~(1 <= Digits(l) /\ Digits(l) <= Digits(k))
    OBVIOUS
  <2> DEFINE p == l \div 10
             q == k \div 10
  <2>2. /\ Digits(k) \in Nat /\ Digits(k) = IF k < 10 THEN 1 ELSE 1 + Digits(q)
        /\ Digits(l) \in Nat /\ Digits(l) = IF l < 10 THEN 1 ELSE 1 + Digits(p)
    BY DigitsRecursion
  <2>3. p \in Nat /\ q \in Nat /\ p <= q /\ (k >= 10 => q < k)
    BY <2>1
  <2> HIDE DEF p, q
  <2>4. Digits(p) \in Nat /\ Digits(q) \in Nat
    BY <2>3, DigitsRecursion
  <2>5. k < 10 => l < 10
    BY <2>1
  <2>6. ~(k < 10)
    BY <2>1, <2>2, <2>5
  <2>7. q \notin S
    BY <1>1, <2>3, <2>6
  <2>8. 1 <= Digits(p) /\ Digits(p) <= Digits(q)
    BY <2>3, <2>7
  <2> QED BY <2>1, <2>2, <2>4, <2>6, <2>8
<1>2. S = {}
  <2>1. S \in SUBSET Nat
    OBVIOUS
  <2> HIDE DEF S
  <2> QED BY <1>1, <2>1, LeastNatural
<1>3. 1 <= Digits(i) /\ Digits(i) <= Digits(j)
  BY <1>2
<1> QED BY <1>3, DigitsRecursion

-----------------------------------------------------------------------------
(* Statements and values. *)

(* The five marks of a statement differ.                                    *)
LEMMA MarksDiffer ==
  /\ Text # Colon /\ Text # Comma /\ Text # Escape /\ Text # Refused
  /\ Colon # Comma /\ Colon # Escape /\ Colon # Refused
  /\ Comma # Escape /\ Comma # Refused /\ Escape # Refused
<1> DEFINE S1 == {Text}
           S2 == S1 \cup {Colon}
           S3 == S2 \cup {Comma}
           S4 == S3 \cup {Escape}
           S5 == S4 \cup {Refused}
<1>1. IsFiniteSet(S1) /\ Cardinality(S1) = 1
  BY FS_Singleton
<1>2. IsFiniteSet(S2) /\ Cardinality(S2) = IF Colon \in S1 THEN Cardinality(S1) ELSE Cardinality(S1) + 1
  <2> HIDE DEF S1
  <2> QED BY <1>1, FS_AddElement
<1>3. IsFiniteSet(S3) /\ Cardinality(S3) = IF Comma \in S2 THEN Cardinality(S2) ELSE Cardinality(S2) + 1
  <2> HIDE DEF S2
  <2> QED BY <1>2, FS_AddElement
<1>4. IsFiniteSet(S4) /\ Cardinality(S4) = IF Escape \in S3 THEN Cardinality(S3) ELSE Cardinality(S3) + 1
  <2> HIDE DEF S3
  <2> QED BY <1>3, FS_AddElement
<1>5. Cardinality(S5) = IF Refused \in S4 THEN Cardinality(S4) ELSE Cardinality(S4) + 1
  <2> HIDE DEF S4
  <2> QED BY <1>4, FS_AddElement
<1>6. S5 = {Text, Colon, Comma, Escape, Refused}
  OBVIOUS
<1>7. Cardinality(S5) = 5
  BY <1>6, PiecesAssumption
<1>8. Colon \notin S1 /\ Comma \notin S2 /\ Escape \notin S3 /\ Refused \notin S4
  <2> HIDE DEF S1, S2, S3, S4, S5
  <2> QED BY <1>1, <1>2, <1>3, <1>4, <1>5, <1>7
<1> QED BY <1>8

(* What the fragments are made of.                                          *)
Chars == Names \cup {Text, Escape, Refused}

(* Names, marks and numbers do not meet.                                    *)
LEMMA CharsApart ==
  /\ Escape \notin Names /\ Text \notin Names /\ Refused \notin Names
  /\ Colon \notin Names /\ Comma \notin Names
  /\ \A n \in Nat : n \notin Pieces
  /\ Chars \subseteq Pieces /\ Colon \in Pieces /\ Comma \in Pieces
BY PiecesAssumption DEF Chars, Pieces

(* Fragments joined by white space are a sequence of pieces.                *)
LEMMA StatementSeq ==
  ASSUME NEW fs \in Seq(Fragments)
  PROVE  FlattenSeq([k \in DOMAIN fs |->
                       IF k = 1 THEN fs[k] ELSE <<Text>> \o fs[k]]) \in Seq(Chars)
<1> DEFINE P == [k \in DOMAIN fs |->
                   IF k = 1 THEN fs[k] ELSE <<Text>> \o fs[k]]
<1>1. /\ DOMAIN fs = 1 .. Len(fs) /\ Len(fs) \in Nat
      /\ \A k \in DOMAIN fs : fs[k] \in Seq(Chars)
  BY InputsAssumption DEF Chars
<1>2. <<Text>> \in Seq(Chars)
  BY DEF Chars
<1>3. \A k \in DOMAIN fs : P[k] \in Seq(Chars)
  <2>1. \A k \in DOMAIN fs : <<Text>> \o fs[k] \in Seq(Chars)
    BY <1>1, <1>2, ConcatProperties
  <2> QED BY <1>1, <2>1
<1>4. P \in Seq(Seq(Chars))
  BY <1>1, <1>3
<1>5. JoinTo(P) \in [0 .. Len(P) -> Seq(Chars)] /\ FlattenSeq(P) = JoinTo(P)[Len(P)]
  <2> HIDE DEF P
  <2> QED BY <1>4, JoinToRecursion
<1>6. Len(P) \in 0 .. Len(P)
  <2> HIDE DEF P
  <2>1. Len(P) \in Nat
    BY <1>4
  <2> QED BY <2>1
<1>7. FlattenSeq(P) \in Seq(Chars)
  BY <1>5, <1>6
<1> QED BY <1>7

(* A sequence with one more element.                                        *)
LEMMA SeqExtended ==
  ASSUME NEW X, NEW s \in Seq(X), NEW x \in X
  PROVE  /\ Append(s, x) \in Seq(X)
         /\ \E l \in Nat : /\ DOMAIN s = 1 .. l /\ DOMAIN Append(s, x) = 1 .. l + 1
                          /\ Append(s, x)[l + 1] = x
                          /\ \A k \in 1 .. l : Append(s, x)[k] = s[k]
<1> DEFINE l == Len(s)
           t == Append(s, x)
<1>1. t \in Seq(X) /\ Len(t) = l + 1 /\ l \in Nat
  BY AppendProperties, LenProperties
<1>2. DOMAIN s = 1 .. l /\ DOMAIN t = 1 .. l + 1
  <2> HIDE DEF t
  <2> QED BY <1>1, LenProperties
<1>3. \A k \in 1 .. l : t[k] = s[k]
  BY AppendProperties
<1>4. t[l + 1] = x
  BY AppendProperties
<1> QED BY <1>1, <1>2, <1>3, <1>4

(* The scanner's next token, or the end of the statement.                   *)
LEMMA NextTokenIsNext ==
  ASSUME Len(Statement) \in Nat, DOMAIN Statement = 1 .. Len(Statement),
         NEW k \in Nat, k <= Len(Statement)
  PROVE  /\ NextToken(k) \in Tokens \cup {Len(Statement) + 1}
         /\ NextToken(k) \in 1 .. Len(Statement) + 1
         /\ k < NextToken(k)
         /\ \A j \in Tokens : j > k => NextToken(k) <= j
<1> DEFINE S == {j \in Tokens : j > k} \cup {Len(Statement) + 1}
<1>1. S \in SUBSET Nat /\ S # {}
  BY DEF Tokens
<1>2. Min(S) \in S /\ \A j \in S : Min(S) <= j
  <2> HIDE DEF S
  <2> QED BY <1>1, MinNatural
<1>3. NextToken(k) = Min(S)
  BY DEF NextToken
<1> HIDE DEF NextToken
<1>4. Tokens \subseteq 1 .. Len(Statement)
  BY DEF Tokens
<1>5. Min(S) \in Tokens \cup {Len(Statement) + 1} /\ k < Min(S) /\ Min(S) \in Nat
  <2>1. Min(S) \in S /\ S \in SUBSET Nat
    BY <1>1, <1>2
  <2> QED BY <2>1
<1>6. \A j \in Tokens : j > k => Min(S) <= j
  BY <1>2
<1> HIDE DEF S
<1>7. Min(S) \in 1 .. Len(Statement) + 1
  BY <1>4, <1>5
<1> QED BY <1>3, <1>5, <1>6, <1>7

(* A value that may be bound: a list of values is a sequence.               *)
IsValue(v) ==
  /\ v.list \in BOOLEAN /\ v.wrapped \in BOOLEAN
  /\ v = [list |-> v.list, wrapped |-> v.wrapped, of |-> v.of]
  /\ v.list => /\ Len(v.of) \in Nat
               /\ v.of = [k \in 1 .. Len(v.of) |-> v.of[k]]

(* Whatever may be bound is a value in this sense.                          *)
LEMMA ValuesAreValues ==
  ASSUME NEW v \in Values
  PROVE  IsValue(v)
<1>1. /\ v.list \in BOOLEAN /\ v.wrapped \in BOOLEAN
      /\ v = [list |-> v.list, wrapped |-> v.wrapped, of |-> v.of]
      /\ v.list => v.of \in Seq(ToSet(v.of))
  BY InputsAssumption
<1>2. ASSUME v.list
      PROVE  Len(v.of) \in Nat /\ v.of = [k \in 1 .. Len(v.of) |-> v.of[k]]
  <2> DEFINE s == v.of
             X == ToSet(v.of)
  <2>1. s \in Seq(X)
    BY <1>1, <1>2
  <2> HIDE DEF s, X
  <2>2. Len(s) \in Nat /\ s \in [1 .. Len(s) -> X]
    BY <2>1, LenProperties
  <2> QED BY <2>2 DEF s
<1> QED BY <1>1, <1>2 DEF IsValue

(* What a value without an error expands to: at least one argument.         *)
LEMMA ExpandedSeq ==
  ASSUME NEW v, IsValue(v), ListError(v) = None, NEW X, ToSet(Expanded(v)) \subseteq X
  PROVE  /\ Expanded(v) \in Seq(X)
         /\ Len(Expanded(v)) \in Nat /\ Len(Expanded(v)) >= 1
         /\ DOMAIN Expanded(v) = 1 .. Len(Expanded(v))
<1>1. CASE ~Expands(v)
  <2>1. Expanded(v) = <<unwrap(v)>>
    BY <1>1 DEF Expanded
  <2> DEFINE u == unwrap(v)
  <2>2. u \in X
    <3>1. u \in ToSet(<<u>>)
      BY DEF ToSet
    <3> QED BY <2>1, <3>1
  <2> HIDE DEF u
  <2>3. <<u>> \in Seq(X) /\ Len(<<u>>) = 1 /\ DOMAIN <<u>> = 1 .. 1
    BY <2>2
  <2> QED BY <2>1, <2>3 DEF u
<1>2. CASE Expands(v)
  <2> DEFINE s == v.of
             e == [k \in 1 .. Len(s) |-> unwrap(s[k])]
  <2>1. Len(s) \in Nat /\ s = [k \in 1 .. Len(s) |-> s[k]] /\ DOMAIN s = 1 .. Len(s)
    <3>1. v.list
      BY <1>2 DEF Expands
    <3>2. Len(v.of) \in Nat /\ v.of = [k \in 1 .. Len(v.of) |-> v.of[k]]
      BY <3>1 DEF IsValue
    <3> QED BY <3>2
  <2>2. s # <<>>
    <3>1. "empty list" # None
      BY PiecesAssumption DEF Errors
    <3> QED BY <1>2, <3>1 DEF ListError
  <2>3. Len(s) # 0
    <3> HIDE DEF s
    <3>1. ASSUME Len(s) = 0 PROVE s = <<>>
      <4>1. s = [k \in 1 .. 0 |-> s[k]]
        BY <2>1, <3>1
      <4>2. 1 .. 0 = {} /\ DOMAIN s = {}
        BY <4>1
      <4>3. s \in Seq({})
        BY <2>1, <3>1, <4>1, <4>2
      <4> QED BY <4>3, <3>1, EmptySeq
    <3> QED BY <2>2, <3>1
  <2>4. Expanded(v) = e
    BY <1>2, <2>1 DEF Expanded
  <2>5. \A k \in 1 .. Len(s) : unwrap(s[k]) \in X
    <3>1. \A k \in 1 .. Len(s) : e[k] \in ToSet(e)
      BY DEF ToSet
    <3> QED BY <2>4, <3>1
  <2> HIDE DEF s
  <2>6. e \in Seq(X) /\ Len(e) = Len(s) /\ DOMAIN e = 1 .. Len(s)
    BY <2>1, <2>5
  <2> HIDE DEF e
  <2> QED BY <2>1, <2>3, <2>4, <2>6
<1> QED BY <1>1, <1>2

-----------------------------------------------------------------------------
(* The inductive invariant. *)

(* The calls so far.                                                        *)
CallsInv ==
  /\ dialect \in Dialects
  /\ fragments \in Seq(Fragments)
  /\ DOMAIN bindings \subseteq Names
  /\ \A n \in DOMAIN bindings : IsValue(bindings[n])
  /\ order \in Seq(Names)
  /\ ToSet(order) = DOMAIN bindings
  /\ IsInjective(order)
  /\ err \in {None, "invalid name", "duplicate bind"}
  /\ pc \in {"idle", "expand", "returned"}
  /\ turn \in 1 .. Len(Statement) + 1
  /\ pc = "idle" => turn = 1 /\ used = NoSpans

(* The names that have a span are those of the tokens expanded, and none of *)
(* these stands for an unusable value.                                      *)
ScanInv ==
  pc = "expand" =>
    /\ err = None
    /\ Refused \notin ToSet(Statement)
    /\ Tokens # {}
    /\ turn \in Tokens \cup {Len(Statement) + 1}
    /\ \A k \in Tokens : k < turn => k \notin Broken
    /\ DOMAIN used = {Statement[k] : k \in {j \in Tokens : j < turn /\ Statement[j] # Escape}}

Usable(n) == n \in DOMAIN bindings /\ ListError(bindings[n]) = None

(* What the arguments are taken from.                                       *)
ArgumentValues == UNION {ToSet(Expanded(bindings[n])) : n \in DOMAIN bindings}

(* The span of a name holds what its value expands to.                      *)
SpanHolds(n) ==
  LET values == Expanded(bindings[n])
  IN /\ Usable(n)
     /\ used[n] = [start |-> used[n].start, end |-> used[n].end]
     /\ used[n].start \in Nat /\ used[n].end = used[n].start + Len(values)
     /\ used[n].end <= Len(args)
     /\ \A i \in 1 .. Len(values) : args[used[n].start + i] = values[i]

SpansInv ==
  pc # "idle" => /\ args \in Seq(ArgumentValues)
                 /\ \A n \in DOMAIN used : SpanHolds(n)

(* The arguments that the pieces of the statement ask for, where these are  *)
(* question marks.                                                          *)
Asked ==
  [k \in 1 .. Len(Statement) |->
     IF Statement[k] \in Names /\ Usable(Statement[k])
     THEN Expanded(bindings[Statement[k]]) ELSE Nothing]

(* Every argument is that of a name, or of a place.                         *)
ArgsInv ==
  pc = "expand" =>
    IF Numbered
    THEN \A i \in 1 .. Len(args) : \E n \in DOMAIN used : used[n].start < i /\ i <= used[n].end
    ELSE args = JoinTo(Asked)[turn - 1]

(* The bytes reserved for the placeholders of a span, and for a piece.      *)
SpanSize(span) ==
  (span.end - span.start) * (IF Numbered THEN Prefix + Digits(span.end) ELSE 1)
    + ((span.end - span.start) - 1) * 2

Estimate(k) ==
  IF Statement[k] = Escape THEN 1
  ELSE IF Statement[k] \in Names THEN SpanSize(used[Statement[k]])
  ELSE Length(Statement[k])

Reserved ==
  [k \in 1 .. Len(Statement) |-> IF k < turn THEN Estimate(k) ELSE Length(Statement[k])]

SizeInv ==
  /\ size \in Nat
  /\ pc = "expand" => size = Total(Reserved)

(* The statement and its tokens.                                            *)
LEMMA StatementTyped ==
  ASSUME CallsInv
  PROVE  /\ Statement \in Seq(Chars)
         /\ Len(Statement) \in Nat /\ DOMAIN Statement = 1 .. Len(Statement)
         /\ \A k \in 1 .. Len(Statement) : Statement[k] \in Chars
         /\ Tokens \subseteq 1 .. Len(Statement)
         /\ \A k \in 1 .. Len(Statement) : k \in Tokens <=> Statement[k] \in Names \cup {Escape}
<1>1. Statement \in Seq(Chars)
  BY StatementSeq DEF CallsInv, Statement
<1> DEFINE s == Statement
<1>2. s \in Seq(Chars)
  BY <1>1
<1> HIDE DEF s
<1>3. /\ Len(s) \in Nat /\ DOMAIN s = 1 .. Len(s)
      /\ \A k \in 1 .. Len(s) : s[k] \in Chars
  BY <1>2
<1>4. /\ Len(Statement) \in Nat /\ DOMAIN Statement = 1 .. Len(Statement)
      /\ \A k \in 1 .. Len(Statement) : Statement[k] \in Chars
  BY <1>3 DEF s
<1> QED BY <1>1, <1>4 DEF Tokens

(* A step that leaves the calls alone leaves what they say.                 *)
LEMMA SameCalls ==
  ASSUME UNCHANGED <<dialect, builder>>
  PROVE  /\ Statement' = Statement /\ Tokens' = Tokens
         /\ Broken' = Broken /\ Idle' = Idle
         /\ Numbered' = Numbered /\ Prefix' = Prefix
         /\ Asked' = Asked /\ ArgumentValues' = ArgumentValues
<1>1. UNCHANGED <<dialect, fragments, bindings, order>>
  BY DEF builder
<1>2. Statement' = Statement
  BY <1>1 DEF Statement
<1>3. Tokens' = Tokens
  BY <1>2 DEF Tokens
<1>4. Broken' = Broken
  BY <1>1, <1>2, <1>3 DEF Broken, Bound
<1>5. Idle' = Idle
  BY <1>1, <1>2 DEF Idle
<1>6. Numbered' = Numbered /\ Prefix' = Prefix
  BY <1>1 DEF Numbered, Prefix
<1>7. Asked' = Asked
  BY <1>1, <1>2 DEF Asked, Usable
<1>8. ArgumentValues' = ArgumentValues
  BY <1>1 DEF ArgumentValues
<1> QED BY <1>2, <1>3, <1>4, <1>5, <1>6, <1>7, <1>8

(* The next token from any place of the statement.                          *)
LEMMA NextTokenTyped ==
  ASSUME CallsInv, NEW k \in 0 .. Len(Statement)
  PROVE  /\ NextToken(k) \in Tokens \cup {Len(Statement) + 1}
         /\ NextToken(k) \in 1 .. Len(Statement) + 1
         /\ k < NextToken(k)
         /\ \A j \in Tokens : j > k => NextToken(k) <= j
<1>1. k \in Nat /\ k <= Len(Statement)
  BY StatementTyped
<1> QED BY <1>1, StatementTyped, NextTokenIsNext

(* A new builder has had no calls.                                          *)
LEMMA CallsInit ==
  ASSUME Init
  PROVE  CallsInv
<1>1. DOMAIN bindings = {} /\ order = <<>> /\ fragments = <<>>
  BY DEF Init, NoBindings
<1>2. order \in Seq(Names) /\ fragments \in Seq(Fragments) /\ ToSet(order) = {} /\ IsInjective(order)
  BY <1>1 DEF ToSet, IsInjective
<1>3. Len(Statement) \in Nat
  <2>1. Statement \in Seq(Chars)
    BY <1>2, StatementSeq DEF Statement
  <2> DEFINE s == Statement
  <2>2. s \in Seq(Chars)
    BY <2>1
  <2> HIDE DEF s
  <2>3. Len(s) \in Nat
    BY <2>2
  <2> QED BY <2>3 DEF s
<1>4. turn = 1 /\ 1 \in 1 .. Len(Statement) + 1
  BY <1>3 DEF Init
<1> QED BY <1>1, <1>2, <1>4 DEF Init, CallsInv

(* What a call leaves alone, and the three things it may change.            *)
LEMMA CallsStep ==
  ASSUME CallsInv, [Next]_vars
  PROVE  CallsInv'
<1>0. /\ fragments \in Seq(Fragments) /\ order \in Seq(Names)
      /\ \A n \in DOMAIN bindings : IsValue(bindings[n])
      /\ ToSet(order) = DOMAIN bindings /\ IsInjective(order)
      /\ pc = "idle" => turn = 1 /\ used = NoSpans
  BY DEF CallsInv
<1>1. ASSUME NEW f \in Fragments, Write(f) PROVE CallsInv'
  <2>1. /\ fragments' \in Seq(Fragments) /\ turn' = 1
        /\ UNCHANGED <<dialect, bindings, order, err, pc, turn, used>>
    BY <1>0, <1>1, AppendProperties DEF Write, locals
  <2>2. Statement' \in Seq(Chars)
    <3> DEFINE fs == fragments'
    <3>1. fs \in Seq(Fragments)
      BY <2>1
    <3> HIDE DEF fs
    <3>2. FlattenSeq([k \in DOMAIN fs |->
                        IF k = 1 THEN fs[k] ELSE <<Text>> \o fs[k]]) \in Seq(Chars)
      BY <3>1, StatementSeq
    <3> QED BY <3>2 DEF Statement, fs
  <2> DEFINE s == Statement'
  <2>3. s \in Seq(Chars)
    BY <2>2
  <2> HIDE DEF s
  <2>4. 1 \in 1 .. Len(s) + 1
    <3> DEFINE l == Len(s)
    <3>1. l \in Nat
      BY <2>3
    <3> HIDE DEF l
    <3>2. 1 \in 1 .. l + 1
      BY <3>1
    <3> QED BY <3>2 DEF l
  <2> QED BY <2>1, <2>4 DEF s, CallsInv
<1>2. ASSUME NEW n \in Names \cup InvalidNames, BindRefused(n) PROVE CallsInv'
  <2>1. /\ UNCHANGED <<dialect, fragments, bindings, order, pc, turn, used>>
        /\ err' \in {None, "invalid name", "duplicate bind"}
    BY <1>2 DEF BindRefused, locals
  <2>2. Statement' = Statement
    BY <2>1 DEF Statement
  <2> QED BY <2>1, <2>2 DEF CallsInv
<1>3. ASSUME NEW n \in Names \cup InvalidNames, NEW v \in Values, Bind(n, v) PROVE CallsInv'
  <2>1. /\ UNCHANGED <<dialect, fragments, err, pc, turn, used>>
        /\ n \in Names /\ n \notin DOMAIN bindings
        /\ bindings' = With(bindings, n, v) /\ order' = Append(order, n)
    BY <1>3 DEF Bind, Bound, locals
  <2>2. Statement' = Statement
    BY <2>1 DEF Statement
  <2>3. /\ DOMAIN bindings' = {n} \cup DOMAIN bindings
        /\ bindings'[n] = v /\ \A m \in DOMAIN bindings : bindings'[m] = bindings[m]
    BY <2>1 DEF With
  <2>4. \A m \in DOMAIN bindings' : IsValue(bindings'[m])
    BY <1>0, <2>3, ValuesAreValues
  <2>5. PICK l \in Nat : /\ DOMAIN order = 1 .. l /\ DOMAIN order' = 1 .. l + 1
                         /\ order'[l + 1] = n
                         /\ \A k \in 1 .. l : order'[k] = order[k]
    <3> DEFINE s == order
               t == order'
    <3>1. s \in Seq(Names) /\ t = Append(s, n) /\ n \in Names
      BY <1>0, <2>1
    <3> HIDE DEF s, t
    <3>2. \E l \in Nat : /\ DOMAIN s = 1 .. l /\ DOMAIN t = 1 .. l + 1
                         /\ t[l + 1] = n /\ \A k \in 1 .. l : t[k] = s[k]
      BY <3>1, SeqExtended
    <3> QED BY <3>2 DEF s, t
  <2>5a. order' \in Seq(Names)
    BY <1>0, <2>1, AppendProperties
  <2>5b. \A k \in 1 .. l + 1 : k \in 1 .. l \/ k = l + 1
    OBVIOUS
  <2>5c. l + 1 \in 1 .. l + 1 /\ \A k \in 1 .. l : k \in 1 .. l + 1
    OBVIOUS
  <2>6. ToSet(order') = {n} \cup ToSet(order)
    BY <2>5, <2>5b, <2>5c, Zenon DEF ToSet
  <2>7. \A k \in 1 .. l : order[k] # n
    BY <1>0, <2>1, <2>5 DEF ToSet
  <2>8. IsInjective(order')
    <3>1. \A k, m \in 1 .. l : order[k] = order[m] => k = m
      BY <1>0, <2>5 DEF IsInjective
    <3>2. ASSUME NEW k \in 1 .. l + 1, NEW m \in 1 .. l + 1, order'[k] = order'[m]
          PROVE  k = m
      BY <2>5b, <3>1, <3>2, <2>5, <2>7, Zenon
    <3> QED BY <3>2, <2>5, Zenon DEF IsInjective
  <2>9. ToSet(order') = DOMAIN bindings' /\ DOMAIN bindings' \subseteq Names
    BY <1>0, <2>1, <2>3, <2>6 DEF CallsInv
  <2> QED BY <2>1, <2>2, <2>4, <2>5a, <2>8, <2>9 DEF CallsInv
<1>4. ASSUME NEW n \in Names, NEW a \in Atoms, ChangeElement(n, One(a)) PROVE CallsInv'
  <2>1. /\ UNCHANGED <<dialect, fragments, order, err, pc, turn, used>>
        /\ n \in DOMAIN bindings /\ bindings[n].list
    BY <1>4 DEF ChangeElement, Bound, locals
  <2>2. Statement' = Statement
    BY <2>1 DEF Statement
  <2>3. PICK k \in DOMAIN bindings[n].of : bindings' = [bindings EXCEPT ![n].of[k] = One(a)]
    BY <1>4 DEF ChangeElement
  <2> DEFINE v == bindings[n]
             s == v.of
             t == [s EXCEPT ![k] = One(a)]
  <2>4. /\ DOMAIN bindings' = DOMAIN bindings
        /\ bindings'[n] = [v EXCEPT !.of = t]
        /\ \A m \in DOMAIN bindings : m # n => bindings'[m] = bindings[m]
    BY <2>1, <2>3
  <2>5. IsValue([v EXCEPT !.of = t])
    <3>1. /\ v.list \in BOOLEAN /\ v.wrapped \in BOOLEAN /\ v.list
          /\ v = [list |-> v.list, wrapped |-> v.wrapped, of |-> s]
          /\ Len(s) \in Nat /\ s = [l \in 1 .. Len(s) |-> s[l]]
      BY <1>0, <2>1 DEF IsValue
    <3>2. k \in 1 .. Len(s)
      <4> HIDE DEF s
      <4>1. DOMAIN s = 1 .. Len(s)
        BY <3>1
      <4>2. k \in DOMAIN s
        BY DEF s
      <4> QED BY <4>1, <4>2
    <3>3. Len(t) = Len(s) /\ t = [l \in 1 .. Len(t) |-> t[l]]
      <4> HIDE DEF s
      <4> DEFINE X == {s[l] : l \in 1 .. Len(s)} \cup {One(a)}
      <4>1. s \in Seq(X)
        <5> DEFINE m == Len(s)
        <5>1. m \in Nat /\ s = [l \in 1 .. m |-> s[l]] /\ \A l \in 1 .. m : s[l] \in X
          BY <3>1
        <5> HIDE DEF m, X
        <5>2. [l \in 1 .. m |-> s[l]] \in Seq(X)
          BY <5>1
        <5> QED BY <5>1, <5>2
      <4> DEFINE w == One(a)
      <4>2. w \in X
        OBVIOUS
      <4> HIDE DEF X, w
      <4>3. [s EXCEPT ![k] = w] \in Seq(X) /\ Len([s EXCEPT ![k] = w]) = Len(s)
        BY <3>2, <4>1, <4>2, ExceptSeq
      <4>4. t \in Seq(X) /\ Len(t) = Len(s)
        BY <4>3 DEF w
      <4> HIDE DEF t
      <4>5. t \in [1 .. Len(t) -> X]
        BY <4>4, LenProperties
      <4> QED BY <4>4, <4>5
    <3> DEFINE w == [v EXCEPT !.of = t]
    <3> HIDE DEF t
    <3>4. w = [list |-> v.list, wrapped |-> v.wrapped, of |-> t]
      <4> HIDE DEF s
      <4>1. v = [list |-> v.list, wrapped |-> v.wrapped, of |-> s]
        BY <3>1
      <4> HIDE DEF v
      <4>2. w = [v EXCEPT !.of = t]
        BY DEF w
      <4>3. DOMAIN v = {"list", "wrapped", "of"}
        BY <4>1
      <4> HIDE DEF w
      <4>4. w.list = v.list /\ w.wrapped = v.wrapped /\ w.of = t
        BY <4>2, <4>3
      <4>5. w = [x \in {"list", "wrapped", "of"} |-> w[x]]
        BY <4>2, <4>3
      <4> QED BY <4>4, <4>5
    <3>5. w.list = v.list /\ w.wrapped = v.wrapped /\ w.of = t
      BY <3>4
    <3> HIDE DEF s, v, w
    <3>6. IsValue(w)
      BY <3>1, <3>3, <3>4, <3>5 DEF IsValue
    <3> QED BY <3>6 DEF w
  <2>6. \A m \in DOMAIN bindings' : IsValue(bindings'[m])
    <3> HIDE DEF v, t
    <3> QED BY <1>0, <2>4, <2>5
  <2> QED BY <2>1, <2>2, <2>4, <2>6 DEF CallsInv
<1>5. ASSUME UNCHANGED <<dialect, builder>>, pc' \in {"idle", "expand", "returned"},
             turn' \in 1 .. Len(Statement) + 1, pc' = "idle" => turn' = 1 /\ used' = NoSpans
      PROVE  CallsInv'
  <2>1. Statement' = Statement
    BY <1>5, SameCalls
  <2> QED BY <1>5, <2>1 DEF builder, CallsInv
<1> DEFINE N == Len(Statement)
<1>6. N \in Nat /\ Tokens \subseteq 1 .. N /\ turn \in 1 .. N + 1
  BY StatementTyped DEF CallsInv
<1>7. NextToken(0) \in 1 .. N + 1
  <2>1. 0 \in 0 .. N
    <3> HIDE DEF N
    <3> QED BY <1>6
  <2> QED BY <2>1, NextTokenTyped
<1>8. turn \in Tokens => NextToken(turn) \in 1 .. N + 1
  <2>1. turn \in Tokens => turn \in 0 .. N
    <3> HIDE DEF N
    <3> QED BY <1>6
  <2> QED BY <2>1, NextTokenTyped
<1>9. CASE StartBuild
  <2>1. pc' \in {"expand", "returned"} /\ turn' = NextToken(0) /\ UNCHANGED <<dialect, builder>>
    BY <1>9 DEF StartBuild, Return
  <2> QED BY <2>1, <1>5, <1>7
<1>10. CASE SkipEscape
  <2>1. pc = "expand" /\ pc' = pc /\ turn \in Tokens /\ turn' = NextToken(turn) /\ UNCHANGED <<dialect, builder>>
    BY <1>10 DEF SkipEscape
  <2> QED BY <2>1, <1>5, <1>8
<1>11. ASSUME NEW n \in Names, ExpandFirst(n) PROVE CallsInv'
  <2>1. /\ pc' \in {"expand", "returned"} /\ UNCHANGED <<dialect, builder>> /\ turn \in Tokens
        /\ turn' = turn \/ turn' = NextToken(turn)
    BY <1>11 DEF ExpandFirst, Return, locals
  <2> QED BY <2>1, <1>5, <1>6, <1>8
<1>12. ASSUME NEW n \in Names, ExpandAgain(n) PROVE CallsInv'
  <2>1. pc = "expand" /\ pc' = pc /\ turn \in Tokens /\ turn' = NextToken(turn) /\ UNCHANGED <<dialect, builder>>
    BY <1>12 DEF ExpandAgain
  <2> QED BY <2>1, <1>5, <1>8
<1>13. CASE FinishBuild
  <2>1. pc' = "returned" /\ turn' = turn /\ UNCHANGED <<dialect, builder>>
    BY <1>13 DEF FinishBuild, Return, locals
  <2> QED BY <2>1, <1>5, <1>6
<1>14. CASE Done
  <2>1. pc' = "idle" /\ turn' = 1 /\ used' = NoSpans /\ UNCHANGED <<dialect, builder>>
    BY <1>14 DEF Done
  <2>2. 1 \in 1 .. N + 1
    <3> HIDE DEF N
    <3> QED BY <1>6
  <2> QED BY <2>1, <2>2, <1>5
<1>15. CASE UNCHANGED vars
  <2>1. UNCHANGED <<dialect, builder>> /\ pc' = pc /\ turn' = turn /\ used' = used
    BY <1>15 DEF vars
  <2> QED BY <2>1, <1>0, <1>5, <1>6 DEF CallsInv
<1> QED BY <1>1, <1>2, <1>3, <1>4, <1>9, <1>10, <1>11, <1>12, <1>13, <1>14, <1>15 DEF Next

(* A step that leaves the builder idle.                                     *)
LEMMA QuietSteps ==
  ASSUME [Next]_vars
  PROVE  \/ pc' = "idle" /\ size' \in {size, 0}
         \/ StartBuild \/ SkipEscape \/ FinishBuild
         \/ \E n \in Names : ExpandFirst(n) \/ ExpandAgain(n)
         \/ UNCHANGED vars
<1>1. ASSUME NEW f \in Fragments, Write(f) PROVE pc' = "idle" /\ size' = size
  BY <1>1 DEF Write, locals
<1>2. ASSUME NEW n \in Names \cup InvalidNames, BindRefused(n) PROVE pc' = "idle" /\ size' = size
  BY <1>2 DEF BindRefused, locals
<1>3. ASSUME NEW n \in Names \cup InvalidNames, NEW v \in Values, Bind(n, v)
      PROVE  pc' = "idle" /\ size' = size
  BY <1>3 DEF Bind, locals
<1>4. ASSUME NEW n \in Names, NEW a \in Atoms, ChangeElement(n, One(a))
      PROVE  pc' = "idle" /\ size' = size
  BY <1>4 DEF ChangeElement, locals
<1>5. CASE Done
  BY <1>5 DEF Done
<1> QED BY <1>1, <1>2, <1>3, <1>4, <1>5 DEF Next

(* A token done and the next one: no token lies between them.               *)
LEMMA TokenPassed ==
  ASSUME CallsInv, turn \in Tokens
  PROVE  /\ NextToken(turn) \in Tokens \cup {Len(Statement) + 1}
         /\ turn < NextToken(turn)
         /\ \A k \in Tokens : k < NextToken(turn) <=> k < turn \/ k = turn
<1>1. Tokens \subseteq 1 .. Len(Statement) /\ Len(Statement) \in Nat
  BY StatementTyped
<1>2. turn \in 0 .. Len(Statement)
  <2> DEFINE N == Len(Statement)
  <2> HIDE DEF N
  <2>1. Tokens \subseteq 1 .. N /\ N \in Nat
    BY <1>1 DEF N
  <2>2. turn \in 0 .. N
    BY <2>1
  <2> QED BY <2>2 DEF N
<1>3. /\ NextToken(turn) \in Tokens \cup {Len(Statement) + 1}
      /\ NextToken(turn) \in 1 .. Len(Statement) + 1
      /\ turn < NextToken(turn)
      /\ \A j \in Tokens : j > turn => NextToken(turn) <= j
  BY <1>2, NextTokenTyped
<1> DEFINE t == NextToken(turn)
           N == Len(Statement)
<1> HIDE DEF t, N
<1>4. t \in 1 .. N + 1 /\ turn < t /\ \A j \in Tokens : j > turn => t <= j
  BY <1>3 DEF t, N
<1>5. Tokens \subseteq 1 .. N /\ N \in Nat
  BY <1>1 DEF N
<1>6. ASSUME NEW k \in Tokens PROVE k < t <=> k < turn \/ k = turn
  <2>1. k \in Nat /\ turn \in Nat /\ t \in Nat
    BY <1>4, <1>5
  <2>2. k > turn => t <= k
    BY <1>4
  <2> QED BY <1>4, <2>1, <2>2
<1> QED BY <1>3, <1>6 DEF t

(* Min finds a least element.                                               *)
LEMMA FirstIsLeast ==
  ASSUME NEW S \in SUBSET Nat, NEW m \in S, \A k \in S : m <= k
  PROVE  Min(S) = m
<1>1. Min(S) \in S /\ \A k \in S : Min(S) <= k
  BY MinNatural
<1>2. Min(S) <= m /\ m <= Min(S) /\ m \in Nat /\ Min(S) \in Nat
  BY <1>1
<1> QED BY <1>2

(* The tokens passed are those whose names are used.                        *)
LEMMA ScanStep ==
  ASSUME CallsInv, ScanInv, [Next]_vars
  PROVE  ScanInv'
<1>1. CASE pc' # "expand"
  BY <1>1 DEF ScanInv
<1> DEFINE Same == UNCHANGED <<dialect, builder>>
<1>2. ASSUME Same PROVE /\ Statement' = Statement /\ Tokens' = Tokens /\ Broken' = Broken
                        /\ err' = err
  BY <1>2, SameCalls DEF builder
<1>3. CASE StartBuild /\ pc' = "expand"
  <2>1. /\ Same /\ err = None /\ Refused \notin ToSet(Statement) /\ Tokens # {}
        /\ turn' = NextToken(0) /\ used' = NoSpans
    BY <1>3 DEF StartBuild, Return
  <2>2. /\ NextToken(0) \in Tokens \cup {Len(Statement) + 1}
        /\ \A j \in Tokens : j > 0 => NextToken(0) <= j
        /\ NextToken(0) \in Nat
    <3>1. 0 \in 0 .. Len(Statement)
      <4> DEFINE N == Len(Statement)
      <4>1. N \in Nat
        BY StatementTyped
      <4> HIDE DEF N
      <4>2. 0 \in 0 .. N
        BY <4>1
      <4> QED BY <4>2 DEF N
    <3>2. NextToken(0) \in 1 .. Len(Statement) + 1
      BY <3>1, NextTokenTyped
    <3> QED BY <3>1, <3>2, NextTokenTyped
  <2>3. \A k \in Tokens : ~(k < NextToken(0))
    <3>1. \A k \in Tokens : k \in Nat /\ k > 0
      BY StatementTyped
    <3> QED BY <2>2, <3>1
  <2>4. DOMAIN used' = {}
    BY <2>1 DEF NoSpans
  <2>5. {Statement[k] : k \in {j \in Tokens : j < turn' /\ Statement[j] # Escape}} = {}
    BY <2>1, <2>3
  <2> QED BY <1>2, <2>1, <2>2, <2>3, <2>4, <2>5 DEF ScanInv
(* The token at turn is done, and its name is used if it is one.            *)
<1>4. ASSUME pc = "expand", Same, turn \in Tokens, turn \notin Broken, turn' = NextToken(turn),
             DOMAIN used' = IF Statement[turn] = Escape THEN DOMAIN used
                            ELSE DOMAIN used \cup {Statement[turn]}
      PROVE  ScanInv'
  <2>1. /\ turn' \in Tokens \cup {Len(Statement) + 1}
        /\ \A k \in Tokens : k < turn' <=> k < turn \/ k = turn
    BY <1>4, TokenPassed
  <2>2. /\ err = None /\ Refused \notin ToSet(Statement) /\ Tokens # {}
        /\ \A k \in Tokens : k < turn => k \notin Broken
        /\ DOMAIN used = {Statement[k] : k \in {j \in Tokens : j < turn /\ Statement[j] # Escape}}
    BY <1>4 DEF ScanInv
  <2>3. \A k \in Tokens : k < turn' => k \notin Broken
    BY <1>4, <2>1, <2>2
  <2>4. DOMAIN used' = {Statement[k] : k \in {j \in Tokens : j < turn' /\ Statement[j] # Escape}}
    BY <1>4, <2>1, <2>2
  <2> QED BY <1>2, <1>4, <2>1, <2>2, <2>3, <2>4 DEF ScanInv
<1>5. CASE SkipEscape
  <2>1. /\ pc = "expand" /\ Same /\ turn \in Tokens /\ Statement[turn] = Escape
        /\ turn' = NextToken(turn) /\ used' = used
    BY <1>5 DEF SkipEscape
  <2>2. turn \notin Broken
    BY <2>1 DEF Broken
  <2> QED BY <1>4, <2>1, <2>2
<1>6. ASSUME NEW n \in Names, ExpandFirst(n), pc' = "expand" PROVE ScanInv'
  <2>1. /\ pc = "expand" /\ Same /\ turn \in Tokens /\ Statement[turn] = n
        /\ Bound(n) /\ ListError(bindings[n]) = None /\ turn' = NextToken(turn)
        /\ DOMAIN used' = DOMAIN used \cup {n}
    BY <1>6 DEF ExpandFirst, Return, With
  <2>2. turn \notin Broken /\ n # Escape
    BY <2>1, CharsApart DEF Broken
  <2> QED BY <1>4, <2>1, <2>2
<1>7. ASSUME NEW n \in Names, ExpandAgain(n) PROVE ScanInv'
  <2>1. /\ pc = "expand" /\ Same /\ turn \in Tokens /\ Statement[turn] = n
        /\ n \in DOMAIN used /\ turn' = NextToken(turn) /\ used' = used
    BY <1>7 DEF ExpandAgain
  <2>2. PICK k \in Tokens : k < turn /\ Statement[k] = n /\ n # Escape
    BY <2>1 DEF ScanInv
  <2>3. k \notin Broken
    BY <2>1, <2>2 DEF ScanInv
  <2>4. turn \notin Broken
    BY <2>1, <2>2, <2>3 DEF Broken
  <2> QED BY <1>4, <2>1, <2>2, <2>4
<1>8. CASE FinishBuild
  <2>1. pc' = "returned"
    BY <1>8 DEF FinishBuild, Return
  <2> QED BY <1>1, <2>1
<1>9. CASE UNCHANGED vars
  <2>1. Same /\ pc' = pc /\ turn' = turn /\ used' = used
    BY <1>9 DEF vars
  <2> QED BY <1>2, <2>1 DEF ScanInv
<1> QED BY <1>1, <1>3, <1>5, <1>6, <1>7, <1>8, <1>9, QuietSteps

(* When all tokens are passed none is broken, and the names used are those  *)
(* of the statement.                                                        *)
LEMMA AllPassed ==
  ASSUME CallsInv, ScanInv, pc = "expand", turn > Len(Statement)
  PROVE  /\ turn = Len(Statement) + 1 /\ Broken = {}
         /\ \A n \in Names : n \in DOMAIN used <=> n \in ToSet(Statement)
<1> DEFINE N == Len(Statement)
<1>1. /\ N \in Nat /\ DOMAIN Statement = 1 .. N /\ Tokens \subseteq 1 .. N
      /\ \A k \in 1 .. N : k \in Tokens <=> Statement[k] \in Names \cup {Escape}
  BY StatementTyped
<1>2. turn \in 1 .. N + 1 /\ turn > N
  BY DEF CallsInv
<1>3. /\ \A k \in Tokens : k < turn => k \notin Broken
      /\ DOMAIN used = {Statement[k] : k \in {j \in Tokens : j < turn /\ Statement[j] # Escape}}
  BY DEF ScanInv
<1> HIDE DEF N
<1>4. turn = N + 1 /\ \A k \in Tokens : k < turn
  BY <1>1, <1>2
<1>5. Broken = {}
  BY <1>3, <1>4 DEF Broken
<1>6. ASSUME NEW n \in Names PROVE n \in DOMAIN used <=> n \in ToSet(Statement)
  <2>1. n \in DOMAIN used <=> \E k \in Tokens : Statement[k] = n
    BY <1>3, <1>4, CharsApart
  <2>2. (\E k \in Tokens : Statement[k] = n) <=> \E k \in 1 .. N : Statement[k] = n
    BY <1>1
  <2> QED BY <1>1, <2>1, <2>2 DEF ToSet
<1> QED BY <1>4, <1>5, <1>6 DEF N

(* A Build that returns reports the first mistake, as it stands.            *)
LEMMA MistakeStep ==
  ASSUME CallsInv, ScanInv, FirstMistakeReported, [Next]_vars
  PROVE  FirstMistakeReported'
<1> DEFINE Same == UNCHANGED <<dialect, builder>>
           First == IF err # None THEN <<err, None>>
                    ELSE IF Refused \in ToSet(Statement) THEN <<"syntax", None>>
                    ELSE IF Broken # {}
                         THEN LET n == Statement[Min(Broken)]
                              IN <<IF Bound(n) THEN ListError(bindings[n]) ELSE "missing bind", n>>
                    ELSE IF Idle # {} THEN <<"unused bind", order[Min(Idle)]>>
                    ELSE <<None, None>>
<1>1. CASE pc' # "returned"
  BY <1>1 DEF FirstMistakeReported
<1>2. ASSUME Same, pc' = "returned" => <<result'.err, result'.of>> = First
      PROVE  FirstMistakeReported'
  <2>1. /\ Statement' = Statement /\ Broken' = Broken /\ Idle' = Idle
        /\ err' = err /\ order' = order /\ bindings' = bindings
    BY <1>2, SameCalls DEF builder
  <2> QED BY <1>2, <2>1 DEF FirstMistakeReported, Bound
<1>3. \A e, n : Failed(e, n).err = e /\ Failed(e, n).of = n
  BY DEF Failed, NoResult
<1>4. DOMAIN order \subseteq Nat /\ \A k \in DOMAIN order : order[k] \in Names
  <2>1. order \in Seq(Names)
    BY DEF CallsInv
  <2>2. order \in [1 .. Len(order) -> Names]
    BY <2>1, LenProperties
  <2> QED BY <2>2
<1>5. CASE StartBuild
  <2>1. Same
    BY <1>5 DEF StartBuild
  <2>2. CASE err # None
    BY <1>2, <1>3, <1>5, <2>1, <2>2 DEF StartBuild, Return
  <2>3. CASE err = None /\ Refused \in ToSet(Statement)
    BY <1>2, <1>3, <1>5, <2>1, <2>3 DEF StartBuild, Return
  <2>4. CASE err = None /\ Refused \notin ToSet(Statement) /\ Tokens # {}
    <3>1. pc' = "expand"
      BY <1>5, <2>4 DEF StartBuild
    <3> QED BY <1>1, <3>1
  <2>5. CASE err = None /\ Refused \notin ToSet(Statement) /\ Tokens = {}
    <3>1. Broken = {}
      BY <2>5 DEF Broken
    <3>2. Idle = DOMAIN order
      <4>1. \A k \in DOMAIN Statement : Statement[k] \notin Names
        BY <2>5 DEF Tokens
      <4> QED BY <1>4, <4>1 DEF Idle, ToSet
    <3>3. CASE order = <<>>
      <4>1. Idle = {}
        BY <3>2, <3>3
      <4>2. result'.err = None /\ result'.of = None
        BY <1>5, <2>5, <3>3 DEF StartBuild, Return, NoResult
      <4> QED BY <1>2, <2>1, <2>5, <3>1, <4>1, <4>2
    <3>4. CASE order # <<>>
      <4>1. 1 \in DOMAIN order /\ \A k \in DOMAIN order : 1 <= k
        <5>1. order \in Seq(Names)
          BY DEF CallsInv
        <5>2. Len(order) \in Nat \ {0}
          BY <3>4, <5>1, EmptySeq
        <5>3. DOMAIN order = 1 .. Len(order)
          BY <5>1, LenProperties
        <5> DEFINE l == Len(order)
        <5> HIDE DEF l
        <5>4. l \in Nat \ {0} /\ DOMAIN order = 1 .. l
          BY <5>2, <5>3 DEF l
        <5> QED BY <5>4
      <4>2. Idle # {} /\ Min(Idle) = 1
        BY <1>4, <3>2, <4>1, FirstIsLeast
      <4>3. result' = Failed("unused bind", order[1])
        BY <1>5, <2>5, <3>4 DEF StartBuild, Return
      <4> QED BY <1>2, <1>3, <2>1, <2>5, <3>1, <4>2, <4>3
    <3> QED BY <3>3, <3>4
  <2> QED BY <2>2, <2>3, <2>4, <2>5
<1>6. CASE SkipEscape
  BY <1>1, <1>6 DEF SkipEscape
<1>7. ASSUME NEW n \in Names, ExpandFirst(n) PROVE FirstMistakeReported'
  <2>1. pc = "expand" /\ Same /\ turn \in Tokens /\ Statement[turn] = n
    BY <1>7 DEF ExpandFirst
  <2>2. CASE Bound(n) /\ ListError(bindings[n]) = None
    BY <1>1, <1>7, <2>1, <2>2 DEF ExpandFirst
  <2>3. CASE ~(Bound(n) /\ ListError(bindings[n]) = None)
    <3>1. turn \in Broken
      BY <2>1, <2>3, CharsApart DEF Broken
    <3>2. Broken \subseteq Nat /\ \A k \in Broken : turn <= k
      <4>1. Broken \subseteq Tokens /\ Tokens \subseteq 1 .. Len(Statement)
        BY StatementTyped DEF Broken
      <4>2. \A k \in Tokens : k \in Nat
        BY <4>1
      <4>3. \A k \in Broken : ~(k < turn)
        BY <2>1, <4>1 DEF ScanInv
      <4> QED BY <2>1, <4>1, <4>2, <4>3
    <3>3. Min(Broken) = turn
      BY <3>1, <3>2, FirstIsLeast
    <3>4. err = None /\ Refused \notin ToSet(Statement)
      BY <2>1 DEF ScanInv
    <3>5. result' = Failed(IF Bound(n) THEN ListError(bindings[n]) ELSE "missing bind", n)
      BY <1>7, <2>3 DEF ExpandFirst, Return
    <3> QED BY <1>2, <1>3, <2>1, <3>1, <3>3, <3>4, <3>5
  <2> QED BY <2>2, <2>3
<1>8. ASSUME NEW n \in Names, ExpandAgain(n) PROVE FirstMistakeReported'
  BY <1>1, <1>8 DEF ExpandAgain
<1>9. CASE FinishBuild
  <2>1. pc = "expand" /\ Same /\ turn > Len(Statement)
    BY <1>9 DEF FinishBuild
  <2>2. Broken = {} /\ \A n \in Names : n \in DOMAIN used <=> n \in ToSet(Statement)
    BY <2>1, AllPassed
  <2>3. Idle = {k \in DOMAIN order : order[k] \notin DOMAIN used}
    BY <1>4, <2>2 DEF Idle
  <2>4. err = None /\ Refused \notin ToSet(Statement)
    BY <2>1 DEF ScanInv
  <2>5. CASE ToSet(order) \subseteq DOMAIN used
    <3>1. Idle = {}
      BY <2>3, <2>5 DEF ToSet
    <3>2. result'.err = None /\ result'.of = None
      BY <1>9, <2>5 DEF FinishBuild, Return, NoResult
    <3> QED BY <1>2, <2>1, <2>2, <2>4, <3>1, <3>2
  <2>6. CASE ~(ToSet(order) \subseteq DOMAIN used)
    <3>1. Idle # {}
      BY <2>3, <2>6 DEF ToSet
    <3>2. result' = Failed("unused bind", order[Min(Idle)])
      BY <1>9, <2>3, <2>6 DEF FinishBuild, Return, FirstUnused
    <3> QED BY <1>2, <1>3, <2>1, <2>2, <2>4, <3>1, <3>2
  <2> QED BY <2>5, <2>6
<1>10. CASE UNCHANGED vars
  <2>1. Same /\ pc' = pc /\ result' = result
    BY <1>10 DEF vars
  <2>2. pc = "returned" => <<result.err, result.of>> = First
    BY DEF FirstMistakeReported
  <2> QED BY <1>2, <2>1, <2>2
<1> QED BY <1>1, <1>5, <1>6, <1>7, <1>8, <1>9, <1>10, QuietSteps

(* A usable value expands to arguments, at least one.                       *)
LEMMA ExpandedTyped ==
  ASSUME CallsInv, NEW n, Usable(n)
  PROVE  /\ Expanded(bindings[n]) \in Seq(ArgumentValues)
         /\ Len(Expanded(bindings[n])) \in Nat /\ Len(Expanded(bindings[n])) >= 1
         /\ DOMAIN Expanded(bindings[n]) = 1 .. Len(Expanded(bindings[n]))
<1>1. IsValue(bindings[n]) /\ ListError(bindings[n]) = None /\ n \in DOMAIN bindings
  BY DEF CallsInv, Usable
<1>2. ToSet(Expanded(bindings[n])) \subseteq ArgumentValues
  BY <1>1 DEF ArgumentValues
<1> QED BY <1>1, <1>2, ExpandedSeq

(* More arguments leave a span what it is.                                  *)
LEMMA SpanKept ==
  ASSUME CallsInv, args \in Seq(ArgumentValues), NEW more \in Seq(ArgumentValues),
         args' = args \o more, UNCHANGED <<dialect, builder>>,
         NEW n, SpanHolds(n), used'[n] = used[n]
  PROVE  SpanHolds(n)'
<1> DEFINE values == Expanded(bindings[n])
           s == used[n].start
           e == used[n].end
<1>1. /\ Usable(n)
      /\ used[n] = [start |-> s, end |-> e]
      /\ s \in Nat /\ e = s + Len(values) /\ e <= Len(args)
      /\ \A i \in 1 .. Len(values) : args[s + i] = values[i]
  BY DEF SpanHolds
<1>2. /\ Len(args) \in Nat /\ Len(more) \in Nat /\ Len(args') = Len(args) + Len(more)
      /\ \A i \in 1 .. Len(args) : args'[i] = args[i]
  <2>1. /\ Len(args) \in Nat /\ Len(more) \in Nat
        /\ Len(args \o more) = Len(args) + Len(more)
    BY LenProperties, ConcatProperties
  <2>2. \A i \in 1 .. Len(args) + Len(more) :
          (args \o more)[i] = IF i <= Len(args) THEN args[i] ELSE more[i - Len(args)]
    BY ConcatProperties
  <2> DEFINE a == Len(args)
             b == Len(more)
             c == args \o more
  <2> HIDE DEF a, b, c
  <2>3. ASSUME NEW i \in 1 .. a PROVE c[i] = args[i]
    <3>1. i \in 1 .. a + b /\ i <= a
      BY <2>1 DEF a, b
    <3> QED BY <3>1, <2>2 DEF a, b, c
  <2> QED BY <2>1, <2>3 DEF a, c
<1>3. Len(values) \in Nat
  BY <1>1, ExpandedTyped
<1>4. bindings' = bindings
  BY DEF builder
<1> DEFINE l == Len(values)
           a == Len(args)
           b == Len(more)
<1>5. values' = values
  BY <1>4
<1> HIDE DEF l, a, b, s, e
<1>6. e <= a + b /\ \A i \in 1 .. l : s + i \in 1 .. a
  <2>1. s \in Nat /\ e = s + l /\ e <= a /\ l \in Nat /\ a \in Nat /\ b \in Nat
    BY <1>1, <1>2, <1>3 DEF l, a, b
  <2> QED BY <2>1
<1>7. \A i \in 1 .. l : args'[s + i] = values[i]
  BY <1>1, <1>2, <1>6 DEF l, a
<1>8. /\ used'[n] = used[n] /\ used'[n].start = s /\ used'[n].end = e
  BY DEF s, e
<1>9. Usable(n)'
  BY <1>1, <1>4 DEF Usable
<1>10. e <= Len(args')
  BY <1>2, <1>6 DEF a, b
<1> QED BY <1>1, <1>4, <1>7, <1>8, <1>9, <1>10 DEF SpanHolds, l

(* The first expansion of a name fills its span.                            *)
LEMMA SpanFilled ==
  ASSUME CallsInv, args \in Seq(ArgumentValues), UNCHANGED <<dialect, builder>>,
         NEW n, Usable(n), args' = args \o Expanded(bindings[n]),
         used'[n] = [start |-> Len(args), end |-> Len(args) + Len(Expanded(bindings[n]))]
  PROVE  SpanHolds(n)'
<1> DEFINE values == Expanded(bindings[n])
           a == Len(args)
           l == Len(values)
<1>1. values \in Seq(ArgumentValues) /\ l \in Nat /\ a \in Nat
  BY ExpandedTyped, LenProperties
<1>2. /\ Len(args') = a + l
      /\ \A i \in 1 .. a + l : args'[i] = IF i <= a THEN args[i] ELSE values[i - a]
  <2> HIDE DEF values
  <2>1. /\ Len(args \o values) = a + l
        /\ \A i \in 1 .. a + l : (args \o values)[i] = IF i <= a THEN args[i] ELSE values[i - a]
    BY <1>1, ConcatProperties
  <2>2. args' = args \o values
    BY DEF values
  <2> HIDE DEF a, l
  <2> QED BY <2>1, <2>2, Zenon
<1>3. bindings' = bindings /\ values' = values
  BY DEF builder
<1>4. Usable(n)'
  BY <1>3 DEF Usable
<1>5. used'[n].start = a /\ used'[n].end = a + l
  OBVIOUS
<1> HIDE DEF a, l
<1>6. ASSUME NEW i \in 1 .. l PROVE args'[a + i] = values[i]
  <2>1. a + i \in 1 .. a + l /\ ~(a + i <= a) /\ (a + i) - a = i
    BY <1>1
  <2> QED BY <2>1, <1>2
<1>7. a + l <= Len(args') /\ a \in Nat
  BY <1>1, <1>2
<1>8. used'[n] = [start |-> a, end |-> a + l]
  BY DEF a, l
<1> QED BY <1>3, <1>4, <1>5, <1>6, <1>7, <1>8 DEF SpanHolds, l

(* The span of a name is its values, as a part of the arguments.            *)
LEMMA SpanIsExpanded ==
  ASSUME CallsInv, args \in Seq(ArgumentValues), NEW n, SpanHolds(n)
  PROVE  /\ SubSeq(args, used[n].start + 1, used[n].end) = Expanded(bindings[n])
         /\ used[n].start < used[n].end
<1> DEFINE values == Expanded(bindings[n])
           l == Len(values)
           a == Len(args)
           s == used[n].start
           e == used[n].end
           sub == SubSeq(args, s + 1, e)
<1>1. /\ Usable(n) /\ s \in Nat /\ e = s + l /\ e <= a
      /\ \A i \in 1 .. l : args[s + i] = values[i]
  BY DEF SpanHolds
<1>2. values \in Seq(ArgumentValues) /\ l \in Nat /\ l >= 1 /\ a \in Nat
  BY <1>1, ExpandedTyped, LenProperties
<1>3. \A i \in 1 .. a : args[i] \in ArgumentValues
  BY ElementOfSeq
<1> HIDE DEF values, s, e
<1>4. \A i \in s + 1 .. e : args[i] \in ArgumentValues
  <2> HIDE DEF l, a
  <2>1. \A i \in s + 1 .. e : i \in 1 .. a
    BY <1>1, <1>2
  <2> QED BY <2>1, <1>3
<1>5. s + 1 \in Int /\ e \in Int /\ s + 1 <= e /\ e - (s + 1) + 1 = l
  <2> HIDE DEF l, a
  <2> QED BY <1>1, <1>2
<1>6. /\ sub \in Seq(ArgumentValues) /\ Len(sub) = l
      /\ \A i \in 1 .. l : sub[i] = args[(s + 1) + i - 1]
  BY <1>4, <1>5, SubSeqProperties
<1>7. ASSUME NEW i \in 1 .. l PROVE sub[i] = values[i]
  <2>1. (s + 1) + i - 1 = s + i
    BY <1>1
  <2> HIDE DEF sub
  <2> QED BY <2>1, <1>1, <1>6
<1>8. sub = values
  <2> HIDE DEF sub
  <2>1. Len(sub) = Len(values)
    BY <1>6
  <2> QED BY <1>2, <1>6, <1>7, <2>1, SeqEqual
<1>9. s < e
  BY <1>1, <1>2
<1> QED BY <1>8, <1>9 DEF values, s, e

(* Arguments are appended, so that spans keep what they hold.               *)
LEMMA SpansStep ==
  ASSUME CallsInv, ScanInv, SpansInv, [Next]_vars
  PROVE  SpansInv'
<1> DEFINE Same == UNCHANGED <<dialect, builder>>
<1>1. CASE pc' = "idle"
  BY <1>1 DEF SpansInv
<1>2. CASE StartBuild
  <2>1. args' = <<>> /\ used' = NoSpans
    BY <1>2 DEF StartBuild
  <2>2. args' \in Seq(ArgumentValues')
    BY <2>1, EmptySeq
  <2> QED BY <2>1, <2>2 DEF SpansInv, NoSpans
<1>3. ASSUME pc = "expand", Same, args' = args, used' = used PROVE SpansInv'
  <2>1. args \in Seq(ArgumentValues) /\ \A n \in DOMAIN used : SpanHolds(n)
    BY <1>3 DEF SpansInv
  <2>2. ArgumentValues' = ArgumentValues /\ bindings' = bindings
    BY <1>3, SameCalls DEF builder
  <2>3. \A n \in DOMAIN used : SpanHolds(n)'
    BY <1>3, <2>1, <2>2 DEF SpanHolds, Usable
  <2> QED BY <1>3, <2>1, <2>2, <2>3 DEF SpansInv
<1>4. CASE SkipEscape
  BY <1>3, <1>4 DEF SkipEscape
<1>5. CASE FinishBuild
  BY <1>3, <1>5 DEF FinishBuild, locals
<1>6. ASSUME NEW n \in Names, ExpandFirst(n) PROVE SpansInv'
  <2>1. pc = "expand" /\ Same
    BY <1>6 DEF ExpandFirst
  <2>2. args \in Seq(ArgumentValues) /\ \A m \in DOMAIN used : SpanHolds(m)
    BY <2>1 DEF SpansInv
  <2>3. CASE ~Usable(n)
    <3>1. args' = args /\ used' = used
      BY <1>6, <2>3 DEF ExpandFirst, Usable, Bound, locals
    <3> QED BY <1>3, <2>1, <3>1
  <2>4. CASE Usable(n)
    <3> DEFINE values == Expanded(bindings[n])
               span == [start |-> Len(args), end |-> Len(args) + Len(values)]
    <3>1. /\ args' = args \o values /\ used' = With(used, n, span) /\ n \notin DOMAIN used
      BY <1>6, <2>4 DEF ExpandFirst, Usable, Bound
    <3>2. /\ DOMAIN used' = DOMAIN used \cup {n} /\ used'[n] = span
          /\ \A m \in DOMAIN used : used'[m] = used[m]
      <4> HIDE DEF span
      <4> QED BY <3>1 DEF With
    <3>3. values \in Seq(ArgumentValues)
      BY <2>4, ExpandedTyped
    <3>4. SpanHolds(n)'
      BY <2>1, <2>2, <2>4, <3>1, <3>2, SpanFilled
    <3>5. \A m \in DOMAIN used : SpanHolds(m)'
      <4> HIDE DEF values, span
      <4> QED BY <2>1, <2>2, <3>1, <3>2, <3>3, SpanKept
    <3>6. args' \in Seq(ArgumentValues')
      <4>1. ArgumentValues' = ArgumentValues
        BY <2>1, SameCalls
      <4> HIDE DEF values
      <4> QED BY <2>2, <3>1, <3>3, <4>1, ConcatProperties
    <3> QED BY <3>2, <3>4, <3>5, <3>6 DEF SpansInv
  <2> QED BY <2>3, <2>4
<1>7. ASSUME NEW n \in Names, ExpandAgain(n) PROVE SpansInv'
  <2>1. pc = "expand" /\ Same /\ n \in DOMAIN used /\ used' = used
    BY <1>7 DEF ExpandAgain
  <2>2. args \in Seq(ArgumentValues) /\ \A m \in DOMAIN used : SpanHolds(m)
    BY <2>1 DEF SpansInv
  <2>3. CASE Numbered
    <3>1. args' = args
      BY <1>7, <2>3 DEF ExpandAgain
    <3> QED BY <1>3, <2>1, <3>1
  <2>4. CASE ~Numbered
    <3> DEFINE more == SubSeq(args, used[n].start + 1, used[n].end)
    <3>1. args' = args \o more
      BY <1>7, <2>4 DEF ExpandAgain
    <3>2. more \in Seq(ArgumentValues)
      <4>1. more = Expanded(bindings[n]) /\ Usable(n)
        BY <2>1, <2>2, SpanIsExpanded DEF SpanHolds
      <4> QED BY <4>1, ExpandedTyped
    <3> HIDE DEF more
    <3>3. \A m \in DOMAIN used : SpanHolds(m)'
      BY <2>1, <2>2, <3>1, <3>2, SpanKept
    <3>4. args' \in Seq(ArgumentValues')
      <4>1. ArgumentValues' = ArgumentValues
        BY <2>1, SameCalls
      <4> QED BY <2>2, <3>1, <3>2, <4>1, ConcatProperties
    <3> QED BY <2>1, <3>3, <3>4 DEF SpansInv
  <2> QED BY <2>3, <2>4
<1>8. CASE UNCHANGED vars
  <2>1. Same /\ pc' = pc /\ args' = args /\ used' = used
    BY <1>8 DEF vars
  <2>2. ArgumentValues' = ArgumentValues /\ bindings' = bindings
    BY <2>1, SameCalls DEF builder
  <2>3. \A n : SpanHolds(n)' <=> SpanHolds(n)
    BY <2>1, <2>2 DEF SpanHolds, Usable
  <2> QED BY <2>1, <2>2, <2>3 DEF SpansInv
<1> QED BY <1>1, <1>2, <1>4, <1>5, <1>6, <1>7, <1>8, QuietSteps

(* The types are part of what is invariant.                                 *)
LEMMA TypeFromInv ==
  ASSUME CallsInv, SpansInv
  PROVE  TypeOK
<1>1. ASSUME NEW n \in DOMAIN used
      PROVE  used[n] \in Spans /\ used[n].start < used[n].end
  <2>1. CASE pc = "idle"
    BY <2>1 DEF CallsInv, NoSpans
  <2>2. CASE pc # "idle"
    <3>1. args \in Seq(ArgumentValues) /\ SpanHolds(n)
      BY <2>2 DEF SpansInv
    <3>2. used[n].start < used[n].end
      BY <3>1, SpanIsExpanded
    <3> DEFINE s == used[n].start
               e == used[n].end
               a == Len(args)
               l == Len(Expanded(bindings[n]))
    <3>3. /\ s \in Nat /\ e = s + l /\ e <= a /\ a \in Nat /\ l \in Nat
          /\ used[n] = [start |-> s, end |-> e]
      BY <3>1, ExpandedTyped, LenProperties DEF SpanHolds
    <3>4. s \in 0 .. a /\ e \in 0 .. a
      <4> HIDE DEF s, e, a, l
      <4> QED BY <3>3
    <3>5. used[n] \in Spans
      <4> HIDE DEF s, e
      <4> QED BY <3>3, <3>4 DEF Spans
    <3> QED BY <3>2, <3>5
  <2> QED BY <2>1, <2>2
<1> QED BY <1>1 DEF CallsInv, TypeOK

(* What the pieces ask for is a list of arguments each.                     *)
LEMMA AskedTyped ==
  ASSUME CallsInv
  PROVE  /\ Asked \in Seq(Seq(ArgumentValues)) /\ Len(Asked) = Len(Statement)
         /\ JoinTo(Asked) \in [0 .. Len(Statement) -> Seq(ArgumentValues)]
         /\ JoinTo(Asked)[0] = Nothing
         /\ \A k \in 1 .. Len(Statement) : JoinTo(Asked)[k] = JoinTo(Asked)[k - 1] \o Asked[k]
<1> DEFINE N == Len(Statement)
           X == ArgumentValues
<1>1. N \in Nat
  BY StatementTyped
<1>2. ASSUME NEW k \in 1 .. N
      PROVE  (IF Statement[k] \in Names /\ Usable(Statement[k])
              THEN Expanded(bindings[Statement[k]]) ELSE Nothing) \in Seq(X)
  BY ExpandedTyped, NothingJoined
<1>3. Asked \in Seq(Seq(X)) /\ Len(Asked) = N
  <2> HIDE DEF N, X
  <2> QED BY <1>1, <1>2 DEF Asked, N
<1> QED BY <1>3, JoinToRecursion

(* Between two tokens nothing is asked for.                                 *)
LEMMA AskedSkips ==
  ASSUME CallsInv, NEW i \in 0 .. Len(Statement)
  PROVE  JoinTo(Asked)[NextToken(i) - 1] = JoinTo(Asked)[i]
<1> DEFINE N == Len(Statement)
           t == NextToken(i)
<1>1. /\ t \in 1 .. N + 1 /\ i < t /\ \A j \in Tokens : j > i => t <= j
  BY NextTokenTyped
<1>2. /\ N \in Nat /\ i \in 0 .. N
      /\ \A k \in 1 .. N : k \in Tokens <=> Statement[k] \in Names \cup {Escape}
  BY StatementTyped
<1>3. \A k \in 1 .. N : Statement[k] \notin Names => Asked[k] = Nothing
  BY DEF Asked
<1>4. Asked \in Seq(Seq(ArgumentValues)) /\ Len(Asked) = N
  BY AskedTyped
<1> HIDE DEF t, N
<1>5. t - 1 \in i .. N /\ \A k \in i + 1 .. t - 1 : k \in 1 .. N /\ k \notin Tokens
  <2>1. \A k \in i + 1 .. t - 1 : k > i /\ ~(t <= k) /\ k \in 1 .. N
    BY <1>1, <1>2
  <2> QED BY <1>1, <1>2, <2>1
<1>6. \A k \in i + 1 .. t - 1 : Asked[k] = Nothing
  BY <1>2, <1>3, <1>5
<1>7. JoinTo(Asked)[t - 1] = JoinTo(Asked)[i]
  BY <1>2, <1>4, <1>5, <1>6, JoinOverEmpty
<1> QED BY <1>7 DEF t

(* Expanding a token adds the arguments it asks for.                        *)
LEMMA AskedAtTurn ==
  ASSUME CallsInv, turn \in Tokens, NEW part, Asked[turn] = part,
         args = JoinTo(Asked)[turn - 1]
  PROVE  JoinTo(Asked)[NextToken(turn) - 1] = args \o part
<1>1. turn \in 1 .. Len(Statement) /\ Len(Statement) \in Nat
  BY StatementTyped
<1>2. turn \in 0 .. Len(Statement)
  <2> DEFINE N == Len(Statement)
  <2> HIDE DEF N
  <2>1. turn \in 1 .. N /\ N \in Nat
    BY <1>1 DEF N
  <2>2. turn \in 0 .. N
    BY <2>1
  <2> QED BY <2>2 DEF N
<1>3. JoinTo(Asked)[turn] = JoinTo(Asked)[turn - 1] \o Asked[turn]
  BY <1>1, AskedTyped
<1>4. JoinTo(Asked)[NextToken(turn) - 1] = JoinTo(Asked)[turn]
  BY <1>2, AskedSkips
<1> QED BY <1>3, <1>4

(* Question marks have their arguments in order, numbers have theirs.       *)
LEMMA ArgsStep ==
  ASSUME CallsInv, ScanInv, SpansInv, ArgsInv, [Next]_vars
  PROVE  ArgsInv'
<1> DEFINE Same == UNCHANGED <<dialect, builder>>
<1>1. CASE pc' # "expand"
  BY <1>1 DEF ArgsInv
<1>2. ASSUME Same PROVE Asked' = Asked /\ Numbered' = Numbered
  BY <1>2, SameCalls
<1>3. CASE StartBuild
  <2>1. args' = <<>> /\ Same /\ turn' = NextToken(0)
    BY <1>3 DEF StartBuild
  <2>2. 0 \in 0 .. Len(Statement)
    <3> DEFINE N == Len(Statement)
    <3>1. N \in Nat
      BY StatementTyped
    <3> HIDE DEF N
    <3>2. 0 \in 0 .. N
      BY <3>1
    <3> QED BY <3>2 DEF N
  <2>3. JoinTo(Asked)[turn' - 1] = <<>>
    BY <2>1, <2>2, AskedSkips, AskedTyped DEF Nothing
  <2>4. 1 .. Len(args') = {}
    BY <2>1
  <2> QED BY <1>2, <2>1, <2>3, <2>4 DEF ArgsInv
<1>4. CASE SkipEscape
  <2>1. /\ Same /\ args' = args /\ used' = used /\ pc = "expand" /\ turn \in Tokens
        /\ Statement[turn] = Escape /\ turn' = NextToken(turn)
    BY <1>4 DEF SkipEscape
  <2>2. CASE Numbered
    BY <1>2, <2>1, <2>2 DEF ArgsInv
  <2>3. CASE ~Numbered
    <3>1. Asked[turn] = Nothing
      BY <2>1, StatementTyped, CharsApart DEF Asked
    <3>2. args = JoinTo(Asked)[turn - 1] /\ args \in Seq(ArgumentValues)
      BY <2>1, <2>3 DEF ArgsInv, SpansInv
    <3>3. JoinTo(Asked)[turn' - 1] = args \o Nothing
      BY <2>1, <3>1, <3>2, AskedAtTurn
    <3>4. args \o Nothing = args
      BY <3>2, NothingJoined
    <3> QED BY <1>2, <2>1, <2>3, <3>3, <3>4 DEF ArgsInv
  <2> QED BY <2>2, <2>3
<1>5. ASSUME NEW n \in Names, ExpandFirst(n), pc' = "expand" PROVE ArgsInv'
  <2> DEFINE values == Expanded(bindings[n])
             span == [start |-> Len(args), end |-> Len(args) + Len(values)]
  <2>1. /\ Same /\ pc = "expand" /\ turn \in Tokens /\ Statement[turn] = n /\ Usable(n)
        /\ args' = args \o values /\ used' = With(used, n, span) /\ n \notin DOMAIN used
        /\ turn' = NextToken(turn)
    BY <1>5 DEF ExpandFirst, Return, Usable, Bound
  <2>2. args \in Seq(ArgumentValues)
    BY <2>1 DEF SpansInv
  <2>3. CASE Numbered
    <3>1. values \in Seq(ArgumentValues) /\ Len(args) \in Nat /\ Len(values) \in Nat
      BY <2>1, <2>2, ExpandedTyped, LenProperties
    <3>2. Len(args') = Len(args) + Len(values)
      <4> HIDE DEF values
      <4> QED BY <2>1, <2>2, <3>1, ConcatProperties
    <3>3. /\ DOMAIN used' = DOMAIN used \cup {n} /\ used'[n] = span
          /\ \A m \in DOMAIN used : used'[m] = used[m]
      <4> HIDE DEF span
      <4> QED BY <2>1 DEF With
    <3>4. \A i \in 1 .. Len(args) : \E m \in DOMAIN used : used[m].start < i /\ i <= used[m].end
      BY <2>1, <2>3 DEF ArgsInv
    <3> DEFINE a == Len(args)
               l == Len(values)
    <3>5. used'[n].start = a /\ used'[n].end = a + l
      BY <3>3
    <3>6. ASSUME NEW i \in 1 .. a + l
          PROVE  \E m \in DOMAIN used' : used'[m].start < i /\ i <= used'[m].end
      <4>1. CASE i \in 1 .. a
        BY <3>3, <3>4, <4>1
      <4>2. CASE i \notin 1 .. a
        <5> HIDE DEF a, l
        <5>1. a < i /\ i <= a + l
          BY <3>1, <4>2 DEF a, l
        <5> QED BY <3>3, <3>5, <5>1
      <4> QED BY <4>1, <4>2
    <3>7. \A i \in 1 .. Len(args') : \E m \in DOMAIN used' : used'[m].start < i /\ i <= used'[m].end
      <4> HIDE DEF a, l
      <4> QED BY <3>2, <3>6 DEF a, l
    <3> QED BY <1>2, <2>1, <2>3, <3>7 DEF ArgsInv
  <2>4. CASE ~Numbered
    <3>1. Asked[turn] = values
      BY <2>1, StatementTyped DEF Asked
    <3>2. args = JoinTo(Asked)[turn - 1]
      BY <2>1, <2>4 DEF ArgsInv
    <3>3. JoinTo(Asked)[turn' - 1] = args'
      <4> HIDE DEF values
      <4> QED BY <2>1, <3>1, <3>2, AskedAtTurn
    <3> QED BY <1>2, <2>1, <2>4, <3>3 DEF ArgsInv
  <2> QED BY <2>3, <2>4
<1>6. ASSUME NEW n \in Names, ExpandAgain(n) PROVE ArgsInv'
  <2>1. /\ Same /\ pc = "expand" /\ turn \in Tokens /\ Statement[turn] = n /\ n \in DOMAIN used
        /\ used' = used /\ turn' = NextToken(turn)
    BY <1>6 DEF ExpandAgain
  <2>2. CASE Numbered
    <3>1. args' = args
      BY <1>6, <2>2 DEF ExpandAgain
    <3> QED BY <1>2, <2>1, <2>2, <3>1 DEF ArgsInv
  <2>3. CASE ~Numbered
    <3>1. args' = args \o SubSeq(args, used[n].start + 1, used[n].end)
      BY <1>6, <2>3 DEF ExpandAgain
    <3>2. args \in Seq(ArgumentValues) /\ SpanHolds(n) /\ args = JoinTo(Asked)[turn - 1]
      BY <2>1, <2>3 DEF SpansInv, ArgsInv
    <3>3. SubSeq(args, used[n].start + 1, used[n].end) = Expanded(bindings[n]) /\ Usable(n)
      BY <3>2, SpanIsExpanded DEF SpanHolds
    <3>4. Asked[turn] = Expanded(bindings[n])
      BY <2>1, <3>3, StatementTyped DEF Asked
    <3>5. JoinTo(Asked)[turn' - 1] = args'
      BY <2>1, <3>1, <3>2, <3>3, <3>4, AskedAtTurn
    <3> QED BY <1>2, <2>1, <2>3, <3>5 DEF ArgsInv
  <2> QED BY <2>2, <2>3
<1>7. CASE FinishBuild
  BY <1>1, <1>7 DEF FinishBuild, Return
<1>8. CASE UNCHANGED vars
  <2>1. Same /\ pc' = pc /\ args' = args /\ used' = used /\ turn' = turn
    BY <1>8 DEF vars
  <2> QED BY <1>2, <2>1 DEF ArgsInv
<1> QED BY <1>1, <1>3, <1>4, <1>5, <1>6, <1>7, <1>8, QuietSteps

-----------------------------------------------------------------------------
(* Question marks are read by counting them. *)

Count(s, j) == Cardinality({i \in 1 .. j : IsPlaceholder(s[i])})

(* Placeholders are counted one after the other.                            *)
LEMMA CountRecursion ==
  ASSUME NEW s, NEW j \in Nat
  PROVE  /\ Count(s, 0) = 0
         /\ Count(s, j) \in Nat
         /\ Count(s, j + 1) = Count(s, j) + (IF IsPlaceholder(s[j + 1]) THEN 1 ELSE 0)
<1> DEFINE At(k) == {i \in 1 .. k : IsPlaceholder(s[i])}
<1>1. ASSUME NEW k \in Nat PROVE IsFiniteSet(At(k)) /\ Cardinality(At(k)) \in Nat
  <2>1. IsFiniteSet(1 .. k)
    BY FS_Interval
  <2>2. At(k) \subseteq 1 .. k
    OBVIOUS
  <2> QED BY <2>1, <2>2, FS_Subset, FS_CardinalityType
<1>2. At(0) = {} /\ Cardinality({}) = 0
  <2>1. 1 .. 0 = {}
    OBVIOUS
  <2> QED BY <2>1, FS_EmptySet
<1>3. Cardinality(At(j + 1)) = Cardinality(At(j)) + (IF IsPlaceholder(s[j + 1]) THEN 1 ELSE 0)
  <2>0. \A i : i \in 1 .. j + 1 <=> i \in 1 .. j \/ i = j + 1
    OBVIOUS
  <2>1. CASE IsPlaceholder(s[j + 1])
    <3>1. At(j + 1) = At(j) \cup {j + 1}
      BY <2>0, <2>1, Zenon
    <3>2. j + 1 \notin At(j)
      OBVIOUS
    <3> HIDE DEF At
    <3>3. Cardinality(At(j) \cup {j + 1}) = Cardinality(At(j)) + 1
      BY <1>1, <3>2, FS_AddElement
    <3> QED BY <2>1, <3>1, <3>3
  <2>2. CASE ~IsPlaceholder(s[j + 1])
    <3>1. At(j + 1) = At(j)
      BY <2>0, <2>2, Zenon
    <3> HIDE DEF At
    <3> QED BY <1>1, <2>2, <3>1
  <2> QED BY <2>1, <2>2
<1>4. \A k : Count(s, k) = Cardinality(At(k))
  BY DEF Count
<1> HIDE DEF At
<1> QED BY <1>1, <1>2, <1>3, <1>4

(* Counting to a place, and to one before it.                               *)
LEMMA CountBefore ==
  ASSUME NEW s, NEW n \in Nat, NEW k \in 1 .. n
  PROVE  /\ k - 1 \in Nat /\ Count(s, k - 1) \in Nat /\ Count(s, k) \in Nat
         /\ Count(s, k) = Count(s, k - 1) + (IF IsPlaceholder(s[k]) THEN 1 ELSE 0)
<1>1. k - 1 \in Nat /\ (k - 1) + 1 = k /\ k \in Nat
  OBVIOUS
<1>2. /\ Count(s, k - 1) \in Nat
      /\ Count(s, (k - 1) + 1) = Count(s, k - 1) + (IF IsPlaceholder(s[(k - 1) + 1]) THEN 1 ELSE 0)
  BY <1>1, CountRecursion
<1>3. Count(s, k) \in Nat
  BY <1>1, CountRecursion
<1> QED BY <1>1, <1>2, <1>3

(* The count does not fall.                                                 *)
LEMMA CountBounds ==
  ASSUME NEW s, NEW n \in Nat, NEW j \in 1 .. n
  PROVE  /\ Count(s, j) <= Count(s, n)
         /\ IsPlaceholder(s[j]) => Count(s, j) \in 1 .. Count(s, n)
<1> DEFINE S == {k \in 0 .. n : k < j \/ Count(s, j) <= Count(s, k)}
<1>0. Count(s, j) \in Nat /\ Count(s, n) \in Nat
  BY CountRecursion
<1>1. 0 \in S
  OBVIOUS
<1>2. ASSUME NEW k \in 1 .. n, k - 1 \in S PROVE k \in S
  <2>1. /\ Count(s, k - 1) \in Nat /\ Count(s, k) \in Nat
        /\ Count(s, k) = Count(s, k - 1) + (IF IsPlaceholder(s[k]) THEN 1 ELSE 0)
    BY CountBefore
  <2>2. Count(s, k - 1) <= Count(s, k)
    BY <2>1
  <2>3. k - 1 < j => k < j \/ k = j
    OBVIOUS
  <2>4. CASE k = j
    BY <1>0, <2>4
  <2>5. CASE k # j
    BY <1>0, <1>2, <2>1, <2>2, <2>3, <2>5
  <2> QED BY <2>4, <2>5
<1>3. n \in S
  <2>1. 0 .. n \subseteq S
    <3> HIDE DEF S
    <3> QED BY <1>1, <1>2, BoundedInduction
  <2> QED BY <2>1
<1>4. Count(s, j) <= Count(s, n)
  BY <1>3
<1>5. IsPlaceholder(s[j]) => 1 <= Count(s, j)
  <2>1. /\ Count(s, j - 1) \in Nat
        /\ Count(s, j) = Count(s, j - 1) + (IF IsPlaceholder(s[j]) THEN 1 ELSE 0)
    BY CountBefore
  <2> QED BY <2>1
<1> QED BY <1>0, <1>4, <1>5

(* Every number up to the count is that of a question mark.                 *)
LEMMA CountOnto ==
  ASSUME NEW s, NEW n \in Nat, NEW i \in 1 .. Count(s, n)
  PROVE  \E j \in 1 .. n : IsPlaceholder(s[j]) /\ Count(s, j) = i
<1> DEFINE S == {j \in 0 .. n : Count(s, j) >= i}
<1>0. Count(s, n) \in Nat /\ Count(s, 0) = 0
  BY CountRecursion
<1>1. n \in S /\ S \in SUBSET Nat
  BY <1>0
<1>2. PICK j \in S : \A k \in S : j <= k
  <2> HIDE DEF S
  <2> QED BY <1>1, LeastNatural
<1>3. j \in 1 .. n
  BY <1>0
<1>4. /\ Count(s, j - 1) \in Nat /\ Count(s, j) \in Nat
      /\ Count(s, j) = Count(s, j - 1) + (IF IsPlaceholder(s[j]) THEN 1 ELSE 0)
  BY <1>3, CountBefore
<1>5. ~(Count(s, j - 1) >= i)
  <2>1. j - 1 \in 0 .. n /\ ~(j <= j - 1)
    BY <1>3
  <2> QED BY <1>2, <2>1
<1> QED BY <1>0, <1>3, <1>4, <1>5

(* The placeholders of a concatenation.                                     *)
LEMMA CountOfConcatenation ==
  ASSUME NEW X, NEW s \in Seq(X), NEW t \in Seq(X)
  PROVE  /\ \A j \in 0 .. Len(s) : Count(s \o t, j) = Count(s, j)
         /\ \A j \in 0 .. Len(t) : Count(s \o t, Len(s) + j) = Count(s, Len(s)) + Count(t, j)
<1> DEFINE n == Len(s)
           m == Len(t)
           u == s \o t
           S == {j \in 0 .. n : Count(u, j) = Count(s, j)}
           T == {j \in 0 .. m : Count(u, n + j) = Count(s, n) + Count(t, j)}
<1>1. n \in Nat /\ m \in Nat
  OBVIOUS
<1>2. \A k \in 1 .. n + m : u[k] = IF k <= n THEN s[k] ELSE t[k - n]
  BY ConcatProperties
<1> HIDE DEF n, m, u
<1>3. 0 .. n \subseteq S
  <2>1. 0 \in S
    BY <1>1, CountRecursion
  <2>2. ASSUME NEW k \in 1 .. n, k - 1 \in S PROVE k \in S
    <3>1. k \in 1 .. n + m /\ k <= n /\ k \in 0 .. n
      BY <1>1
    <3>2. u[k] = s[k]
      BY <1>2, <3>1
    <3>3. /\ Count(s, k) = Count(s, k - 1) + (IF IsPlaceholder(s[k]) THEN 1 ELSE 0)
          /\ Count(u, k) = Count(u, k - 1) + (IF IsPlaceholder(u[k]) THEN 1 ELSE 0)
      BY <1>1, CountBefore
    <3> QED BY <2>2, <3>1, <3>2, <3>3
  <2> HIDE DEF S
  <2> QED BY <1>1, <2>1, <2>2, BoundedInduction
<1>4. 0 .. m \subseteq T
  <2>1. 0 \in T
    <3>1. Count(u, n) = Count(s, n) /\ Count(s, n) \in Nat /\ Count(t, 0) = 0
      BY <1>1, <1>3, CountRecursion
    <3> QED BY <1>1, <3>1
  <2>2. ASSUME NEW k \in 1 .. m, k - 1 \in T PROVE k \in T
    <3>1. /\ n + k \in 1 .. n + m /\ ~(n + k <= n) /\ (n + k) - n = k /\ k \in 0 .. m
          /\ (n + k) - 1 = n + (k - 1)
      BY <1>1
    <3>2. u[n + k] = t[k]
      BY <1>2, <3>1
    <3>3. /\ Count(t, k - 1) \in Nat /\ Count(s, n) \in Nat
          /\ Count(t, k) = Count(t, k - 1) + (IF IsPlaceholder(t[k]) THEN 1 ELSE 0)
      BY <1>1, CountBefore, CountRecursion
    <3>4. Count(u, n + k) = Count(u, n + (k - 1)) + (IF IsPlaceholder(t[k]) THEN 1 ELSE 0)
      <4>1. n + m \in Nat
        BY <1>1
      <4>2. Count(u, n + k) = Count(u, (n + k) - 1) + (IF IsPlaceholder(u[n + k]) THEN 1 ELSE 0)
        BY <3>1, <4>1, CountBefore
      <4> QED BY <3>1, <3>2, <4>2
    <3>5. Count(u, n + (k - 1)) = Count(s, n) + Count(t, k - 1)
      BY <2>2
    <3>6. Count(u, n + k) = Count(s, n) + Count(t, k)
      BY <3>3, <3>4, <3>5
    <3> QED BY <3>1, <3>6
  <2> HIDE DEF T
  <2> QED BY <1>1, <2>1, <2>2, BoundedInduction
<1> QED BY <1>3, <1>4 DEF n, m, u

-----------------------------------------------------------------------------
(* A statement read with its arguments. *)

(* c with question marks and the arguments g says m.                        *)
ReadsByPlace(c, m, g) ==
  /\ Len(m) = Len(c) /\ Len(g) = Count(c, Len(c))
  /\ \A j \in 1 .. Len(c) : m[j] = IF IsPlaceholder(c[j]) THEN g[Count(c, j)] ELSE c[j]

(* c with numbers and the arguments g says m.                               *)
ReadsByNumber(c, m, g) ==
  /\ Len(m) = Len(c)
  /\ \A j \in 1 .. Len(c) : /\ IsPlaceholder(c[j]) => c[j] \in 1 .. Len(g)
                            /\ m[j] = IF IsPlaceholder(c[j]) THEN g[c[j]] ELSE c[j]

(* The elements of a concatenation.                                         *)
LEMMA ConcatElements ==
  ASSUME NEW X, NEW s \in Seq(X), NEW t \in Seq(X)
  PROVE  /\ Len(s) \in Nat /\ Len(t) \in Nat /\ Len(s \o t) = Len(s) + Len(t)
         /\ \A j \in 1 .. Len(s) : (s \o t)[j] = s[j]
         /\ \A j \in 1 .. Len(t) : (s \o t)[Len(s) + j] = t[j]
<1> DEFINE n == Len(s)
           m == Len(t)
           u == s \o t
<1>1. n \in Nat /\ m \in Nat /\ Len(u) = n + m
  BY ConcatProperties, LenProperties
<1>2. \A k \in 1 .. n + m : u[k] = IF k <= n THEN s[k] ELSE t[k - n]
  BY ConcatProperties
<1> HIDE DEF n, m, u
<1>3. ASSUME NEW j \in 1 .. n PROVE u[j] = s[j]
  <2>1. j \in 1 .. n + m /\ j <= n
    BY <1>1
  <2> QED BY <1>2, <2>1
<1>4. ASSUME NEW j \in 1 .. m PROVE u[n + j] = t[j]
  <2>1. n + j \in 1 .. n + m /\ ~(n + j <= n) /\ (n + j) - n = j
    BY <1>1
  <2> QED BY <1>2, <2>1
<1> QED BY <1>1, <1>3, <1>4 DEF n, m, u

(* A place of a concatenation is one of its parts.                          *)
LEMMA ConcatPlaces ==
  ASSUME NEW n \in Nat, NEW m \in Nat, NEW j \in 1 .. n + m
  PROVE  j \in 1 .. n \/ \E k \in 1 .. m : j = n + k
<1>1. CASE j <= n
  BY <1>1
<1>2. CASE ~(j <= n)
  <2>1. j - n \in 1 .. m /\ j = n + (j - n)
    BY <1>2
  <2> QED BY <2>1
<1> QED BY <1>1, <1>2

(* Statements that read by place can be joined.                             *)
LEMMA PlaceConcat ==
  ASSUME NEW C, NEW M, NEW G,
         NEW c \in Seq(C), NEW m \in Seq(M), NEW g \in Seq(G), ReadsByPlace(c, m, g),
         NEW d \in Seq(C), NEW o \in Seq(M), NEW h \in Seq(G), ReadsByPlace(d, o, h)
  PROVE  ReadsByPlace(c \o d, m \o o, g \o h)
<1> DEFINE a == Len(c)
           b == Len(d)
           e == c \o d
           p == m \o o
           q == g \o h
<1>1. /\ a \in Nat /\ b \in Nat /\ Len(e) = a + b
      /\ \A j \in 1 .. a : e[j] = c[j]
      /\ \A j \in 1 .. b : e[a + j] = d[j]
  BY ConcatElements
<1>2. /\ Len(m) = a /\ Len(o) = b
      /\ \A j \in 1 .. a : m[j] = IF IsPlaceholder(c[j]) THEN g[Count(c, j)] ELSE c[j]
      /\ \A j \in 1 .. b : o[j] = IF IsPlaceholder(d[j]) THEN h[Count(d, j)] ELSE d[j]
      /\ Len(g) = Count(c, a) /\ Len(h) = Count(d, b)
  BY DEF ReadsByPlace
<1>3. /\ Len(p) = a + b
      /\ \A j \in 1 .. a : p[j] = m[j]
      /\ \A j \in 1 .. b : p[a + j] = o[j]
  <2>1. /\ Len(p) = Len(m) + Len(o)
        /\ \A j \in 1 .. Len(m) : p[j] = m[j]
        /\ \A j \in 1 .. Len(o) : p[Len(m) + j] = o[j]
    BY ConcatElements
  <2>2. Len(m) = a /\ Len(o) = b
    BY <1>2
  <2> HIDE DEF a, b, p
  <2> QED BY <2>1, <2>2, Zenon
<1>4. /\ Len(g) \in Nat /\ Len(h) \in Nat /\ Len(q) = Len(g) + Len(h)
      /\ \A j \in 1 .. Len(g) : q[j] = g[j]
      /\ \A j \in 1 .. Len(h) : q[Len(g) + j] = h[j]
  BY ConcatElements
<1>5. /\ \A j \in 0 .. a : Count(e, j) = Count(c, j)
      /\ \A j \in 0 .. b : Count(e, a + j) = Count(c, a) + Count(d, j)
  BY CountOfConcatenation
<1> HIDE DEF a, b, e, p, q
<1>6. Len(q) = Count(e, a + b)
  <2>1. b \in 0 .. b
    BY <1>1
  <2> QED BY <1>2, <1>4, <1>5, <2>1
<1>7. ASSUME NEW j \in 1 .. a
      PROVE  p[j] = IF IsPlaceholder(e[j]) THEN q[Count(e, j)] ELSE e[j]
  <2>1. Count(e, j) = Count(c, j)
    <3>1. j \in 0 .. a
      BY <1>1
    <3> QED BY <1>5, <3>1
  <2>2. IsPlaceholder(c[j]) => Count(c, j) \in 1 .. Len(g)
    BY <1>1, <1>2, CountBounds
  <2>3. IsPlaceholder(c[j]) => q[Count(c, j)] = g[Count(c, j)]
    BY <1>4, <2>2
  <2> QED BY <1>1, <1>2, <1>3, <2>1, <2>3
<1>8. ASSUME NEW k \in 1 .. b
      PROVE  p[a + k] = IF IsPlaceholder(e[a + k]) THEN q[Count(e, a + k)] ELSE e[a + k]
  <2>1. Count(e, a + k) = Len(g) + Count(d, k)
    <3>1. k \in 0 .. b
      BY <1>1
    <3> QED BY <1>2, <1>5, <3>1
  <2>2. IsPlaceholder(d[k]) => Count(d, k) \in 1 .. Len(h)
    BY <1>1, <1>2, CountBounds
  <2>3. IsPlaceholder(d[k]) => q[Len(g) + Count(d, k)] = h[Count(d, k)]
    BY <1>4, <2>2
  <2> QED BY <1>1, <1>2, <1>3, <2>1, <2>3
<1>9. ASSUME NEW j \in 1 .. a + b
      PROVE  p[j] = IF IsPlaceholder(e[j]) THEN q[Count(e, j)] ELSE e[j]
  <2>1. CASE j \in 1 .. a
    BY <1>7, <2>1, Zenon
  <2>2. ASSUME NEW k \in 1 .. b, j = a + k
        PROVE  p[j] = IF IsPlaceholder(e[j]) THEN q[Count(e, j)] ELSE e[j]
    BY <1>8, <2>2, Zenon
  <2>3. j \in 1 .. a \/ \E k \in 1 .. b : j = a + k
    BY <1>1, ConcatPlaces
  <2> QED BY <2>1, <2>2, <2>3, Zenon
<1> QED BY <1>1, <1>3, <1>6, <1>9 DEF ReadsByPlace, e, p, q

(* Statements that read by number can be joined.                            *)
LEMMA NumberConcat ==
  ASSUME NEW C, NEW M, NEW g,
         NEW c \in Seq(C), NEW m \in Seq(M), ReadsByNumber(c, m, g),
         NEW d \in Seq(C), NEW o \in Seq(M), ReadsByNumber(d, o, g)
  PROVE  ReadsByNumber(c \o d, m \o o, g)
<1> DEFINE a == Len(c)
           b == Len(d)
           e == c \o d
           p == m \o o
           Reads(x, y) == /\ IsPlaceholder(x) => x \in 1 .. Len(g)
                          /\ y = IF IsPlaceholder(x) THEN g[x] ELSE x
<1>1. /\ a \in Nat /\ b \in Nat /\ Len(e) = a + b
      /\ \A j \in 1 .. a : e[j] = c[j]
      /\ \A j \in 1 .. b : e[a + j] = d[j]
  BY ConcatElements
<1>2. /\ Len(m) = a /\ Len(o) = b
      /\ \A j \in 1 .. a : Reads(c[j], m[j])
      /\ \A j \in 1 .. b : Reads(d[j], o[j])
  BY DEF ReadsByNumber
<1>3. /\ Len(p) = a + b
      /\ \A j \in 1 .. a : p[j] = m[j]
      /\ \A j \in 1 .. b : p[a + j] = o[j]
  <2>1. /\ Len(p) = Len(m) + Len(o)
        /\ \A j \in 1 .. Len(m) : p[j] = m[j]
        /\ \A j \in 1 .. Len(o) : p[Len(m) + j] = o[j]
    BY ConcatElements
  <2>2. Len(m) = a /\ Len(o) = b
    BY <1>2
  <2> HIDE DEF a, b, p
  <2> QED BY <2>1, <2>2, Zenon
<1> HIDE DEF a, b, e, p, Reads
<1>4. ASSUME NEW j \in 1 .. a + b PROVE Reads(e[j], p[j])
  <2>1. CASE j \in 1 .. a
    BY <1>1, <1>2, <1>3, <2>1, Zenon
  <2>2. ASSUME NEW k \in 1 .. b, j = a + k PROVE Reads(e[j], p[j])
    BY <1>1, <1>2, <1>3, <2>2, Zenon
  <2> QED BY <1>1, <2>1, <2>2, ConcatPlaces
<1>5. Len(p) = Len(e) /\ \A j \in 1 .. Len(e) : Reads(e[j], p[j])
  BY <1>1, <1>3, <1>4
<1> QED BY <1>5 DEF ReadsByNumber, e, p, Reads

(* A list with commas.                                                      *)
LEMMA SeparatedTyped ==
  ASSUME NEW X, NEW s \in Seq(X), Len(s) >= 1
  PROVE  /\ Len(s) \in Nat /\ 2 * Len(s) - 1 \in Nat
         /\ Separated(s) \in Seq(X \cup {Comma}) /\ Len(Separated(s)) = 2 * Len(s) - 1
         /\ \A k \in 1 .. 2 * Len(s) - 1 :
              Separated(s)[k] = IF k % 2 = 1 THEN s[(k + 1) \div 2] ELSE Comma
         /\ \A k \in 1 .. 2 * Len(s) - 1 : k % 2 = 1 => (k + 1) \div 2 \in 1 .. Len(s)
<1> DEFINE l == Len(s)
           n == 2 * l - 1
           t == [k \in 1 .. n |-> IF k % 2 = 1 THEN s[(k + 1) \div 2] ELSE Comma]
<1>1. l \in Nat /\ l >= 1 /\ \A k \in 1 .. l : s[k] \in X
  BY LenProperties, ElementOfSeq
<1> HIDE DEF l
<1>2. n \in Nat /\ \A k \in 1 .. n : k % 2 = 1 => (k + 1) \div 2 \in 1 .. l
  BY <1>1
<1>3. \A k \in 1 .. n : (IF k % 2 = 1 THEN s[(k + 1) \div 2] ELSE Comma) \in X \cup {Comma}
  <2> HIDE DEF n
  <2> QED BY <1>1, <1>2
<1>4. t \in Seq(X \cup {Comma}) /\ Len(t) = n
  <2> HIDE DEF n
  <2> QED BY <1>2, <1>3
<1>5. \A k \in 1 .. n : t[k] = IF k % 2 = 1 THEN s[(k + 1) \div 2] ELSE Comma
  OBVIOUS
<1>6. Separated(s) = t
  BY DEF Separated, l
<1> QED BY <1>1, <1>2, <1>4, <1>5, <1>6 DEF l

(* In a list of question marks every other piece is one.                    *)
LEMMA CountSeparated ==
  ASSUME NEW c, NEW n \in Nat,
         \A k \in 1 .. n : IsPlaceholder(c[k]) <=> k % 2 = 1,
         NEW j \in 0 .. n
  PROVE  Count(c, j) = (j + 1) \div 2
<1> DEFINE S == {k \in 0 .. n : Count(c, k) = (k + 1) \div 2}
<1>1. 0 \in S
  BY CountRecursion
<1>2. ASSUME NEW k \in 1 .. n, k - 1 \in S PROVE k \in S
  <2>1. /\ Count(c, k - 1) \in Nat
        /\ Count(c, k) = Count(c, k - 1) + (IF IsPlaceholder(c[k]) THEN 1 ELSE 0)
    BY CountBefore
  <2>2. Count(c, k - 1) = ((k - 1) + 1) \div 2
    BY <1>2
  <2>3. CASE k % 2 = 1
    BY <2>1, <2>2, <2>3
  <2>4. CASE k % 2 # 1
    BY <2>1, <2>2, <2>4
  <2> QED BY <2>3, <2>4
<1>3. 0 .. n \subseteq S
  <2> HIDE DEF S
  <2> QED BY <1>1, <1>2, BoundedInduction
<1> QED BY <1>3

(* A list of placeholders reads as the list of the arguments they stand for. *)
LEMMA SeparatedByPlace ==
  ASSUME NEW X, NEW s \in Seq(X), NEW Y, NEW p \in Seq(Y), Len(p) = Len(s), Len(s) >= 1,
         \A k \in 1 .. Len(s) : IsPlaceholder(p[k])
  PROVE  ReadsByPlace(Separated(p), Separated(s), s)
<1> DEFINE l == Len(s)
           n == 2 * l - 1
           c == Separated(p)
           m == Separated(s)
<1>1. /\ l \in Nat /\ n \in Nat /\ Len(m) = n
      /\ \A k \in 1 .. n : m[k] = IF k % 2 = 1 THEN s[(k + 1) \div 2] ELSE Comma
  BY SeparatedTyped
<1>2. /\ Len(c) = n
      /\ \A k \in 1 .. n : c[k] = IF k % 2 = 1 THEN p[(k + 1) \div 2] ELSE Comma
      /\ \A k \in 1 .. n : k % 2 = 1 => (k + 1) \div 2 \in 1 .. l
  BY SeparatedTyped
<1>3. \A k \in 1 .. l : IsPlaceholder(p[k])
  OBVIOUS
<1>4. ~IsPlaceholder(Comma)
  BY CharsApart DEF IsPlaceholder
<1>5. l >= 1 /\ n = 2 * l - 1
  OBVIOUS
<1> HIDE DEF l, n, c, m
<1>6. \A k \in 1 .. n : IsPlaceholder(c[k]) <=> k % 2 = 1
  BY <1>2, <1>3, <1>4
<1>7. \A k \in 0 .. n : Count(c, k) = (k + 1) \div 2
  BY <1>1, <1>6, CountSeparated
<1>8. Count(c, n) = l
  <2>1. n \in 0 .. n /\ (n + 1) \div 2 = l
    BY <1>1, <1>5
  <2> QED BY <1>7, <2>1
<1>9. \A k \in 1 .. n : m[k] = IF IsPlaceholder(c[k]) THEN s[Count(c, k)] ELSE c[k]
  <2>1. \A k \in 1 .. n : k \in 0 .. n
    BY <1>1
  <2> QED BY <1>1, <1>2, <1>6, <1>7, <2>1
<1> QED BY <1>1, <1>2, <1>8, <1>9 DEF ReadsByPlace, l, c, m

(* The same for placeholders that are numbers.                              *)
LEMMA SeparatedByNumber ==
  ASSUME NEW X, NEW s \in Seq(X), NEW Y, NEW p \in Seq(Y), Len(p) = Len(s), Len(s) >= 1,
         NEW g,
         \A k \in 1 .. Len(s) : IsPlaceholder(p[k]) /\ p[k] \in 1 .. Len(g) /\ g[p[k]] = s[k]
  PROVE  ReadsByNumber(Separated(p), Separated(s), g)
<1> DEFINE l == Len(s)
           n == 2 * l - 1
           c == Separated(p)
           m == Separated(s)
           Good(k) == IsPlaceholder(p[k]) /\ p[k] \in 1 .. Len(g) /\ g[p[k]] = s[k]
<1>1. /\ n \in Nat /\ Len(m) = n
      /\ \A k \in 1 .. n : m[k] = IF k % 2 = 1 THEN s[(k + 1) \div 2] ELSE Comma
  BY SeparatedTyped
<1>2. /\ Len(c) = n
      /\ \A k \in 1 .. n : c[k] = IF k % 2 = 1 THEN p[(k + 1) \div 2] ELSE Comma
      /\ \A k \in 1 .. n : k % 2 = 1 => (k + 1) \div 2 \in 1 .. l
  BY SeparatedTyped
<1>3. \A k \in 1 .. l : Good(k)
  OBVIOUS
<1>4. ~IsPlaceholder(Comma)
  BY CharsApart DEF IsPlaceholder
<1> HIDE DEF l, n, c, m
<1>5. ASSUME NEW k \in 1 .. n
      PROVE  /\ IsPlaceholder(c[k]) => c[k] \in 1 .. Len(g)
             /\ m[k] = IF IsPlaceholder(c[k]) THEN g[c[k]] ELSE c[k]
  <2>1. CASE k % 2 = 1
    <3> DEFINE i == (k + 1) \div 2
    <3>1. i \in 1 .. l /\ c[k] = p[i] /\ m[k] = s[i]
      BY <1>1, <1>2, <2>1
    <3> HIDE DEF i
    <3> QED BY <1>3, <3>1
  <2>2. CASE k % 2 # 1
    BY <1>1, <1>2, <1>4, <2>2
  <2> QED BY <2>1, <2>2
<1> QED BY <1>1, <1>2, <1>5 DEF ReadsByNumber, c, m

(* Each number of the list occurs.                                          *)
LEMMA SeparatedHolds ==
  ASSUME NEW X, NEW s \in Seq(X), NEW i \in 1 .. Len(s)
  PROVE  \E k \in 1 .. Len(Separated(s)) : Separated(s)[k] = s[i]
<1> DEFINE l == Len(s)
           n == 2 * l - 1
           c == Separated(s)
<1>1. l \in Nat /\ l >= 1 /\ i \in 1 .. l
  <2>1. l \in Nat
    BY LenProperties
  <2> HIDE DEF l
  <2>2. i \in 1 .. l
    BY DEF l
  <2> QED BY <2>1, <2>2
<1>2. /\ Len(c) = n
      /\ \A k \in 1 .. n : c[k] = IF k % 2 = 1 THEN s[(k + 1) \div 2] ELSE Comma
  BY <1>1, SeparatedTyped
<1> HIDE DEF l, c
<1>3. 2 * i - 1 \in 1 .. n /\ (2 * i - 1) % 2 = 1 /\ ((2 * i - 1) + 1) \div 2 = i
  BY <1>1
<1> HIDE DEF n
<1>4. c[2 * i - 1] = s[i]
  BY <1>2, <1>3
<1> QED BY <1>2, <1>3, <1>4 DEF c

(* What is in a part is in the whole.                                       *)
LEMMA JoinContains ==
  ASSUME NEW X, NEW P \in Seq(Seq(X)), NEW k \in 1 .. Len(P), NEW j \in 1 .. Len(P[k])
  PROVE  \E i \in 1 .. Len(FlattenSeq(P)) : FlattenSeq(P)[i] = P[k][j]
<1> DEFINE n == Len(P)
           F == JoinTo(P)
           x == P[k][j]
           S == {l \in 0 .. n : l < k \/ \E i \in 1 .. Len(F[l]) : F[l][i] = x}
<1>1. F \in [0 .. n -> Seq(X)] /\ FlattenSeq(P) = F[n]
  BY JoinToRecursion
<1>1a. \A l \in 1 .. n : F[l] = F[l - 1] \o P[l]
  BY JoinToRecursion
<1>2. n \in Nat /\ \A l \in 1 .. n : P[l] \in Seq(X)
  BY LenProperties, ElementOfSeq
<1>3. k \in 1 .. n /\ j \in 1 .. Len(P[k])
  OBVIOUS
<1> HIDE DEF n, F, x
<1>4. 0 \in S
  BY <1>2, <1>3
<1>5. ASSUME NEW l \in 1 .. n, l - 1 \in S PROVE l \in S
  <2>1. l - 1 \in 0 .. n /\ l \in 0 .. n
    BY <1>2
  <2>2. F[l - 1] \in Seq(X) /\ P[l] \in Seq(X) /\ F[l] = F[l - 1] \o P[l]
    BY <1>1, <1>1a, <1>2, <2>1
  <2> DEFINE s == F[l - 1]
             t == P[l]
             a == Len(s)
             b == Len(t)
  <2>3. /\ a \in Nat /\ b \in Nat /\ Len(s \o t) = a + b
        /\ \A i \in 1 .. a : (s \o t)[i] = s[i]
        /\ \A i \in 1 .. b : (s \o t)[a + i] = t[i]
    <3>1. s \in Seq(X) /\ t \in Seq(X)
      BY <2>2
    <3> HIDE DEF s, t
    <3> QED BY <3>1, ConcatElements, SMTT(30)
  <2>4. /\ Len(F[l]) = a + b
        /\ \A i \in 1 .. a : F[l][i] = s[i]
        /\ \A i \in 1 .. b : F[l][a + i] = t[i]
    <3> HIDE DEF a, b
    <3> QED BY <2>2, <2>3, Zenon
  <2>5. CASE l < k
    BY <2>1, <2>5
  <2>6. CASE l = k
    <3>1. j \in 1 .. b /\ t[j] = x
      BY <1>3, <2>6 DEF x
    <3> HIDE DEF s, t, a, b
    <3>2. F[l][a + j] = x /\ a + j \in 1 .. a + b
      BY <2>3, <2>4, <3>1
    <3> QED BY <2>1, <2>4, <3>2
  <2>7. CASE l > k
    <3>1. ~(l - 1 < k)
      BY <1>3, <2>7
    <3>2. PICK i \in 1 .. a : s[i] = x
      BY <1>5, <3>1
    <3> HIDE DEF s, t, a, b
    <3>3. F[l][i] = x /\ i \in 1 .. a + b
      BY <2>3, <2>4, <3>2, SMTT(30)
    <3> QED BY <2>1, <2>4, <3>3
  <2> QED BY <1>3, <2>5, <2>6, <2>7
<1>6. n \in S
  <2>1. 0 .. n \subseteq S
    <3> HIDE DEF S
    <3> QED BY <1>2, <1>4, <1>5, BoundedInduction
  <2> QED BY <1>2, <2>1
<1>7. \E i \in 1 .. Len(F[n]) : F[n][i] = x
  BY <1>3, <1>6
<1> QED BY <1>1, <1>7 DEF x

-----------------------------------------------------------------------------
(* The compiled statement. *)

Out == Pieces \cup Nat

Said == Pieces \cup ArgumentValues

CompiledParts ==
  [k \in DOMAIN Statement |->
     CASE Statement[k] = Escape   -> <<Colon>>
       [] Statement[k] \in Names  -> writePlaceholders(used[Statement[k]])
       [] OTHER                   -> <<Statement[k]>>]

MeantParts ==
  [k \in DOMAIN Statement |->
     CASE Statement[k] = Escape  -> <<Colon>>
       [] Statement[k] \in Names -> Separated(Expanded(bindings[Statement[k]]))
       [] OTHER                  -> <<Statement[k]>>]

(* When all tokens are passed.                                              *)
AllDone == /\ CallsInv /\ ScanInv /\ SpansInv /\ ArgsInv
           /\ pc = "expand" /\ turn > Len(Statement)

(* The placeholders of a name that is expanded.                             *)
LEMMA PlacesTyped ==
  ASSUME AllDone, NEW k \in 1 .. Len(Statement), Statement[k] \in Names
  PROVE  LET span   == used[Statement[k]]
             values == Expanded(bindings[Statement[k]])
             places == [i \in 1 .. span.end - span.start |-> Placeholder(span.start + i)]
         IN /\ Statement[k] \in DOMAIN used /\ SpanHolds(Statement[k])
            /\ span.start \in Nat /\ span.end - span.start = Len(values)
            /\ values \in Seq(ArgumentValues) /\ Len(values) \in Nat /\ Len(values) >= 1
            /\ places \in Seq(Nat) /\ Len(places) = Len(values)
            /\ \A i \in 1 .. Len(values) : places[i] = Placeholder(span.start + i)
<1> DEFINE n == Statement[k]
           span == used[n]
           values == Expanded(bindings[n])
           l == Len(values)
           places == [i \in 1 .. span.end - span.start |-> Placeholder(span.start + i)]
<1>1. n \in DOMAIN used
  <2>1. n \in ToSet(Statement)
    BY StatementTyped DEF AllDone, ToSet
  <2> QED BY <2>1, AllPassed DEF AllDone
<1>2. SpanHolds(n)
  BY <1>1 DEF AllDone, SpansInv
<1>3. span.start \in Nat /\ span.end = span.start + l /\ Usable(n)
  BY <1>2 DEF SpanHolds
<1>4. values \in Seq(ArgumentValues) /\ l \in Nat /\ l >= 1
  BY <1>3, ExpandedTyped DEF AllDone
<1> HIDE DEF n, span, values
<1>5. span.end - span.start = l
  <2> HIDE DEF l
  <2> QED BY <1>3, <1>4
<1>6. \A i \in 1 .. l : Placeholder(span.start + i) \in Nat
  <2> HIDE DEF l
  <2> QED BY <1>3, <1>4 DEF Placeholder
<1>7. places = [i \in 1 .. l |-> Placeholder(span.start + i)]
  BY <1>5
<1>8. places \in Seq(Nat) /\ Len(places) = l /\ \A i \in 1 .. l : places[i] = Placeholder(span.start + i)
  <2> HIDE DEF l, places
  <2> QED BY <1>4, <1>6, <1>7
<1> QED BY <1>1, <1>2, <1>3, <1>4, <1>5, <1>8 DEF n, span, values

(* Every piece is compiled to what it means.                                *)
LEMMA PartsTyped ==
  ASSUME AllDone, NEW k \in 1 .. Len(Statement)
  PROVE  /\ CompiledParts[k] \in Seq(Out) /\ MeantParts[k] \in Seq(Said)
         /\ Numbered => ReadsByNumber(CompiledParts[k], MeantParts[k], args)
         /\ ~Numbered => ReadsByPlace(CompiledParts[k], MeantParts[k], Asked[k])
<1> DEFINE p == Statement[k]
<1>1. p \in Chars /\ k \in DOMAIN Statement
  BY StatementTyped DEF AllDone
<1>2. ASSUME NEW q \in Pieces, CompiledParts[k] = <<q>>, MeantParts[k] = <<q>>, Asked[k] = Nothing
      PROVE  /\ CompiledParts[k] \in Seq(Out) /\ MeantParts[k] \in Seq(Said)
             /\ Numbered => ReadsByNumber(CompiledParts[k], MeantParts[k], args)
             /\ ~Numbered => ReadsByPlace(CompiledParts[k], MeantParts[k], Asked[k])
  <2>1. <<q>> \in Seq(Out) /\ <<q>> \in Seq(Said)
    <3>1. q \in Out /\ q \in Said
      BY DEF Out, Said
    <3> QED BY <3>1
  <2>2. Len(<<q>>) = 1 /\ <<q>>[1] = q /\ ~IsPlaceholder(q)
    BY DEF IsPlaceholder
  <2>3. \A j \in 1 .. 1 : j = 1
    OBVIOUS
  <2>4. ReadsByNumber(<<q>>, <<q>>, args)
    BY <2>2, <2>3 DEF ReadsByNumber
  <2>5. Count(<<q>>, 1) = 0
    <3>1. 0 \in Nat /\ 0 + 1 = 1
      OBVIOUS
    <3>2. Count(<<q>>, 0 + 1) = Count(<<q>>, 0) + (IF IsPlaceholder(<<q>>[0 + 1]) THEN 1 ELSE 0)
      BY <3>1, CountRecursion
    <3>3. Count(<<q>>, 0) = 0
      BY <3>1, CountRecursion
    <3> QED BY <2>2, <3>1, <3>2, <3>3
  <2>6. ReadsByPlace(<<q>>, <<q>>, Nothing)
    BY <2>2, <2>3, <2>5, NothingJoined DEF ReadsByPlace
  <2> QED BY <1>2, <2>1, <2>4, <2>6
<1>3. CASE p = Escape
  <2>1. CompiledParts[k] = <<Colon>> /\ MeantParts[k] = <<Colon>> /\ Asked[k] = Nothing
    BY <1>1, <1>3, CharsApart DEF CompiledParts, MeantParts, Asked
  <2> QED BY <1>2, <2>1, CharsApart
<1>4. CASE p \notin Names /\ p # Escape
  <2>1. CompiledParts[k] = <<p>> /\ MeantParts[k] = <<p>> /\ Asked[k] = Nothing
    BY <1>1, <1>4 DEF CompiledParts, MeantParts, Asked
  <2>2. p \in Pieces
    BY <1>1, CharsApart
  <2> HIDE DEF p
  <2> QED BY <1>2, <2>1, <2>2
<1>5. CASE p \in Names
  <2> DEFINE span   == used[p]
             values == Expanded(bindings[p])
             places == [i \in 1 .. span.end - span.start |-> Placeholder(span.start + i)]
             l      == Len(values)
  <2>1. /\ p \in DOMAIN used /\ SpanHolds(p) /\ span.start \in Nat
        /\ values \in Seq(ArgumentValues) /\ l \in Nat /\ l >= 1
        /\ places \in Seq(Nat) /\ Len(places) = l
        /\ \A i \in 1 .. l : places[i] = Placeholder(span.start + i)
    BY <1>5, PlacesTyped
  <2>2. CompiledParts[k] = Separated(places) /\ MeantParts[k] = Separated(values)
    BY <1>1, <1>5, CharsApart DEF CompiledParts, MeantParts, writePlaceholders
  <2>3. Asked[k] = values
    BY <1>5, <2>1 DEF Asked, SpanHolds
  <2>4. Separated(places) \in Seq(Out) /\ Separated(values) \in Seq(Said)
    <3> HIDE DEF places, values
    <3>1. Separated(places) \in Seq(Nat \cup {Comma})
      BY <2>1, SeparatedTyped DEF l
    <3>2. Separated(values) \in Seq(ArgumentValues \cup {Comma})
      BY <2>1, SeparatedTyped DEF l
    <3>3. Nat \cup {Comma} \subseteq Out /\ ArgumentValues \cup {Comma} \subseteq Said
      BY CharsApart DEF Out, Said
    <3> QED BY <3>1, <3>2, <3>3, SeqMonotonic
  <2>5. /\ span.start + l <= Len(args)
        /\ \A i \in 1 .. l : args[span.start + i] = values[i]
    BY <2>1 DEF SpanHolds
  <2>6. Len(args) \in Nat
    <3>1. args \in Seq(ArgumentValues)
      BY DEF AllDone, SpansInv
    <3> QED BY <3>1, LenProperties
  <2>7. Numbered => ReadsByNumber(Separated(places), Separated(values), args)
    <3> DEFINE s == span.start
               a == Len(args)
    <3>1. ASSUME Numbered, NEW i \in 1 .. l
          PROVE  IsPlaceholder(places[i]) /\ places[i] \in 1 .. Len(args) /\ args[places[i]] = values[i]
      <4>1. places[i] = s + i
        BY <2>1, <3>1 DEF Placeholder
      <4>2. s + i \in 1 .. a /\ s + i \in Nat
        <5> HIDE DEF s, a, l
        <5>1. s \in Nat /\ l \in Nat /\ a \in Nat /\ s + l <= a
          BY <2>1, <2>5, <2>6 DEF s, a, l
        <5> QED BY <5>1
      <4> HIDE DEF places, values
      <4> QED BY <2>5, <4>1, <4>2, CharsApart DEF IsPlaceholder
    <3> HIDE DEF places, values
    <3> QED BY <2>1, <3>1, SeparatedByNumber DEF l
  <2>8. ~Numbered => ReadsByPlace(Separated(places), Separated(values), values)
    <3>1. ASSUME ~Numbered, NEW i \in 1 .. l PROVE IsPlaceholder(places[i])
      <4>1. places[i] = 0
        BY <2>1, <3>1 DEF Placeholder
      <4> HIDE DEF places
      <4> QED BY <4>1, CharsApart DEF IsPlaceholder
    <3> HIDE DEF places, values
    <3> QED BY <2>1, <3>1, SeparatedByPlace DEF l
  <2> HIDE DEF places, values
  <2> QED BY <2>2, <2>3, <2>4, <2>7, <2>8
<1> QED BY <1>3, <1>4, <1>5

(* Statement and arguments say what is meant, up to every piece.            *)
LEMMA CompiledReads ==
  ASSUME AllDone
  PROVE  /\ Compiled \in Seq(Out) /\ Meant \in Seq(Said)
         /\ Numbered => ReadsByNumber(Compiled, Meant, args)
         /\ ~Numbered => ReadsByPlace(Compiled, Meant, args)
<1> DEFINE N == Len(Statement)
           C == CompiledParts
           M == MeantParts
           G == Asked
           FC == JoinTo(C)
           FM == JoinTo(M)
           FG == JoinTo(G)
           X == ArgumentValues
           Good(k) == /\ Numbered => ReadsByNumber(FC[k], FM[k], args)
                      /\ ~Numbered => ReadsByPlace(FC[k], FM[k], FG[k])
           S == {k \in 0 .. N : Good(k)}
<1>1. N \in Nat /\ DOMAIN Statement = 1 .. N
  BY StatementTyped DEF AllDone
<1>2. /\ \A k \in 1 .. N : C[k] \in Seq(Out) /\ M[k] \in Seq(Said)
      /\ \A k \in 1 .. N : /\ Numbered => ReadsByNumber(C[k], M[k], args)
                           /\ ~Numbered => ReadsByPlace(C[k], M[k], G[k])
  BY PartsTyped
<1>3. C \in Seq(Seq(Out)) /\ Len(C) = N /\ M \in Seq(Seq(Said)) /\ Len(M) = N
  <2>1. C = [k \in 1 .. N |-> C[k]] /\ M = [k \in 1 .. N |-> M[k]]
    BY <1>1 DEF CompiledParts, MeantParts
  <2> HIDE DEF N, C, M
  <2> QED BY <1>1, <1>2, <2>1, SMTT(30)
<1>4. G \in Seq(Seq(X)) /\ Len(G) = N
  BY AskedTyped DEF AllDone
<1>5. Compiled = FlattenSeq(C) /\ Meant = FlattenSeq(M)
  BY DEF Compiled, Meant, CompiledParts, MeantParts
<1>6. ~Numbered => args = FG[N]
  <2>1. turn = N + 1
    BY AllPassed DEF AllDone
  <2>2. turn - 1 = N
    <3> HIDE DEF N
    <3> QED BY <1>1, <2>1
  <2> QED BY <2>2 DEF AllDone, ArgsInv
<1> HIDE DEF N, C, M, G, X
<1>7. /\ FC \in [0 .. N -> Seq(Out)] /\ FC[0] = Nothing /\ FlattenSeq(C) = FC[N]
      /\ \A k \in 1 .. N : FC[k] = FC[k - 1] \o C[k]
  BY <1>3, JoinToRecursion
<1>8. /\ FM \in [0 .. N -> Seq(Said)] /\ FM[0] = Nothing /\ FlattenSeq(M) = FM[N]
      /\ \A k \in 1 .. N : FM[k] = FM[k - 1] \o M[k]
  BY <1>3, JoinToRecursion
<1>9. /\ FG \in [0 .. N -> Seq(X)] /\ FG[0] = Nothing
      /\ \A k \in 1 .. N : FG[k] = FG[k - 1] \o G[k]
  BY <1>4, JoinToRecursion
<1> HIDE DEF FC, FM, FG
<1>10. 0 \in S
  <2>1. Len(Nothing) = 0 /\ 1 .. 0 = {} /\ Count(Nothing, 0) = 0
    <3>1. 0 \in Nat
      OBVIOUS
    <3> QED BY <3>1, NothingJoined, CountRecursion
  <2>2. ReadsByNumber(Nothing, Nothing, args) /\ ReadsByPlace(Nothing, Nothing, Nothing)
    BY <2>1 DEF ReadsByNumber, ReadsByPlace
  <2>3. 0 \in 0 .. N
    BY <1>1
  <2> QED BY <1>7, <1>8, <1>9, <2>2, <2>3, Zenon
<1>11. ASSUME NEW k \in 1 .. N, k - 1 \in S PROVE k \in S
  <2>1. k - 1 \in 0 .. N /\ k \in 0 .. N
    BY <1>1
  <2>2. /\ FC[k - 1] \in Seq(Out) /\ FM[k - 1] \in Seq(Said) /\ FG[k - 1] \in Seq(X)
        /\ C[k] \in Seq(Out) /\ M[k] \in Seq(Said)
    BY <1>2, <1>7, <1>8, <1>9, <2>1
  <2>3. G[k] \in Seq(X)
    BY <1>4, ElementOfSeq
  <2>4. Good(k - 1)
    BY <1>11
  <2>5. Numbered => ReadsByNumber(FC[k - 1] \o C[k], FM[k - 1] \o M[k], args)
    BY <1>2, <2>2, <2>4, NumberConcat
  <2>6. ~Numbered => ReadsByPlace(FC[k - 1] \o C[k], FM[k - 1] \o M[k], FG[k - 1] \o G[k])
    BY <1>2, <2>2, <2>3, <2>4, PlaceConcat
  <2>7. Good(k)
    BY <1>7, <1>8, <1>9, <2>5, <2>6, Zenon
  <2> QED BY <2>1, <2>7
<1>12. N \in S /\ N \in 0 .. N
  <2>1. 0 .. N \subseteq S
    <3> HIDE DEF S
    <3> QED BY <1>1, <1>10, <1>11, BoundedInduction
  <2> QED BY <1>1, <2>1
<1>13. Good(N) /\ FC[N] \in Seq(Out) /\ FM[N] \in Seq(Said)
  BY <1>7, <1>8, <1>12
<1> QED BY <1>5, <1>6, <1>7, <1>8, <1>13

(* Every argument has its number in the statement.                          *)
LEMMA CompiledCovers ==
  ASSUME AllDone, Numbered, NEW i \in 1 .. Len(args)
  PROVE  \E j \in 1 .. Len(Compiled) : Compiled[j] = i
<1>1. PICK n \in DOMAIN used : used[n].start < i /\ i <= used[n].end
  BY DEF AllDone, ArgsInv
<1>2. PICK k \in Tokens : Statement[k] # Escape /\ Statement[k] = n
  BY DEF AllDone, ScanInv
<1>3. k \in 1 .. Len(Statement) /\ n \in Names /\ k \in DOMAIN Statement
  BY <1>2, StatementTyped DEF AllDone
<1> DEFINE span   == used[n]
           values == Expanded(bindings[n])
           places == [x \in 1 .. span.end - span.start |-> Placeholder(span.start + x)]
           l      == Len(values)
           s      == span.start
           e      == span.end
<1>4. /\ s \in Nat /\ e - s = l /\ l \in Nat /\ places \in Seq(Nat) /\ Len(places) = l
      /\ \A x \in 1 .. l : places[x] = Placeholder(s + x)
      /\ SpanHolds(n)
  BY <1>2, <1>3, PlacesTyped
<1>5. s < i /\ i <= e /\ e = s + l /\ i \in Int
  BY <1>1, <1>4 DEF SpanHolds
<1>6. CompiledParts[k] = Separated(places)
  BY <1>2, <1>3, CharsApart DEF CompiledParts, writePlaceholders
<1> HIDE DEF places, values, l, s, e, span
<1>7. i - s \in 1 .. l /\ s + (i - s) = i
  BY <1>4, <1>5
<1>8. places[i - s] = i
  BY <1>4, <1>7 DEF Placeholder
<1>9. PICK j \in 1 .. Len(CompiledParts[k]) : CompiledParts[k][j] = i
  <2>1. i - s \in 1 .. Len(places)
    BY <1>4, <1>7
  <2>2. \E j \in 1 .. Len(Separated(places)) : Separated(places)[j] = places[i - s]
    BY <1>4, <2>1, SeparatedHolds
  <2> QED BY <1>6, <1>8, <2>2
<1>10. CompiledParts \in Seq(Seq(Out)) /\ Len(CompiledParts) = Len(Statement)
  <2> DEFINE N == Len(Statement)
             C == CompiledParts
  <2>1. N \in Nat /\ \A x \in 1 .. N : C[x] \in Seq(Out)
    BY StatementTyped, PartsTyped DEF AllDone
  <2>2. C = [x \in 1 .. N |-> C[x]]
    <3>1. DOMAIN Statement = 1 .. N
      BY StatementTyped DEF AllDone
    <3> QED BY <3>1 DEF CompiledParts
  <2> HIDE DEF N, C
  <2>3. C \in Seq(Seq(Out)) /\ Len(C) = N
    BY <2>1, <2>2
  <2> QED BY <2>3 DEF N, C
<1>11. k \in 1 .. Len(CompiledParts)
  BY <1>3, <1>10
<1>12. \E x \in 1 .. Len(FlattenSeq(CompiledParts)) : FlattenSeq(CompiledParts)[x] = CompiledParts[k][j]
  BY <1>10, <1>11, JoinContains
<1>13. Compiled = FlattenSeq(CompiledParts)
  BY DEF Compiled, CompiledParts
<1> QED BY <1>9, <1>12, <1>13

(* What StatementMeansBindings asks of a statement and its arguments.       *)
Means(sql, arguments) ==
  LET places == {k \in DOMAIN sql : IsPlaceholder(sql[k])}
  IN /\ {ArgumentOf(sql, k) : k \in places} = DOMAIN arguments
     /\ Meant = [k \in DOMAIN sql |->
                   IF k \in places THEN arguments[ArgumentOf(sql, k)] ELSE sql[k]]

(* When all tokens are passed, statement and arguments mean the bindings.   *)
LEMMA MeansFinished ==
  ASSUME AllDone
  PROVE  Means(Compiled, args)
<1> DEFINE c == Compiled
           m == Meant
           n == Len(c)
           a == Len(args)
           places == {k \in DOMAIN c : IsPlaceholder(c[k])}
<1>1. /\ c \in Seq(Out) /\ m \in Seq(Said)
      /\ Numbered => ReadsByNumber(c, m, args)
      /\ ~Numbered => ReadsByPlace(c, m, args)
  BY CompiledReads
<1>2. Numbered => \A i \in 1 .. a : \E j \in 1 .. n : c[j] = i
  BY CompiledCovers
<1>3. args \in Seq(ArgumentValues)
  BY DEF AllDone, SpansInv
<1>4. a \in Nat /\ DOMAIN args = 1 .. a
  BY <1>3, LenProperties
<1> HIDE DEF c, m, a
<1>5. n \in Nat /\ DOMAIN c = 1 .. n
  BY <1>1, LenProperties
<1>6. Len(m) = n /\ m = [k \in 1 .. n |-> m[k]]
  <2>1. Len(m) = n
    BY <1>1 DEF ReadsByNumber, ReadsByPlace
  <2>2. m \in [1 .. Len(m) -> Said]
    BY <1>1, LenProperties
  <2> QED BY <2>1, <2>2
<1> HIDE DEF n
<1>7. {ArgumentOf(c, k) : k \in places} = 1 .. a
  <2>1. CASE Numbered
    <3>1. \A k \in places : ArgumentOf(c, k) = c[k] /\ c[k] \in 1 .. a
      BY <1>1, <1>5, <2>1 DEF ReadsByNumber, ArgumentOf, n, a
    <3>2. ASSUME NEW i \in 1 .. a PROVE \E k \in places : ArgumentOf(c, k) = i
      <4>1. PICK j \in 1 .. n : c[j] = i
        BY <1>2, <2>1
      <4>2. i \in Nat
        BY <1>4
      <4>3. j \in places
        BY <1>5, <4>1, <4>2, CharsApart DEF IsPlaceholder
      <4> QED BY <3>1, <4>1, <4>3
    <3> HIDE DEF places
    <3> QED BY <3>1, <3>2
  <2>2. CASE ~Numbered
    <3>1. \A k \in places : ArgumentOf(c, k) = Count(c, k)
      BY <2>2 DEF ArgumentOf, Count
    <3>2. a = Count(c, n)
      BY <1>1, <2>2 DEF ReadsByPlace, n, a
    <3>3. \A k \in places : Count(c, k) \in 1 .. a
      BY <1>5, <3>2, CountBounds
    <3>4. ASSUME NEW i \in 1 .. a PROVE \E k \in places : Count(c, k) = i
      BY <1>5, <3>2, CountOnto, SMTT(30)
    <3> HIDE DEF places
    <3> QED BY <3>1, <3>3, <3>4
  <2> QED BY <2>1, <2>2
<1>8. ASSUME NEW k \in 1 .. n
      PROVE  m[k] = IF k \in places THEN args[ArgumentOf(c, k)] ELSE c[k]
  <2>1. k \in places <=> IsPlaceholder(c[k])
    BY <1>5
  <2>2. CASE Numbered
    BY <1>1, <2>1, <2>2 DEF ReadsByNumber, ArgumentOf, n
  <2>3. CASE ~Numbered
    <3>1. ArgumentOf(c, k) = Count(c, k)
      BY <2>3 DEF ArgumentOf, Count
    <3> QED BY <1>1, <2>1, <2>3, <3>1 DEF ReadsByPlace, n
  <2> QED BY <2>2, <2>3
<1>9. m = [k \in DOMAIN c |-> IF k \in places THEN args[ArgumentOf(c, k)] ELSE c[k]]
  <2> HIDE DEF places
  <2>1. m = [k \in 1 .. n |-> IF k \in places THEN args[ArgumentOf(c, k)] ELSE c[k]]
    BY <1>6, <1>8
  <2> QED BY <1>5, <2>1
<1> QED BY <1>4, <1>7, <1>9 DEF Means, c, m

(* A statement without tokens says what it is.                              *)
LEMMA MeansPlain ==
  ASSUME CallsInv, Tokens = {}
  PROVE  Means(Statement, <<>>)
<1> DEFINE s == Statement
           n == Len(s)
           M == MeantParts
<1>1. /\ s \in Seq(Chars) /\ n \in Nat /\ DOMAIN s = 1 .. n
      /\ \A k \in 1 .. n : s[k] \in Chars
      /\ \A k \in 1 .. n : s[k] \notin Names /\ s[k] # Escape
  BY StatementTyped
<1>2. \A k \in 1 .. n : M[k] = <<s[k]>>
  BY <1>1 DEF MeantParts
<1>2a. M = [k \in 1 .. n |-> M[k]]
  BY <1>1 DEF MeantParts
<1>3. Meant = FlattenSeq(M)
  BY DEF Meant, MeantParts
<1> HIDE DEF s, M
<1>4. \A k \in 1 .. n : <<s[k]>> \in Seq(Chars)
  BY <1>1
<1>5. M \in Seq(Seq(Chars)) /\ Len(M) = n
  <2> HIDE DEF n
  <2>1. n \in Nat
    BY <1>1
  <2>2. \A k \in 1 .. n : M[k] \in Seq(Chars)
    BY <1>2, <1>4, Zenon
  <2> QED BY <1>2a, <2>1, <2>2
<1>6. FlattenSeq(M) = s
  BY <1>1, <1>2, <1>5, JoinOfSingletons
<1>7. \A k \in 1 .. n : ~IsPlaceholder(s[k])
  BY <1>1, CharsApart DEF IsPlaceholder
<1>8. {k \in DOMAIN s : IsPlaceholder(s[k])} = {}
  BY <1>1, <1>7
<1>9. s = [k \in DOMAIN s |-> s[k]]
  <2>1. s \in [1 .. n -> Chars]
    BY <1>1, LenProperties
  <2> QED BY <1>1, <2>1
<1>10. DOMAIN <<>> = {}
  OBVIOUS
<1>11. s = [k \in DOMAIN s |-> IF k \in {} THEN <<>>[ArgumentOf(s, k)] ELSE s[k]]
  BY <1>9
<1>12. {ArgumentOf(s, k) : k \in {}} = {}
  OBVIOUS
<1> QED BY <1>3, <1>6, <1>8, <1>10, <1>11, <1>12, Zenon DEF Means, s

(* A failure is never taken for a success.                                  *)
LEMMA FailedIsNotSuccess ==
  ASSUME NEW e, e \in Errors \/ e # None, NEW n, result' = Failed(e, n)
  PROVE  ~Succeeded'
BY PiecesAssumption DEF Succeeded, Failed, NoResult

(* The errors of a list.                                                    *)
LEMMA ListErrorKinds ==
  ASSUME NEW v
  PROVE  ListError(v) = None \/ ListError(v) \in Errors
BY DEF ListError, Errors

(* What a Build that succeeds returns.                                      *)
LEMMA SuccessfulStep ==
  ASSUME CallsInv, ScanInv, SpansInv, ArgsInv, [Next]_vars, Succeeded'
  PROVE  \/ /\ StartBuild /\ Tokens = {} /\ result'.sql = Statement /\ result'.args = <<>>
            /\ size' = Bytes(Statement)
         \/ FinishBuild /\ AllDone /\ result'.sql = Compiled /\ result'.args = args /\ size' = size
         \/ UNCHANGED vars
<1>1. pc' = "returned"
  BY DEF Succeeded
<1>2. \A e \in Errors : e # None
  BY PiecesAssumption
<1>3. CASE StartBuild
  <2>1. \/ result' = Failed(err, None) /\ err # None
        \/ result' = Failed("syntax", None)
        \/ result' = Failed("unused bind", order[1])
        \/ Tokens = {} /\ result' = [NoResult EXCEPT !.sql = Statement]
    BY <1>1, <1>3 DEF StartBuild, Return
  <2>2. "syntax" \in Errors /\ "unused bind" \in Errors
    BY DEF Errors
  <2>3. Tokens = {} /\ result' = [NoResult EXCEPT !.sql = Statement]
    BY <2>1, <2>2, FailedIsNotSuccess
  <2>4. result'.sql = Statement /\ result'.args = <<>>
    BY <2>3 DEF NoResult
  <2> QED BY <1>3, <2>3, <2>4 DEF StartBuild
<1>4. CASE SkipEscape
  BY <1>1, <1>4 DEF SkipEscape
<1>5. ASSUME NEW n \in Names, ExpandFirst(n) PROVE FALSE
  <2>1. \/ result' = Failed("missing bind", n)
        \/ result' = Failed(ListError(bindings[n]), n) /\ ListError(bindings[n]) # None
    BY <1>1, <1>5 DEF ExpandFirst, Return
  <2>2. "missing bind" \in Errors
    BY DEF Errors
  <2> QED BY <2>1, <2>2, FailedIsNotSuccess
<1>6. ASSUME NEW n \in Names, ExpandAgain(n) PROVE FALSE
  BY <1>1, <1>6 DEF ExpandAgain
<1>7. CASE FinishBuild
  <2>1. \/ result' = Failed("unused bind", FirstUnused)
        \/ result' = [NoResult EXCEPT !.sql = Compiled, !.args = args]
    BY <1>7 DEF FinishBuild, Return
  <2>2. "unused bind" \in Errors
    BY DEF Errors
  <2>3. result' = [NoResult EXCEPT !.sql = Compiled, !.args = args]
    BY <2>1, <2>2, FailedIsNotSuccess
  <2>4. result'.sql = Compiled /\ result'.args = args
    BY <2>3 DEF NoResult
  <2> QED BY <1>7, <2>4 DEF FinishBuild, AllDone, locals
<1> QED BY <1>1, <1>3, <1>4, <1>5, <1>6, <1>7, QuietSteps

(* A Build that succeeds returns what is meant.                             *)
LEMMA MeaningStep ==
  ASSUME CallsInv, ScanInv, SpansInv, ArgsInv, StatementMeansBindings, [Next]_vars
  PROVE  StatementMeansBindings'
<1>1. ASSUME UNCHANGED <<dialect, builder>>,
             Succeeded' => Means(result'.sql, result'.args)
      PROVE  StatementMeansBindings'
  <2>1. Statement' = Statement /\ Numbered' = Numbered /\ bindings' = bindings
    BY <1>1, SameCalls DEF builder
  <2>2. Meant' = Meant
    BY <2>1 DEF Meant
  <2> QED BY <1>1, <2>1, <2>2 DEF StatementMeansBindings, Means, ArgumentOf
<1>2. CASE ~Succeeded'
  BY <1>2 DEF StatementMeansBindings
<1>3. CASE /\ StartBuild /\ Tokens = {} /\ result'.sql = Statement /\ result'.args = <<>>
  BY <1>1, <1>3, MeansPlain DEF StartBuild
<1>4. CASE FinishBuild /\ AllDone /\ result'.sql = Compiled /\ result'.args = args
  BY <1>1, <1>4, MeansFinished DEF FinishBuild
<1>5. CASE UNCHANGED vars
  <2>1. UNCHANGED <<dialect, builder>> /\ pc' = pc /\ result' = result
    BY <1>5 DEF vars
  <2>2. Succeeded => Means(result.sql, result.args)
    BY DEF StatementMeansBindings, Means
  <2> QED BY <1>1, <2>1, <2>2 DEF Succeeded
<1> QED BY <1>2, <1>3, <1>4, <1>5, SuccessfulStep

-----------------------------------------------------------------------------
(* Sizes. *)

Sizes(s) == [k \in DOMAIN s |-> Written(s[k])]

(* The bytes of every piece and of every placeholder.                       *)
LEMMA WrittenTyped ==
  ASSUME dialect \in Dialects
  PROVE  /\ \A p \in Pieces : Length(p) \in Nat /\ Written(p) = Length(p)
         /\ \A n \in Nat : Written(n) = IF Numbered THEN Prefix + Digits(n) ELSE 1
         /\ Prefix \in Nat
         /\ \A p \in Out : Written(p) \in Nat
         /\ \A n \in Names : Length(n) = 1 + NameLength
         /\ Length(Escape) = 2 /\ Length(Comma) = 2 /\ Length(Colon) = 1
<1>1. NameLength \in Nat
  BY PiecesAssumption
<1>2. \A n \in Names : Length(n) = 1 + NameLength
  BY CharsApart DEF Length
<1>3. Length(Escape) = 2 /\ Length(Comma) = 2
  BY CharsApart, MarksDiffer DEF Length
<1>4. Length(Text) = 1 /\ Length(Colon) = 1 /\ Length(Refused) = 1
  BY CharsApart, MarksDiffer DEF Length
<1>5. ASSUME NEW p \in Pieces PROVE Length(p) \in Nat /\ Written(p) = Length(p)
  <2>1. Length(p) \in Nat
    BY <1>1, <1>2, <1>3, <1>4 DEF Pieces
  <2>2. Written(p) = Length(p)
    BY DEF Written, IsPlaceholder
  <2> QED BY <2>1, <2>2
<1>6. ASSUME NEW n \in Nat PROVE Written(n) = IF Numbered THEN Prefix + Digits(n) ELSE 1
  BY CharsApart DEF Written, IsPlaceholder
<1>7. Prefix \in Nat
  BY DEF Prefix, Dialects
<1>8. ASSUME NEW n \in Nat PROVE Written(n) \in Nat
  BY <1>6, <1>7, DigitsRecursion
<1>9. \A p \in Out : Written(p) \in Nat
  BY <1>5, <1>8 DEF Out
<1> QED BY <1>2, <1>3, <1>4, <1>5, <1>6, <1>7, <1>9

(* The bytes of a sequence are a sum.                                       *)
LEMMA SizesTyped ==
  ASSUME dialect \in Dialects, NEW s \in Seq(Out)
  PROVE  /\ Len(s) \in Nat /\ DOMAIN s = 1 .. Len(s)
         /\ Sizes(s) \in Seq(Nat) /\ Len(Sizes(s)) = Len(s)
         /\ Bytes(s) = Total(Sizes(s)) /\ Bytes(s) \in Nat
<1> DEFINE n == Len(s)
           z == Sizes(s)
<1>1. n \in Nat /\ DOMAIN s = 1 .. n
  BY LenProperties
<1>2. \A k \in 1 .. n : s[k] \in Out
  BY ElementOfSeq
<1>3. z = [k \in 1 .. n |-> Written(s[k])]
  BY <1>1 DEF Sizes
<1>4. \A k \in 1 .. n : Written(s[k]) \in Nat
  BY <1>2, WrittenTyped
<1>5. Bytes(s) = Total(z)
  BY DEF Bytes, Sizes
<1> HIDE DEF n, z
<1>6. z \in Seq(Nat) /\ Len(z) = n
  BY <1>1, <1>3, <1>4
<1>7. Total(z) \in Nat
  <2>1. SumTo(z) \in [0 .. Len(z) -> Nat] /\ Total(z) = SumTo(z)[Len(z)]
    BY <1>6, SumToRecursion
  <2>2. Len(z) \in 0 .. Len(z)
    BY <1>1, <1>6
  <2> QED BY <2>1, <2>2
<1> QED BY <1>1, <1>5, <1>6, <1>7 DEF n, z

(* The bytes of a concatenation.                                            *)
LEMMA BytesOfConcatenation ==
  ASSUME dialect \in Dialects, NEW s \in Seq(Out), NEW t \in Seq(Out)
  PROVE  Bytes(s \o t) = Bytes(s) + Bytes(t)
<1> DEFINE n == Len(s)
           m == Len(t)
           u == s \o t
<1>1. /\ n \in Nat /\ m \in Nat /\ Len(u) = n + m
      /\ \A j \in 1 .. n : u[j] = s[j]
      /\ \A j \in 1 .. m : u[n + j] = t[j]
  BY ConcatElements
<1>2. u \in Seq(Out)
  BY ConcatProperties
<1>3. /\ DOMAIN s = 1 .. n /\ DOMAIN t = 1 .. m
      /\ Sizes(s) \in Seq(Nat) /\ Sizes(t) \in Seq(Nat)
      /\ Len(Sizes(s)) = n /\ Len(Sizes(t)) = m
      /\ Bytes(s) = Total(Sizes(s)) /\ Bytes(t) = Total(Sizes(t))
  BY SizesTyped
<1> HIDE DEF u
<1>4. /\ DOMAIN u = 1 .. Len(u) /\ Sizes(u) \in Seq(Nat) /\ Len(Sizes(u)) = Len(u)
      /\ Bytes(u) = Total(Sizes(u))
  BY <1>2, SizesTyped
<1> DEFINE a == Sizes(s)
           b == Sizes(t)
           c == Sizes(u)
<1>5. /\ \A j \in 1 .. n : a[j] = Written(s[j])
      /\ \A j \in 1 .. m : b[j] = Written(t[j])
      /\ \A j \in 1 .. n + m : c[j] = Written(u[j])
  <2> HIDE DEF n, m
  <2> QED BY <1>1, <1>3, <1>4 DEF Sizes
<1>5a. a \in Seq(Nat) /\ b \in Seq(Nat) /\ Len(a) = n /\ Len(b) = m
  BY <1>3
<1> HIDE DEF a, b, c
<1>6. /\ Len(a) \in Nat /\ Len(b) \in Nat /\ Len(a \o b) = Len(a) + Len(b)
      /\ \A j \in 1 .. Len(a) : (a \o b)[j] = a[j]
      /\ \A j \in 1 .. Len(b) : (a \o b)[Len(a) + j] = b[j]
  <2> DEFINE X == Nat
  <2>1. a \in Seq(X) /\ b \in Seq(X)
    BY <1>5a
  <2> HIDE DEF X
  <2> QED BY <2>1, ConcatElements
<1>7. a \o b \in Seq(Nat)
  BY <1>5a, ConcatProperties
<1> DEFINE d == a \o b
<1>7a. /\ Len(d) = n + m
       /\ \A j \in 1 .. n : d[j] = a[j]
       /\ \A j \in 1 .. m : d[n + j] = b[j]
  BY <1>5a, <1>6
<1> HIDE DEF n, m, d
<1>8. \A j \in 1 .. n + m : c[j] = d[j]
  <2>1. ASSUME NEW j \in 1 .. n PROVE c[j] = d[j]
    <3>1. j \in 1 .. n + m
      BY <1>1
    <3> QED BY <1>1, <1>5, <1>7a, <3>1
  <2>2. ASSUME NEW j \in 1 .. m PROVE c[n + j] = d[n + j]
    <3>1. n + j \in 1 .. n + m
      BY <1>1
    <3> QED BY <1>1, <1>5, <1>7a, <3>1, SMTT(30)
  <2> QED BY <1>1, <2>1, <2>2, ConcatPlaces, ZenonT(60)
<1>9. c = d
  <2>1. c \in Seq(Nat) /\ d \in Seq(Nat) /\ Len(c) = n + m /\ Len(d) = n + m
    BY <1>1, <1>4, <1>7, <1>7a DEF c, d
  <2>2. c = [j \in 1 .. n + m |-> c[j]] /\ d = [j \in 1 .. n + m |-> d[j]]
    <3>1. c \in [1 .. n + m -> Nat] /\ d \in [1 .. n + m -> Nat]
      BY <2>1, LenProperties
    <3> QED BY <3>1
  <2> QED BY <1>8, <2>2
<1>10. Total(d) = Total(a) + Total(b)
  BY <1>5a, SumOfConcatenation DEF d
<1> QED BY <1>3, <1>4, <1>9, <1>10 DEF a, b, c, u

(* The bytes of one piece.                                                  *)
LEMMA BytesOfOne ==
  ASSUME dialect \in Dialects, NEW p \in Out
  PROVE  <<p>> \in Seq(Out) /\ Bytes(<<p>>) = Written(p)
<1> DEFINE s == <<p>>
           z == Sizes(s)
<1>1. s \in Seq(Out) /\ Len(s) = 1 /\ DOMAIN s = 1 .. 1 /\ s[1] = p
  OBVIOUS
<1>2. z[1] = Written(p)
  <2> HIDE DEF s
  <2>1. 1 \in DOMAIN s
    BY <1>1
  <2> QED BY <1>1, <2>1 DEF Sizes
<1> HIDE DEF s
<1>3. z \in Seq(Nat) /\ Len(z) = 1 /\ Bytes(s) = Total(z)
  BY <1>1, SizesTyped
<1> HIDE DEF z
<1>4. /\ SumTo(z)[0] = 0 /\ Total(z) = SumTo(z)[1]
      /\ \A k \in 1 .. 1 : SumTo(z)[k] = SumTo(z)[k - 1] + z[k]
  BY <1>3, SumToRecursion
<1>5. SumTo(z)[1] = SumTo(z)[0] + z[1]
  <2>1. 1 \in 1 .. 1 /\ 1 - 1 = 0
    OBVIOUS
  <2> QED BY <1>4, <2>1
<1>6. Written(p) \in Nat
  BY WrittenTyped
<1> QED BY <1>1, <1>2, <1>3, <1>4, <1>5, <1>6 DEF s

(* The empty sequence has no bytes.                                         *)
LEMMA BytesOfNothing ==
  ASSUME dialect \in Dialects
  PROVE  Bytes(Nothing) = 0
<1>1. Nothing \in Seq(Out) /\ Len(Nothing) = 0
  BY NothingJoined
<1> DEFINE z == Sizes(Nothing)
<1>2. z \in Seq(Nat) /\ Len(z) = 0 /\ Bytes(Nothing) = Total(z)
  BY <1>1, SizesTyped
<1> HIDE DEF z
<1>3. SumTo(z)[0] = 0 /\ Total(z) = SumTo(z)[0]
  BY <1>2, SumToRecursion
<1> QED BY <1>2, <1>3

(* A list of placeholders is no longer than all at the width of the longest. *)
LEMMA BytesSeparated ==
  ASSUME dialect \in Dialects, NEW p \in Seq(Nat), Len(p) >= 1, NEW w \in Nat,
         \A i \in 1 .. Len(p) : Written(p[i]) <= w
  PROVE  /\ Separated(p) \in Seq(Out)
         /\ Bytes(Separated(p)) <= Len(p) * w + (Len(p) - 1) * 2
<1> DEFINE l == Len(p)
           n == 2 * l - 1
           c == Separated(p)
           z == Sizes(c)
           F == SumTo(z)
           S == {k \in 0 .. n : F[k] <= ((k + 1) \div 2) * w + (k \div 2) * 2}
<1>1. /\ l \in Nat /\ n \in Nat /\ Len(c) = n /\ c \in Seq(Nat \cup {Comma})
      /\ \A k \in 1 .. n : c[k] = IF k % 2 = 1 THEN p[(k + 1) \div 2] ELSE Comma
      /\ \A k \in 1 .. n : k % 2 = 1 => (k + 1) \div 2 \in 1 .. l
  BY SeparatedTyped
<1>1a. l >= 1 /\ n = 2 * l - 1 /\ \A i \in 1 .. l : Written(p[i]) <= w
  OBVIOUS
<1>2. Nat \cup {Comma} \subseteq Out
  BY CharsApart DEF Out
<1> HIDE DEF c
<1>3. c \in Seq(Out)
  BY <1>1, <1>2, SeqMonotonic
<1>4. /\ DOMAIN c = 1 .. Len(c) /\ z \in Seq(Nat) /\ Len(z) = Len(c) /\ Bytes(c) = Total(z)
  BY <1>3, SizesTyped
<1> HIDE DEF l, n
<1>5. \A k \in 1 .. n : z[k] = Written(c[k])
  BY <1>1, <1>4 DEF Sizes
<1> HIDE DEF z
<1>6. /\ F \in [0 .. n -> Nat] /\ F[0] = 0 /\ Total(z) = F[n]
      /\ \A k \in 1 .. n : F[k] = F[k - 1] + z[k]
  <2>1. /\ SumTo(z) \in [0 .. Len(z) -> Nat] /\ SumTo(z)[0] = 0
        /\ \A k \in 1 .. Len(z) : SumTo(z)[k] = SumTo(z)[k - 1] + z[k]
        /\ Total(z) = SumTo(z)[Len(z)]
    BY <1>4, SumToRecursion
  <2>2. Len(z) = n
    BY <1>1, <1>4
  <2> QED BY <2>1, <2>2
<1> HIDE DEF F
<1>7. 0 \in S
  <2>1. (0 + 1) \div 2 = 0 /\ 0 \div 2 = 0 /\ 0 * w = 0 /\ 0 \in 0 .. n
    BY <1>1
  <2> QED BY <1>6, <2>1
<1>8. ASSUME NEW k \in 1 .. n, k - 1 \in S PROVE k \in S
  <2>1. k \in 0 .. n /\ k - 1 \in 0 .. n /\ k \in Nat
    BY <1>1
  <2>2. F[k] = F[k - 1] + z[k] /\ F[k - 1] \in Nat /\ F[k] \in Nat
    BY <1>6, <2>1
  <2>3. F[k - 1] <= (k \div 2) * w + ((k - 1) \div 2) * 2
    <3>1. (k - 1) + 1 = k
      OBVIOUS
    <3>2. F[k - 1] <= (((k - 1) + 1) \div 2) * w + ((k - 1) \div 2) * 2
      BY <1>8
    <3> QED BY <3>1, <3>2
  <2> DEFINE q == k \div 2
  <2>4. q \in Nat
    OBVIOUS
  <2>5. CASE k % 2 = 1
    <3>1. (k + 1) \div 2 = q + 1 /\ (k - 1) \div 2 = q
      BY <2>5
    <3>2. z[k] <= w /\ z[k] \in Nat
      <4>1. (k + 1) \div 2 \in 1 .. l /\ c[k] = p[(k + 1) \div 2]
        BY <1>1, <2>5
      <4>2. z[k] <= w
        BY <1>1a, <1>5, <4>1
      <4>3. z[k] \in Nat
        BY <1>1, <1>4, ElementOfSeq
      <4> QED BY <4>2, <4>3
    <3> HIDE DEF q
    <3>3. (q + 1) * w = q * w + w /\ q * w \in Nat
      BY <2>4
    <3> DEFINE qw == q * w
    <3>4. F[k - 1] <= qw + q * 2
      BY <2>3, <3>1 DEF q
    <3> HIDE DEF qw
    <3>5. F[k] <= (qw + w) + q * 2
      BY <2>2, <2>4, <3>2, <3>3, <3>4 DEF qw
    <3>6. F[k] <= ((k + 1) \div 2) * w + (k \div 2) * 2
      BY <3>1, <3>3, <3>5 DEF qw, q
    <3> QED BY <2>1, <3>6
  <2>6. CASE k % 2 # 1
    <3>1. (k + 1) \div 2 = q /\ (k - 1) \div 2 = q - 1
      BY <2>6
    <3>2. z[k] = 2
      <4>1. c[k] = Comma
        BY <1>1, <2>6
      <4>2. Written(Comma) = 2
        BY WrittenTyped, CharsApart
      <4> QED BY <1>5, <4>1, <4>2
    <3> HIDE DEF q
    <3> DEFINE qw == q * w
    <3>3. qw \in Nat
      BY <2>4
    <3>4. F[k - 1] <= qw + (q - 1) * 2
      BY <2>3, <3>1 DEF q
    <3> HIDE DEF qw
    <3>5. F[k] <= qw + q * 2
      BY <2>2, <2>4, <3>2, <3>3, <3>4
    <3>6. F[k] <= ((k + 1) \div 2) * w + (k \div 2) * 2
      BY <3>1, <3>5 DEF qw, q
    <3> QED BY <2>1, <3>6
  <2> QED BY <2>5, <2>6
<1>9. n \in S
  <2>1. 0 .. n \subseteq S
    <3> HIDE DEF S
    <3> QED BY <1>1, <1>7, <1>8, BoundedInduction
  <2>2. n \in 0 .. n
    BY <1>1
  <2> HIDE DEF S
  <2> QED BY <2>1, <2>2
<1>10. (n + 1) \div 2 = l /\ n \div 2 = l - 1
  BY <1>1, <1>1a
<1>11. Bytes(c) <= l * w + (l - 1) * 2
  BY <1>4, <1>6, <1>9, <1>10
<1> QED BY <1>3, <1>11 DEF c, l

(* What a span grows the statement by, and what it takes.                   *)
LEMMA SpanSizeTyped ==
  ASSUME CallsInv, NEW n \in Names, Usable(n), NEW s \in Nat, NEW e,
         e = s + Len(Expanded(bindings[n]))
  PROVE  LET span == [start |-> s, end |-> e]
         IN /\ SpanSize(span) \in Nat
            /\ Grown(span) = SpanSize(span) - Length(n)
<1> DEFINE l == Len(Expanded(bindings[n]))
           w == IF Numbered THEN Prefix + Digits(e) ELSE 1
           span == [start |-> s, end |-> e]
<1>1. l \in Nat /\ l >= 1
  BY ExpandedTyped
<1>2. e \in Nat /\ e - s = l
  <2>1. e = s + l
    OBVIOUS
  <2> HIDE DEF l
  <2> QED BY <1>1, <2>1
<1>3. w \in Nat
  <2>1. Digits(e) \in Nat
    BY <1>2, DigitsRecursion
  <2>2. dialect \in Dialects
    BY DEF CallsInv
  <2>3. Prefix \in Nat
    BY <2>2, WrittenTyped
  <2> QED BY <2>1, <2>3
<1> HIDE DEF l
<1>4. SpanSize(span) = l * w + (l - 1) * 2
  BY <1>2 DEF SpanSize
<1>5. Grown(span) = l * w + (l - 1) * 2 - (1 + NameLength)
  BY <1>2 DEF Grown
<1>6. l * w \in Nat
  <2> HIDE DEF w
  <2> QED BY <1>1, <1>3
<1> DEFINE lw == l * w
<1>7. lw \in Nat /\ SpanSize(span) = lw + (l - 1) * 2 /\ Grown(span) = lw + (l - 1) * 2 - (1 + NameLength)
  BY <1>4, <1>5, <1>6
<1> HIDE DEF lw, span
<1>8. SpanSize(span) \in Nat
  BY <1>1, <1>7
<1>9. Length(n) = 1 + NameLength /\ NameLength \in Nat
  BY WrittenTyped, PiecesAssumption DEF CallsInv
<1>10. Grown(span) = SpanSize(span) - Length(n)
  BY <1>1, <1>7, <1>9
<1> QED BY <1>8, <1>10 DEF span

(* Every piece passed has its estimate.                                     *)
LEMMA EstimateTyped ==
  ASSUME CallsInv, ScanInv, SpansInv, pc = "expand", NEW k \in 1 .. Len(Statement), k < turn
  PROVE  Estimate(k) \in Nat
<1>1. k \in Tokens <=> Statement[k] \in Names \cup {Escape}
  BY StatementTyped
<1>1a. Statement[k] \in Chars
  BY StatementTyped
<1>2. CASE Statement[k] = Escape
  BY <1>2 DEF Estimate
<1>3. CASE Statement[k] # Escape /\ Statement[k] \in Names
  <2>1. Statement[k] \in DOMAIN used
    BY <1>1, <1>3 DEF ScanInv, Tokens
  <2> DEFINE n == Statement[k]
             s == used[n].start
             e == used[n].end
  <2>2. /\ Usable(n) /\ used[n] = [start |-> s, end |-> e]
        /\ s \in Nat /\ e = s + Len(Expanded(bindings[n]))
    BY <2>1 DEF SpansInv, SpanHolds
  <2>3. Estimate(k) = SpanSize(used[n])
    BY <1>3 DEF Estimate
  <2>4. n \in Names
    BY <1>3
  <2> HIDE DEF n, s, e
  <2>5. SpanSize([start |-> s, end |-> e]) \in Nat
    BY <2>2, <2>4, SpanSizeTyped
  <2> QED BY <2>2, <2>3, <2>5
<1>4. CASE Statement[k] # Escape /\ Statement[k] \notin Names
  <2>1. Estimate(k) = Length(Statement[k])
    BY <1>4 DEF Estimate
  <2>2. Statement[k] \in Pieces /\ dialect \in Dialects
    BY <1>1a, CharsApart DEF CallsInv
  <2> QED BY <2>1, <2>2, WrittenTyped
<1> QED BY <1>2, <1>3, <1>4

(* What is reserved is a sum over the statement.                            *)
LEMMA ReservedTyped ==
  ASSUME CallsInv, ScanInv, SpansInv, pc = "expand"
  PROVE  /\ Reserved \in Seq(Nat) /\ Len(Reserved) = Len(Statement)
         /\ \A k \in 1 .. Len(Statement) :
              Reserved[k] = IF k < turn THEN Estimate(k) ELSE Length(Statement[k])
<1> DEFINE N == Len(Statement)
           z == Reserved
<1>1. N \in Nat
  BY StatementTyped
<1>2. ASSUME NEW k \in 1 .. N PROVE z[k] \in Nat
  <2>1. k < turn => Estimate(k) \in Nat
    BY <1>2, EstimateTyped
  <2>2. Length(Statement[k]) \in Nat
    BY StatementTyped, WrittenTyped, CharsApart DEF CallsInv
  <2> QED BY <2>1, <2>2 DEF Reserved
<1>3. \A k \in 1 .. N : z[k] = IF k < turn THEN Estimate(k) ELSE Length(Statement[k])
  BY DEF Reserved
<1>4. z = [k \in 1 .. N |-> z[k]]
  BY DEF Reserved
<1> HIDE DEF N, z
<1>5. z \in Seq(Nat) /\ Len(z) = N
  BY <1>1, <1>2, <1>4
<1> QED BY <1>3, <1>5 DEF N, z

(* The next token that is expanded changes its own entry and no other.      *)
LEMMA ReservedStep ==
  ASSUME CallsInv, ScanInv, SpansInv, pc = "expand", UNCHANGED <<dialect, builder>>,
         NEW i \in Tokens, i = turn, turn' = NextToken(turn),
         \A n \in DOMAIN used : used'[n] = used[n], Estimate(i)' \in Nat
  PROVE  /\ Total(Reserved)' = Total(Reserved) + (Estimate(i)' - Length(Statement[i]))
         /\ Total(Reserved)' \in Nat
<1> DEFINE N == Len(Statement)
           s == Reserved
           t == Reserved'
<1>1. /\ s \in Seq(Nat) /\ Len(s) = N
      /\ \A k \in 1 .. N : s[k] = IF k < turn THEN Estimate(k) ELSE Length(Statement[k])
  BY ReservedTyped
<1>2. /\ N \in Nat /\ Tokens \subseteq 1 .. N
      /\ \A k \in 1 .. N : k \in Tokens <=> Statement[k] \in Names \cup {Escape}
  BY StatementTyped
<1>3. Statement' = Statement /\ Numbered' = Numbered /\ Prefix' = Prefix
  BY SameCalls
<1>4. \A k \in 1 .. N : Length(Statement[k])' = Length(Statement[k])
  BY <1>3 DEF Length
<1>5. t = [k \in 1 .. N |-> IF k < turn' THEN Estimate(k)' ELSE Length(Statement[k])]
  BY <1>3 DEF Reserved, Length
<1>6. /\ turn < turn'
      /\ \A k \in Tokens : k < turn' <=> k < turn \/ k = turn
  BY TokenPassed
<1>6a. turn \in 1 .. N /\ turn' \in Nat
  <2>1. turn' \in Tokens \cup {N + 1}
    BY TokenPassed
  <2> HIDE DEF N
  <2> QED BY <1>2, <2>1
<1>7. ASSUME NEW k \in 1 .. N, k # i PROVE t[k] = s[k]
  <2>1. CASE k \in Tokens /\ k < turn
    <3>1. Estimate(k)' = Estimate(k)
      <4>1. Statement[k] \in Names /\ Statement[k] # Escape => Statement[k] \in DOMAIN used
        BY <2>1 DEF ScanInv
      <4>2. Statement[k] \in Names /\ Statement[k] # Escape => used'[Statement[k]] = used[Statement[k]]
        BY <4>1
      <4>3. CASE Statement[k] = Escape
        <5>1. Estimate(k) = 1
          BY <4>3 DEF Estimate
        <5>2. Estimate(k)' = 1
          BY <1>3, <4>3 DEF Estimate
        <5> QED BY <5>1, <5>2
      <4>4. CASE Statement[k] # Escape /\ Statement[k] \in Names
        <5>1. Estimate(k) = SpanSize(used[Statement[k]])
          BY <4>4 DEF Estimate
        <5>2. Estimate(k)' = SpanSize(used[Statement[k]])'
          BY <1>3, <4>4 DEF Estimate
        <5>3. SpanSize(used[Statement[k]])' = SpanSize(used[Statement[k]])
          BY <1>3, <4>2, <4>4 DEF SpanSize
        <5> QED BY <5>1, <5>2, <5>3
      <4>5. CASE Statement[k] # Escape /\ Statement[k] \notin Names
        BY <1>2, <2>1, <4>5
      <4> QED BY <4>3, <4>4, <4>5
    <3> QED BY <1>1, <1>5, <1>6, <2>1, <3>1
  <2>2. CASE k \in Tokens /\ ~(k < turn)
    <3>1. ~(k < turn')
      BY <1>6, <1>7, <2>2
    <3> QED BY <1>1, <1>5, <2>2, <3>1
  <2>3. CASE k \notin Tokens
    <3>1. Statement[k] \notin Names /\ Statement[k] # Escape
      BY <1>2, <2>3
    <3>2. Estimate(k)' = Length(Statement[k]) /\ Estimate(k) = Length(Statement[k])
      BY <1>3, <3>1 DEF Estimate, Length
    <3> QED BY <1>1, <1>5, <3>2
  <2> QED BY <2>1, <2>2, <2>3
<1>8. i \in 1 .. N /\ t[i] = Estimate(i)' /\ s[i] = Length(Statement[i])
  BY <1>1, <1>5, <1>6, <1>6a
<1>9. \A k \in 1 .. N : t[k] \in Nat
  <2>1. \A k \in 1 .. N : s[k] \in Nat
    BY <1>1, ElementOfSeq
  <2> QED BY <1>7, <1>8, <2>1
<1> HIDE DEF s, N
<1>10. t \in Seq(Nat) /\ Len(t) = N
  <2>1. t = [k \in 1 .. N |-> t[k]]
    BY <1>5
  <2> HIDE DEF t
  <2> QED BY <1>2, <1>9, <2>1
<1> HIDE DEF t
<1>11. Total(t) = Total(s) + (t[i] - s[i])
  BY <1>1, <1>7, <1>8, <1>10, SumWithOneChange, ZenonT(60)
<1>12. Total(t) \in Nat
  <2>1. SumTo(t) \in [0 .. Len(t) -> Nat] /\ Total(t) = SumTo(t)[Len(t)]
    BY <1>10, SumToRecursion
  <2>2. Len(t) \in 0 .. Len(t)
    BY <1>2, <1>10
  <2> QED BY <2>1, <2>2
<1> QED BY <1>8, <1>11, <1>12 DEF s, t, Total

(* No list of placeholders takes more than was reserved for it.             *)
LEMMA CompiledSize ==
  ASSUME AllDone
  PROVE  Bytes(Compiled) <= Total(Reserved)
<1> DEFINE N == Len(Statement)
           C == CompiledParts
           R == Reserved
           FC == JoinTo(C)
           FR == SumTo(R)
           S == {k \in 0 .. N : Bytes(FC[k]) <= FR[k]}
<1>0. dialect \in Dialects
  BY DEF AllDone, CallsInv
<1>1. N \in Nat /\ DOMAIN Statement = 1 .. N
  BY StatementTyped DEF AllDone
<1>2. \A k \in 1 .. N : C[k] \in Seq(Out)
  BY PartsTyped
<1>3. C \in Seq(Seq(Out)) /\ Len(C) = N
  <2>1. C = [k \in 1 .. N |-> C[k]]
    BY <1>1 DEF CompiledParts
  <2> HIDE DEF N, C
  <2> QED BY <1>1, <1>2, <2>1
<1>4. Compiled = FlattenSeq(C)
  BY DEF Compiled, CompiledParts
<1>5. turn = N + 1
  BY AllPassed DEF AllDone
<1>6. /\ R \in Seq(Nat) /\ Len(R) = N
      /\ \A k \in 1 .. N : R[k] = IF k < turn THEN Estimate(k) ELSE Length(Statement[k])
  BY ReservedTyped DEF AllDone
<1>7. \A k \in 1 .. N : R[k] = Estimate(k)
  <2> HIDE DEF N, R
  <2> QED BY <1>1, <1>5, <1>6
<1>8. ASSUME NEW k \in 1 .. N PROVE Bytes(C[k]) <= R[k]
  <2> DEFINE p == Statement[k]
  <2>1. p \in Chars /\ k \in DOMAIN Statement /\ p \in Pieces
    BY StatementTyped, CharsApart DEF AllDone
  <2>2. R[k] = Estimate(k)
    BY <1>7
  <2>3. CASE p = Escape
    <3>1. C[k] = <<Colon>>
      BY <2>1, <2>3, CharsApart DEF CompiledParts
    <3>2. Bytes(<<Colon>>) = 1
      <4>1. Colon \in Pieces /\ Colon \in Out
        BY CharsApart DEF Out
      <4>2. Bytes(<<Colon>>) = Written(Colon)
        BY <1>0, <4>1, BytesOfOne
      <4>3. Written(Colon) = 1
        BY <1>0, <4>1, WrittenTyped
      <4> QED BY <4>2, <4>3
    <3>3. Estimate(k) = 1
      BY <2>3 DEF Estimate
    <3> QED BY <2>2, <3>1, <3>2, <3>3
  <2>4. CASE p # Escape /\ p \notin Names
    <3>1. C[k] = <<p>>
      BY <2>1, <2>4 DEF CompiledParts
    <3>2. Estimate(k) = Length(p)
      BY <2>4 DEF Estimate
    <3> HIDE DEF p
    <3>3. Bytes(<<p>>) = Length(p) /\ Length(p) \in Nat
      <4>1. p \in Out
        BY <2>1 DEF Out
      <4>2. Bytes(<<p>>) = Written(p)
        BY <1>0, <4>1, BytesOfOne
      <4> QED BY <1>0, <2>1, <4>2, WrittenTyped
    <3> QED BY <2>2, <3>1, <3>2, <3>3
  <2>5. CASE p # Escape /\ p \in Names
    <3> DEFINE span   == used[p]
               s      == span.start
               e      == span.end
               l      == Len(Expanded(bindings[p]))
               places == [i \in 1 .. span.end - span.start |-> Placeholder(span.start + i)]
               w      == IF Numbered THEN Prefix + Digits(e) ELSE 1
    <3>1. /\ SpanHolds(p) /\ s \in Nat /\ e - s = l /\ l \in Nat /\ l >= 1
          /\ places \in Seq(Nat) /\ Len(places) = l
          /\ \A i \in 1 .. l : places[i] = Placeholder(s + i)
      BY <2>5, PlacesTyped
    <3>2. C[k] = Separated(places)
      BY <2>1, <2>5 DEF CompiledParts, writePlaceholders
    <3>3. Estimate(k) = (e - s) * w + ((e - s) - 1) * 2
      BY <2>5 DEF Estimate, SpanSize
    <3>3a. e = s + l
      BY <3>1 DEF SpanHolds
    <3> HIDE DEF C, R, p, span, s, e, l, places
    <3>4. e \in Nat
      BY <3>1, <3>3a
    <3>5. Prefix \in Nat /\ Digits(e) \in Nat
      BY <1>0, <3>4, WrittenTyped, DigitsRecursion
    <3>6. w \in Nat
      BY <3>5
    <3>7. ASSUME NEW i \in 1 .. l PROVE Written(places[i]) <= w
      <4>1. places[i] = IF Numbered THEN s + i ELSE 0
        BY <3>1 DEF Placeholder
      <4>2. s + i \in Nat /\ s + i <= e
        BY <3>1, <3>3a
      <4>3. Written(places[i]) = IF Numbered THEN Prefix + Digits(s + i) ELSE 1
        BY <1>0, <4>1, <4>2, WrittenTyped
      <4>4. Digits(s + i) \in Nat /\ Digits(s + i) <= Digits(e)
        BY <3>4, <4>2, DigitsMonotonic
      <4> QED BY <3>5, <4>3, <4>4
    <3> HIDE DEF w
    <3>8. Bytes(Separated(places)) <= Len(places) * w + (Len(places) - 1) * 2
      BY <1>0, <3>1, <3>6, <3>7, BytesSeparated
    <3> QED BY <2>2, <3>1, <3>2, <3>3, <3>8
  <2> QED BY <2>3, <2>4, <2>5
<1> HIDE DEF N, C, R
<1>9. /\ FC \in [0 .. N -> Seq(Out)] /\ FC[0] = Nothing /\ FlattenSeq(C) = FC[N]
      /\ \A k \in 1 .. N : FC[k] = FC[k - 1] \o C[k]
  BY <1>3, JoinToRecursion
<1>10. /\ FR \in [0 .. N -> Nat] /\ FR[0] = 0 /\ Total(R) = FR[N]
       /\ \A k \in 1 .. N : FR[k] = FR[k - 1] + R[k]
  BY <1>6, SumToRecursion
<1> HIDE DEF FC, FR
<1>11. 0 \in S
  <2>1. Bytes(FC[0]) = 0 /\ 0 \in 0 .. N
    BY <1>0, <1>1, <1>9, BytesOfNothing
  <2> QED BY <1>10, <2>1
<1>12. ASSUME NEW k \in 1 .. N, k - 1 \in S PROVE k \in S
  <2>1. k - 1 \in 0 .. N /\ k \in 0 .. N
    BY <1>1
  <2>2. FC[k - 1] \in Seq(Out) /\ C[k] \in Seq(Out)
    BY <1>2, <1>9, <2>1
  <2>3. Bytes(FC[k - 1] \o C[k]) = Bytes(FC[k - 1]) + Bytes(C[k])
    BY <1>0, <2>2, BytesOfConcatenation
  <2>4. Bytes(FC[k - 1]) \in Nat /\ Bytes(C[k]) \in Nat
    BY <1>0, <2>2, SizesTyped
  <2>5. FR[k - 1] \in Nat /\ R[k] \in Nat
    BY <1>6, <1>10, <2>1, ElementOfSeq
  <2>6. Bytes(FC[k - 1]) <= FR[k - 1]
    BY <1>12
  <2>7. Bytes(C[k]) <= R[k]
    BY <1>8
  <2>8. FC[k] = FC[k - 1] \o C[k] /\ FR[k] = FR[k - 1] + R[k]
    BY <1>9, <1>10
  <2>9. Bytes(FC[k]) <= FR[k]
    BY <2>3, <2>4, <2>5, <2>6, <2>7, <2>8
  <2> QED BY <2>1, <2>9
<1>13. N \in S
  <2>1. 0 .. N \subseteq S
    <3> HIDE DEF S
    <3> QED BY <1>1, <1>11, <1>12, BoundedInduction
  <2> QED BY <1>1, <2>1
<1> QED BY <1>4, <1>9, <1>10, <1>13 DEF R

(* The bytes of the statement as it is scanned.                             *)
LEMMA StatementSize ==
  ASSUME CallsInv
  PROVE  /\ Statement \in Seq(Out) /\ Bytes(Statement) \in Nat
         /\ Bytes(Statement) = Total([k \in 1 .. Len(Statement) |-> Length(Statement[k])])
<1> DEFINE s == Statement
           N == Len(s)
<1>1. /\ s \in Seq(Chars) /\ N \in Nat /\ DOMAIN s = 1 .. N
      /\ \A k \in 1 .. N : s[k] \in Chars
  BY StatementTyped
<1> HIDE DEF s
<1>2. s \in Seq(Out)
  BY <1>1, CharsApart, SeqMonotonic DEF Out
<1>3. dialect \in Dialects
  BY DEF CallsInv
<1>4. \A k \in 1 .. N : Written(s[k]) = Length(s[k])
  BY <1>1, <1>3, WrittenTyped, CharsApart
<1>5. [k \in DOMAIN s |-> Written(s[k])] = [k \in 1 .. N |-> Length(s[k])]
  BY <1>1, <1>4
<1>6. Bytes(s) \in Nat
  BY <1>2, <1>3, SizesTyped
<1> QED BY <1>2, <1>5, <1>6 DEF Bytes, s

(* What is reserved is, piece by piece, the estimate of what is passed and  *)
(* the length of what is not.                                               *)
LEMMA SizeStep ==
  ASSUME CallsInv, ScanInv, SpansInv, ArgsInv, SizeInv, [Next]_vars
  PROVE  SizeInv'
<1> DEFINE Same == UNCHANGED <<dialect, builder>>
<1>0. size \in Nat
  BY DEF SizeInv
<1>1. CASE StartBuild
  <2>1. Same /\ turn' = NextToken(0) /\ size' = Bytes(Statement)
    BY <1>1 DEF StartBuild
  <2>2. Statement' = Statement /\ Tokens' = Tokens
    BY <2>1, SameCalls
  <2>3. /\ Tokens \subseteq 1 .. Len(Statement) /\ Len(Statement) \in Nat
        /\ \A k \in 1 .. Len(Statement) : k \in Tokens <=> Statement[k] \in Names \cup {Escape}
    BY StatementTyped
  <2>4. \A k \in Tokens : ~(k < turn')
    <3>1. 0 \in 0 .. Len(Statement)
      BY <2>3
    <3>2. /\ \A j \in Tokens : j > 0 => NextToken(0) <= j
          /\ NextToken(0) \in 1 .. Len(Statement) + 1
      BY <3>1, NextTokenTyped
    <3> DEFINE N == Len(Statement)
    <3> HIDE DEF N
    <3>3. turn' \in 1 .. N + 1 /\ Tokens \subseteq 1 .. N /\ N \in Nat
      BY <2>1, <2>3, <3>2 DEF N
    <3>4. \A j \in Tokens : j > 0 => turn' <= j
      BY <2>1, <3>2
    <3> QED BY <3>3, <3>4
  <2>5. ASSUME NEW k \in 1 .. Len(Statement)
        PROVE  (IF k < turn' THEN Estimate(k)' ELSE Length(Statement'[k])) = Length(Statement[k])
    <3>1. CASE k < turn'
      <4>1. Statement[k] \notin Names /\ Statement[k] # Escape
        BY <2>3, <2>4, <3>1
      <4>2. Estimate(k)' = Length(Statement[k])
        BY <2>2, <4>1 DEF Estimate, Length
      <4> QED BY <3>1, <4>2
    <3>2. CASE ~(k < turn')
      BY <2>2, <3>2
    <3> QED BY <3>1, <3>2
  <2>6. Reserved' = [k \in 1 .. Len(Statement) |->
                       IF k < turn' THEN Estimate(k)' ELSE Length(Statement'[k])]
    BY <2>2 DEF Reserved, Length
  <2>7. Reserved' = [k \in 1 .. Len(Statement) |-> Length(Statement[k])]
    BY <2>5, <2>6
  <2>8. size' = Total(Reserved') /\ size' \in Nat
    BY <2>1, <2>7, StatementSize
  <2> QED BY <2>8 DEF SizeInv, Total
<1>2. ASSUME pc = "expand", Same, NEW i \in Tokens, i = turn, turn' = NextToken(turn),
             \A n \in DOMAIN used : used'[n] = used[n],
             Estimate(i)' \in Nat, size' = size + (Estimate(i)' - Length(Statement[i]))
      PROVE  SizeInv'
  <2>1. Total(Reserved)' = Total(Reserved) + (Estimate(i)' - Length(Statement[i]))
    BY <1>2, ReservedStep
  <2>2. Total(Reserved)' \in Nat
    BY <1>2, ReservedStep
  <2>3. size = Total(Reserved)
    BY <1>2 DEF SizeInv
  <2> QED BY <1>2, <2>1, <2>2, <2>3 DEF SizeInv
<1>3. CASE SkipEscape
  <2>1. /\ Same /\ pc = "expand" /\ turn \in Tokens /\ turn' = NextToken(turn)
        /\ used' = used /\ size' = size - 1 /\ Statement[turn] = Escape
    BY <1>3 DEF SkipEscape
  <2> DEFINE i == turn
  <2>2. \A j \in Tokens : Statement[j] = Escape => Estimate(j)' = 1
    BY <2>1, SameCalls DEF Estimate
  <2>3. \A j \in Tokens : Statement[j] = Escape => Length(Statement[j]) = 2
    BY WrittenTyped DEF CallsInv
  <2>4. PICK j \in Tokens : j = turn
    BY <2>1
  <2>5. Estimate(j)' = 1 /\ Length(Statement[j]) = 2
    BY <2>1, <2>2, <2>3, <2>4
  <2>6. size' = size + (1 - 2)
    BY <1>0, <2>1
  <2> QED BY <1>2, <2>1, <2>4, <2>5, <2>6
<1>4. ASSUME NEW n \in Names, pc = "expand", Same, turn \in Tokens, Statement[turn] = n,
             turn' = NextToken(turn), \A m \in DOMAIN used : used'[m] = used[m],
             NEW s \in Nat, NEW e, Usable(n), e = s + Len(Expanded(bindings[n])),
             used'[n] = [start |-> s, end |-> e],
             size' = size + Grown([start |-> s, end |-> e])
      PROVE  SizeInv'
  <2> DEFINE span == [start |-> s, end |-> e]
  <2>1. SpanSize(span) \in Nat /\ Grown(span) = SpanSize(span) - Length(n)
    BY <1>4, SpanSizeTyped
  <2>2. PICK j \in Tokens : j = turn
    BY <1>4
  <2>3. n # Escape
    BY CharsApart
  <2>4. Statement'[j] = n /\ Statement[j] = n
    BY <1>4, <2>2, SameCalls
  <2>5. Estimate(j)' = SpanSize(used[n])'
    BY <2>3, <2>4 DEF Estimate
  <2>6. SpanSize(used[n])' = SpanSize(span)
    BY <1>4, SameCalls DEF SpanSize
  <2>7. size' = size + (Estimate(j)' - Length(Statement[j]))
    BY <1>4, <2>1, <2>4, <2>5, <2>6
  <2> HIDE DEF span
  <2>8. Estimate(j)' \in Nat
    BY <2>1, <2>5, <2>6
  <2> QED BY <1>2, <1>4, <2>2, <2>7, <2>8
<1>5. ASSUME NEW n \in Names, ExpandFirst(n) PROVE SizeInv'
  <2>1. /\ pc = "expand" /\ turn \in Tokens /\ Statement[turn] = n /\ n \notin DOMAIN used /\ Same
    BY <1>5 DEF ExpandFirst
  <2>2. CASE ~Bound(n) \/ ListError(bindings[n]) # None
    <3>1. pc' = "returned" /\ size' = size
      BY <1>5, <2>2 DEF ExpandFirst, Return, locals
    <3> QED BY <1>0, <3>1 DEF SizeInv
  <2>3. CASE Bound(n) /\ ListError(bindings[n]) = None
    <3> DEFINE s == Len(args)
               e == s + Len(Expanded(bindings[n]))
               span == [start |-> s, end |-> e]
    <3>1. /\ used' = With(used, n, span) /\ size' = size + Grown(span) /\ turn' = NextToken(turn)
      BY <1>5, <2>3 DEF ExpandFirst
    <3>2. Usable(n)
      BY <2>3 DEF Usable, Bound
    <3>3. s \in Nat
      <4>1. args \in Seq(ArgumentValues)
        BY <2>1 DEF SpansInv
      <4> QED BY <4>1, LenProperties
    <3>4. used'[n] = span
      <4> HIDE DEF span
      <4> QED BY <3>1 DEF With
    <3>5. \A m \in DOMAIN used : used'[m] = used[m]
      <4> HIDE DEF span
      <4> QED BY <2>1, <3>1 DEF With
    <3>6. size' = size + Grown([start |-> s, end |-> e]) /\ used'[n] = [start |-> s, end |-> e]
      BY <3>1, <3>4
    <3>7. PICK x \in Nat : x = s
      BY <3>3
    <3>8. e = x + Len(Expanded(bindings[n]))
      BY <3>7
    <3> HIDE DEF s, e
    <3> QED BY <1>4, <2>1, <3>1, <3>2, <3>5, <3>6, <3>7, <3>8
  <2> QED BY <2>2, <2>3
<1>6. ASSUME NEW n \in Names, ExpandAgain(n) PROVE SizeInv'
  <2>1. /\ pc = "expand" /\ turn \in Tokens /\ Statement[turn] = n /\ n \in DOMAIN used /\ Same
        /\ turn' = NextToken(turn) /\ used' = used /\ size' = size + Grown(used[n])
    BY <1>6 DEF ExpandAgain
  <2> DEFINE s == used[n].start
             e == used[n].end
  <2>2. /\ Usable(n) /\ used[n] = [start |-> s, end |-> e]
        /\ s \in Nat /\ e = s + Len(Expanded(bindings[n]))
    BY <2>1 DEF SpansInv, SpanHolds
  <2> HIDE DEF s, e
  <2>3. size' = size + Grown([start |-> s, end |-> e]) /\ used'[n] = [start |-> s, end |-> e]
    BY <2>1, <2>2
  <2>4. \A m \in DOMAIN used : used'[m] = used[m]
    BY <2>1
  <2>5. PICK x \in Nat : x = s
    BY <2>2
  <2> QED BY <1>4, <2>1, <2>2, <2>3, <2>4, <2>5
<1>7. CASE FinishBuild
  <2>1. pc' = "returned" /\ size' = size
    BY <1>7 DEF FinishBuild, Return, locals
  <2> QED BY <1>0, <2>1 DEF SizeInv
<1>8. CASE pc' = "idle" /\ size' \in {size, 0}
  BY <1>0, <1>8 DEF SizeInv
<1>9. CASE UNCHANGED vars
  <2>1. size' = size /\ pc' = pc /\ turn' = turn /\ used' = used /\ Same
    BY <1>9 DEF vars, locals
  <2>2. Statement' = Statement /\ Numbered' = Numbered /\ Prefix' = Prefix
    BY <2>1, SameCalls
  <2>3. Total(Reserved)' = Total(Reserved)
    BY <2>1, <2>2 DEF Reserved, Estimate, SpanSize, Length, Total
  <2> QED BY <2>1, <2>3 DEF SizeInv
<1> QED BY <1>1, <1>3, <1>5, <1>6, <1>7, <1>8, <1>9, QuietSteps

(* A Build that succeeds has reserved enough.                               *)
LEMMA ReserveStep ==
  ASSUME CallsInv, ScanInv, SpansInv, ArgsInv, SizeInv, ReservedSizeSuffices, [Next]_vars
  PROVE  ReservedSizeSuffices'
<1>1. size' \in Nat
  BY SizeStep DEF SizeInv
<1>2. ASSUME UNCHANGED <<dialect, builder>>, Succeeded' => Bytes(result'.sql) <= size'
      PROVE  ReservedSizeSuffices'
  <2>1. Numbered' = Numbered /\ Prefix' = Prefix
    BY <1>2, SameCalls
  <2>2. Bytes(result.sql)' = Bytes(result'.sql)
    BY <2>1 DEF Bytes, Written, Total, Length, IsPlaceholder
  <2> QED BY <1>1, <1>2, <2>2 DEF ReservedSizeSuffices
<1>3. CASE ~Succeeded'
  BY <1>1, <1>3 DEF ReservedSizeSuffices
<1>4. CASE StartBuild /\ result'.sql = Statement /\ size' = Bytes(Statement)
  <2>1. Bytes(result'.sql) <= size'
    BY <1>4, StatementSize
  <2> QED BY <1>2, <1>4, <2>1 DEF StartBuild
<1>5. CASE FinishBuild /\ AllDone /\ result'.sql = Compiled /\ size' = size
  <2>1. Bytes(Compiled) <= size
    BY <1>5, CompiledSize DEF AllDone, SizeInv
  <2> QED BY <1>2, <1>5, <2>1 DEF FinishBuild
<1>6. CASE UNCHANGED vars
  <2>1. UNCHANGED <<dialect, builder>> /\ pc' = pc /\ result' = result /\ size' = size
    BY <1>6 DEF vars
  <2> QED BY <1>2, <2>1 DEF ReservedSizeSuffices, Succeeded
<1> QED BY <1>3, <1>4, <1>5, <1>6, SuccessfulStep

-----------------------------------------------------------------------------
(* The theorems. *)

(* What holds between any two steps of the calls and of Build.             *)
BuilderInv ==
  /\ CallsInv /\ ScanInv /\ SpansInv /\ ArgsInv /\ SizeInv
  /\ FirstMistakeReported /\ StatementMeansBindings /\ ReservedSizeSuffices

(* The invariant holds of a new builder.                                    *)
LEMMA BuilderInit ==
  ASSUME Init
  PROVE  BuilderInv
<1>1. CallsInv
  BY CallsInit
<1>2. pc = "idle" /\ size = 0
  BY DEF Init
<1>3. ScanInv /\ SpansInv /\ ArgsInv /\ SizeInv
  BY <1>2 DEF ScanInv, SpansInv, ArgsInv, SizeInv
<1>4. ~Succeeded
  BY <1>2 DEF Succeeded
<1> QED BY <1>1, <1>2, <1>3, <1>4
        DEF BuilderInv, FirstMistakeReported, StatementMeansBindings, ReservedSizeSuffices

(* Every step of the builder keeps the invariant.                           *)
LEMMA BuilderStep ==
  ASSUME BuilderInv, [Next]_vars
  PROVE  BuilderInv'
<1>1. /\ CallsInv /\ ScanInv /\ SpansInv /\ ArgsInv /\ SizeInv
      /\ FirstMistakeReported /\ StatementMeansBindings /\ ReservedSizeSuffices
  BY DEF BuilderInv
<1>2. CallsInv' /\ ScanInv' /\ SpansInv'
  BY <1>1, CallsStep, ScanStep, SpansStep
<1>3. ArgsInv' /\ SizeInv'
  BY <1>1, ArgsStep, SizeStep
<1>4. FirstMistakeReported' /\ StatementMeansBindings' /\ ReservedSizeSuffices'
  BY <1>1, MistakeStep, MeaningStep, ReserveStep
<1> QED BY <1>2, <1>3, <1>4 DEF BuilderInv

(* The invariant holds of every behaviour of the builder (query.go).        *)
THEOREM BuilderSafe == Spec => []BuilderInv
<1>1. Init => BuilderInv
  BY BuilderInit
<1>2. BuilderInv /\ [Next]_vars => BuilderInv'
  BY BuilderStep
<1> QED BY <1>1, <1>2, PTL DEF Spec

(* What is bound, the order of Bind and the spans of the arguments agree    *)
(* with each other between any two steps of Bind and Build (query.go).      *)
THEOREM BuilderTyped == Spec => []TypeOK
<1>1. BuilderInv => TypeOK
  BY TypeFromInv DEF BuilderInv
<1> QED BY <1>1, BuilderSafe, PTL

(* Of any number of mistakes in the calls and the fragments, Build reports  *)
(* the one that the order of the calls and the statement fix, and it fails  *)
(* only for a mistake (query.go).                                           *)
THEOREM FirstMistakeIsReported == Spec => []FirstMistakeReported
<1>1. BuilderInv => FirstMistakeReported
  BY DEF BuilderInv
<1> QED BY <1>1, BuilderSafe, PTL

(* The statement and the arguments that Build returns say what the          *)
(* fragments say with the values in place of the names, in every dialect    *)
(* and for fragments, lists and bindings of any length (query.go).          *)
THEOREM BuildMeansBindings == Spec => []StatementMeansBindings
<1>1. BuilderInv => StatementMeansBindings
  BY DEF BuilderInv
<1> QED BY <1>1, BuilderSafe, PTL

(* The statement fits the size that Build reserves for it, with any number  *)
(* of arguments (query.go).                                                 *)
THEOREM ReservedSizeIsEnough == Spec => []ReservedSizeSuffices
<1>1. BuilderInv => ReservedSizeSuffices
  BY DEF BuilderInv
<1> QED BY <1>1, BuilderSafe, PTL
=============================================================================
