--------------------------- MODULE MCQueryBuilder ---------------------------
(***************************************************************************)
(* Instances of QueryBuilder for TLC: scalars, lists of two and of nine    *)
(* elements, so that numbers reach two digits, empty and nested lists, and *)
(* lists that Scalar keeps whole.                                          *)
(***************************************************************************)
EXTENDS QueryBuilder

CONSTANTS a, b, x, y

MCValues ==
  {One(x),
   List(<<One(x), One(y)>>),
   List([k \in 1 .. 9 |-> One(x)]),
   List(<<>>),
   List(<<One(x), List(<<One(y)>>)>>),
   Scalar(List(<<One(x)>>)),
   List(<<Scalar(List(<<>>)), One(y)>>)}

MCFragments ==
  {<<>>, <<a>>, <<a, Text, b>>, <<b, Escape, b>>, <<Escape, Text>>, <<Refused>>}
=============================================================================
