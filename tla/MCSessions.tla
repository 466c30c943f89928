--------------------------- MODULE MCSessions ---------------------------
(***************************************************************************)
(* Instance of Sessions: two servers, the first of which can issue two     *)
(* families (a login while an older session still lives).                  *)
(***************************************************************************)
EXTENDS Sessions, TLC

CONSTANTS u1, u2, f1, f2, g1, p1, p2

MCHome == [f \in Family |-> IF f = g1 THEN u2 ELSE u1]

\* Every family rotates twice / one family of each server rotates once.
TwiceEach == [f \in Family |-> 2]
OnceFirst == [f \in Family |-> IF f = f2 THEN 0 ELSE 1]

Symmetry == Permutations(Proc)
=============================================================================
