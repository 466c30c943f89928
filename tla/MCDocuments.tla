--------------------------- MODULE MCDocuments ---------------------------
(***************************************************************************)
(* Instance of Documents: every client is an actor of its own, and there   *)
(* are two contents next to the empty one.                                 *)
(***************************************************************************)
EXTENDS Documents, TLC

CONSTANTS x, y, c1, c2

MCActorOf == [c \in Client |-> c]

Symmetry == Permutations(Client) \cup Permutations({x, y})
=============================================================================
