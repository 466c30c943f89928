------------------------- MODULE SessionRegister -------------------------
(***************************************************************************)
(* What the credentials file promises its user, without files, processes   *)
(* or crashes: one independent register per server.  A login puts the      *)
(* first pair of a new family there, a refresh replaces the pair by a      *)
(* later one of the same family, a logout or a dead family empties it, and *)
(* no step touches two servers.                                            *)
(***************************************************************************)
EXTENDS Tokens

VARIABLE stored

Init == stored = [u \in Url |-> NoToken]

Login(u) ==
    \E f \in Family :
        /\ Home[f] = u
        /\ stored' = [stored EXCEPT ![u] = [family |-> f, gen |-> 0]]

Rotate(u) ==
    /\ stored[u] # NoToken
    /\ \E t \in {Successor(stored[u])} : stored' = [stored EXCEPT ![u] = t]

Drop(u) == stored' = [stored EXCEPT ![u] = NoToken]

Next == \E u \in Url : Login(u) \/ Rotate(u) \/ Drop(u)

Spec == Init /\ [][Next]_stored
=============================================================================
