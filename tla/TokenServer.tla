-------------------------- MODULE TokenServer --------------------------
(***************************************************************************)
(* The servers' side of a human session, as far as the CLI depends on it.  *)
(* The server is another program; its contract is the token_refresh entry  *)
(* of protocol/snapshots/v2/MANIFEST.json: the refresh token rotates, and  *)
(* presenting one that was already rotated revokes the whole family (401). *)
(***************************************************************************)
EXTENDS Tokens

CONSTANT MaxGen     \* bound: how often each family may rotate

ASSUME MaxGenAssumption == MaxGen \in [Family -> Nat]

VARIABLES
    issued,     \* families handed out by an approved device flow
    current,    \* current[f]: generation the server accepts for a refresh
    revoked,    \* families that accept nothing any more
    replayed    \* families revoked because a spent refresh token came back

serverVars == <<issued, current, revoked, replayed>>

ServerTypeOK ==
    /\ issued \subseteq Family
    /\ current \in [Family -> Nat]
    /\ revoked \subseteq Family
    /\ replayed \subseteq Family

ServerInit ==
    /\ issued = {}
    /\ current = [f \in Family |-> 0]
    /\ revoked = {}
    /\ replayed = {}

Spent(t) == t.gen < current[t.family]

\* 200 from the refresh endpoint: t is the family's current pair.
Rotates(t) ==
    /\ ~Spent(t)
    /\ t.family \notin revoked
    /\ current[t.family] < MaxGen[t.family]
    /\ current' = [current EXCEPT ![t.family] = t.gen + 1]
    /\ UNCHANGED <<issued, revoked, replayed>>

\* The family stops accepting anything, access tokens included.
Revokes(f) ==
    /\ revoked' = revoked \cup {f}
    /\ UNCHANGED <<issued, current>>

\* 401 from the refresh endpoint: a revoked family, or a spent token, whose
\* reappearance revokes the family.
Rejects(t) ==
    /\ Spent(t) \/ t.family \in revoked
    /\ Revokes(t.family)
    /\ replayed' = IF Spent(t) THEN replayed \cup {t.family} ELSE replayed

\* An approved device flow (or registration) creates a family.
Issues(f) ==
    /\ f \notin issued
    /\ issued' = issued \cup {f}
    /\ UNCHANGED <<current, revoked, replayed>>

\* POST /auth/logout, or an administrator ending the session.
EndsFamily(f) ==
    /\ f \in issued
    /\ Revokes(f)
    /\ UNCHANGED replayed

\* A bearer request.  An access token is short-lived and its lifetime ends
\* at a time of the server's choosing, so a 401 is always possible and a
\* revoked family gets nothing else.
MayAccept(t) == t.family \notin revoked
=============================================================================
