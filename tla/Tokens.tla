---------------------------- MODULE Tokens ----------------------------
(***************************************************************************)
(* The data every session module talks about: servers, token families and *)
(* the rotating pairs of a family.  A LoginSession of                      *)
(* platform/credential_store.hpp holds an access and a refresh token that  *)
(* are always issued together, so one record stands for the pair:          *)
(* the family it belongs to and its generation within that family.         *)
(***************************************************************************)
EXTENDS Naturals

CONSTANTS
    Url,        \* normalized server URLs: the keys of the "sessions" slot
    Family,     \* refresh-token families a server may ever issue
    Home,       \* Home[f]: the server that issues family f
    NoToken     \* no pair: absent entry, or nothing held in memory

ASSUME UrlAssumption == Url # {}

ASSUME HomeAssumption == Home \in [Family -> Url]

Token == [family : Family, gen : Nat]

ASSUME NoTokenAssumption == NoToken \notin Token

MaybeToken == Token \cup {NoToken}

\* The pair that replaces t when the refresh endpoint rotates it.
Successor(t) == [family |-> t.family, gen |-> t.gen + 1]
=============================================================================
