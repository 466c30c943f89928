----------------------------- MODULE SemVer -----------------------------
(***************************************************************************)
(* Versions (core/semver.cpp).  A text is a sequence of tokens: the        *)
(* separators, runs of digits and other words; no two runs of digits are   *)
(* neighbours.  The C++ int is scaled to MaxInt, every number written      *)
(* without a leading zero has one digit, and a larger one does not fit.    *)
(* A run of digits with leading zeros is the only token of its piece.      *)
(***************************************************************************)
EXTENDS Integers, Sequences, SequencesExt

CONSTANT MaxInt     \* the largest int, below 9 (SemVerCheck)

Vee == <<"v", 0>>
Dot == <<".", 0>>
Dash == <<"-", 0>>
Plus == <<"+", 0>>
Illegal == <<"!", 0>>
Number(n) == <<"number", n>>
Zeros(n) == <<"zeros", n>>      \* the same with leading zeros
Word(n) == <<"word", n>>        \* letters, numbered in their ASCII order

NoVersion == [triple |-> <<>>, pre |-> <<>>]

First(text, token) == Min({i \in 1..Len(text) : text[i] = token} \cup {Len(text) + 1})
Before(text, token) == SubSeq(text, 1, First(text, token) - 1)
After(text, token) == SubSeq(text, First(text, token) + 1, Len(text))

\* A dot begins the next piece; any other token belongs to the last one.
Grown(pieces, token) ==
    IF token = Dot THEN Append(pieces, <<>>)
    ELSE [pieces EXCEPT ![Len(pieces)] = Append(@, token)]

\* The pieces between the dots; "" is one empty piece.
Segments(text) ==
    LET upTo[i \in 0..Len(text)] ==
            IF i = 0 THEN <<<<>>>> ELSE Grown(upTo[i - 1], text[i])
    IN  upTo[Len(text)]

Digits(part) == Len(part) = 1 /\ part[1][1] \in {"number", "zeros"}

\* parsePart: digits that fit; leading zeros do no harm here.
IsPart(part) == Digits(part) /\ part[1][2] <= MaxInt

IsLegalIdentifier(id) ==
    /\ id # <<>>
    /\ \A i \in 1..Len(id) : id[i] # Illegal
    /\ ~(Len(id) = 1 /\ id[1][1] = "zeros")

\* Mutant: the build metadata is cut off after the prerelease was split off.
ParsesDashFirst(text) ==
    LET bare == IF text # <<>> /\ Head(text) = Vee THEN Tail(text) ELSE text
        core == Segments(Before(Before(bare, Dash), Plus))
        pre == Before(After(bare, Dash), Plus)
    IN  IF /\ Len(core) = 3
           /\ \A k \in 1..3 : IsPart(core[k])
           /\ Contains(bare, Dash) => \A k \in 1..Len(Segments(pre)) : IsLegalIdentifier(Segments(pre)[k])
        THEN [triple |-> [k \in 1..3 |-> core[k][1][2]], pre |-> pre]
        ELSE NoVersion

Parse(text) ==
    LET bare == IF text # <<>> /\ Head(text) = Vee THEN Tail(text) ELSE text
        plain == Before(bare, Plus)
        core == Segments(Before(plain, Dash))
        pre == After(plain, Dash)
    IN  IF /\ Len(core) = 3
           /\ \A k \in 1..3 : IsPart(core[k])
           /\ Contains(plain, Dash) => \A k \in 1..Len(Segments(pre)) : IsLegalIdentifier(Segments(pre)[k])
        THEN [triple |-> [k \in 1..3 |-> core[k][1][2]], pre |-> pre]
        ELSE NoVersion

-----------------------------------------------------------------------------
\* Orders are -1, 0 and 1, as strong_ordering.
Sign(n) == IF n < 0 THEN -1 ELSE IF n > 0 THEN 1 ELSE 0

FirstDecides(orders) ==
    LET decisive == {i \in 1..Len(orders) : orders[i] # 0}
    IN  IF decisive = {} THEN 0 ELSE orders[Min(decisive)]

\* ASCII: "-" before digits before letters; a prefix comes first.
Rank(token) == CASE token[1] = "-" -> 0 [] token[1] = "word" -> 20 + token[2] [] OTHER -> token[2] + 1

Lexicographic(s, t) ==
    FirstDecides([i \in 1..Min({Len(s), Len(t)}) |-> Sign(Rank(s[i]) - Rank(t[i]))]
                 \o <<Sign(Len(s) - Len(t))>>)

\* from_chars leaves 0 when the number does not fit.
Value(id) == IF id[1][2] <= MaxInt THEN id[1][2] ELSE 0

CompareIdentifier(lhs, rhs) ==
    CASE Digits(lhs) /\ Digits(rhs) -> Sign(Value(lhs) - Value(rhs))
      [] Digits(lhs) # Digits(rhs) -> IF Digits(lhs) THEN -1 ELSE 1
      [] OTHER -> Lexicographic(lhs, rhs)

ComparePrerelease(lhs, rhs) ==
    CASE lhs = rhs -> 0
      [] lhs # rhs /\ lhs = <<>> -> 1
      [] lhs # rhs /\ rhs = <<>> -> -1
      [] OTHER -> LET l == Segments(lhs)
                      r == Segments(rhs)
                  IN  FirstDecides([i \in 1..Min({Len(l), Len(r)}) |-> CompareIdentifier(l[i], r[i])]
                                   \o <<Sign(Len(l) - Len(r))>>)

\* operator<=>
Compare(v, w) ==
    FirstDecides([k \in 1..3 |-> Sign(v.triple[k] - w.triple[k])] \o <<ComparePrerelease(v.pre, w.pre)>>)
=============================================================================
