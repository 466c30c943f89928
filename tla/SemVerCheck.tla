---------------------------- MODULE SemVerCheck ----------------------------
(***************************************************************************)
(* SemVer against the pieces versions are written from and the order that  *)
(* Semantic Versioning gives them.                                         *)
(***************************************************************************)
EXTENDS Integers, Sequences, SequencesExt

CONSTANTS
    MaxInt,
    Triples, Pres,          \* pieces of versions
    Others                  \* the triples they are compared with

ASSUME WidthAssumption == MaxInt \in 1..8

VARIABLE versions   \* the pieces of two versions

V == INSTANCE SemVer

\* What a piece is made of, legal or not.
Atoms == ({"number", "zeros"} \X (0..9)) \cup ({"word"} \X Nat) \cup {V!Illegal}

ASSUME PiecesAssumption ==
    /\ Triples \cup Others \subseteq Seq(Seq(Atoms))
    /\ Pres \subseteq Seq(Seq(Atoms \cup {V!Dash}))
    /\ \A pre \in Pres : \A k \in 1..Len(pre) :
          Len(pre[k]) > 1 => \A i \in 1..Len(pre[k]) : pre[k][i][1] # "zeros"

\* Two versions: the left one with or without a prefix and build metadata.
Versions ==
    [given : {TRUE}, dressed : BOOLEAN, left : Triples \X Pres, right : Others \X Pres]

NoVersions == [given |-> FALSE]

Joined(pieces, separator) ==
    LET upTo[i \in 0..Len(pieces)] ==
            IF i = 0 THEN <<>>
            ELSE upTo[i - 1] \o (IF i = 1 THEN <<>> ELSE <<separator>>) \o pieces[i]
    IN  upTo[Len(pieces)]

Spelled(pieces, dressed) ==
    (IF dressed THEN <<V!Vee>> ELSE <<>>)
    \o Joined(pieces[1], V!Dot)
    \o (IF pieces[2] = <<>> THEN <<>> ELSE <<V!Dash>> \o Joined(pieces[2], V!Dot))
    \o (IF dressed THEN <<V!Plus, V!Word(1), V!Dash, V!Word(2)>> ELSE <<>>)

Proper(pieces) ==
    /\ Len(pieces[1]) = 3
    /\ \A k \in 1..Len(pieces[1]) : V!IsPart(pieces[1][k])
    /\ \A k \in 1..Len(pieces[2]) : V!IsLegalIdentifier(pieces[2][k])

Fits(pieces) == \A k \in 1..Len(pieces[2]) : V!Digits(pieces[2][k]) => pieces[2][k][1][2] <= MaxInt

\* SemVer 11.4, of exact numbers.
LowerIdentifier(a, b) ==
    \/ V!Digits(a) /\ V!Digits(b) /\ a[1][2] < b[1][2]
    \/ V!Digits(a) /\ ~V!Digits(b)
    \/ ~V!Digits(a) /\ ~V!Digits(b) /\ V!Lexicographic(a, b) = -1

\* a is a proper prefix of b, or lower at the first difference.
LowerList(a, b, Lower(_, _)) ==
    \/ IsStrictPrefix(a, b)
    \/ \E i \in 1..Min({Len(a), Len(b)}) :
          SubSeq(a, 1, i - 1) = SubSeq(b, 1, i - 1) /\ Lower(a[i], b[i])

Numbers(triple) == [k \in 1..3 |-> triple[k][1][2]]

\* SemVer 11.
Precedes(v, w) ==
    \/ LowerList(Numbers(v[1]), Numbers(w[1]), <)
    \/ /\ Numbers(v[1]) = Numbers(w[1])
       /\ \/ v[2] # <<>> /\ w[2] = <<>>
          \/ v[2] # <<>> /\ w[2] # <<>> /\ LowerList(v[2], w[2], LowerIdentifier)

VersionsInit == versions \in Versions \cup {NoVersions}

VersionsSpec == VersionsInit /\ [][UNCHANGED versions]_versions

\* A text is accepted exactly when its pieces are proper, prefix and build
\* metadata never matter, and operator<=> is the precedence of SemVer as
\* long as the numbers of the prereleases fit an int.
VersionsAreSemVer ==
    versions.given =>
        LET left == V!Parse(Spelled(versions.left, versions.dressed))
            right == V!Parse(Spelled(versions.right, FALSE))
        IN  /\ left = V!NoVersion <=> ~Proper(versions.left)
            /\ (Proper(versions.left) /\ Proper(versions.right) /\ Fits(versions.left) /\ Fits(versions.right)) =>
                  /\ V!Compare(left, right) = -1 <=> Precedes(versions.left, versions.right)
                  /\ V!Compare(left, right) = 1 <=> Precedes(versions.right, versions.left)
                  /\ V!Compare(left, right) = 0 <=> left = right
=============================================================================
