-------------------------- MODULE MCSelfUpdate --------------------------
(***************************************************************************)
(* Instance of SelfUpdate: three executions, so that one can start from    *)
(* what a second installed while a third still runs the first file.  Some  *)
(* initial states are of two versions instead, with every kind of          *)
(* identifier, right and wrong, in numbers that fit and that do not.       *)
(***************************************************************************)
EXTENDS SelfUpdate, SemVerCheck, TLC

CONSTANTS p1, p2, p3

Digit(n) == <<V!Number(n)>>

MCTriples ==
    {<<Digit(i), Digit(j), Digit(k)>> : i, j, k \in 0..1}
    \cup {<<Digit(0), Digit(0)>>, <<Digit(0), Digit(0), Digit(0), Digit(0)>>, <<Digit(0), <<>>, Digit(0)>>,
          <<Digit(0), Digit(9), Digit(0)>>, <<Digit(0), <<V!Word(1)>>, Digit(0)>>,
          <<Digit(0), <<V!Zeros(1)>>, Digit(0)>>}

MCOthers == {<<Digit(0), Digit(0), Digit(0)>>, <<Digit(0), Digit(1), Digit(0)>>, <<Digit(0), <<V!Zeros(1)>>, Digit(1)>>}

MCPres ==
    BoundedSeq({Digit(0), Digit(2), Digit(9), <<V!Zeros(1)>>, <<V!Word(1)>>,
                <<V!Word(1), V!Dash, V!Number(1)>>, <<>>, <<V!Illegal>>}, 2)

InitAll == Init /\ VersionsInit /\ (versions.given => platform = "linux")

SpecAll == InitAll /\ [][~versions.given /\ Next /\ UNCHANGED versions]_<<vars, versions>>

Symmetry == Permutations(Proc)
=============================================================================
