---------------------------- MODULE MCWorkspace ----------------------------
(* Workspace with a directory in a directory, a server with two workspaces *)
(* and another one with none.  Some initial states are of a target that is *)
(* written in one of its spellings instead, on servers with and without a  *)
(* sub-path.                                                               *)
EXTENDS Workspace, ServerUrlCheck, TLC

CONSTANTS c1, c2, s1, s2, i1, i2, n1, n2, top, sub

MCHomeOf == i1 :> s1 @@ i2 :> s1
MCParent == top :> top @@ sub :> top

Line(d, s, n, create, rebind) ==
    [dir |-> d, server |-> s, name |-> n, create |-> create, rebind |-> rebind]

MCInitLine ==
    {Line(top, s1, n1, TRUE, FALSE), Line(sub, s1, n2, FALSE, TRUE)}

Say(s, n) == [server |-> s, name |-> n]

MCCommandLine ==
    {[flags |-> Say(None, None), env |-> Say(s2, n1), dir |-> sub],
     [flags |-> Say(s1, n2), env |-> Say(None, None), dir |-> top],
     [flags |-> Say(s1, None), env |-> Say(s2, n1), dir |-> top]}

MCPaths == {<<>>, <<U!Lower("sub")>>, <<U!Upper("sub"), U!Lower("sub")>>}

MCWorkspaces == {U!Lower("ws"), U!Upper("ws"), U!Lower("sub")}

NextAll ==
    \/ ~wanted.given /\ Next /\ UNCHANGED wanted
    \/ wanted.given /\ UNCHANGED <<vars, wanted>>

InitAll == Init /\ TargetInit

SpecAll == InitAll /\ [][NextAll]_<<vars, wanted>>

Symm == Permutations({c1, c2})
=============================================================================
