-------------------------- MODULE WorkspaceProofs --------------------------
(***************************************************************************)
(* What TLAPS proves of Workspace for any servers, directories and         *)
(* processes: a binding leads to the workspace that was verified for it,   *)
(* it is replaced only with leave, and a name is taken only for a reason.  *)
(* And of ServerUrl: every spelling of a target leads to one key.          *)
(***************************************************************************)
EXTENDS Workspace, ServerUrlCheck, SequenceTheorems, TLAPS

\* A binding names what init verified, unless the file was changed by hand.
Certified == \A d \in Dir : file[d] \in Binding => verified[d] = file[d].id

\* Past its lookup, init works for a job and on a workspace that exists, and
\* past the verification with its name.
Working ==
    \A c \in Client :
        /\ pc[c] # "idle" => job[c] \in InitJob
        /\ pc[c] \in {"verify", "read", "write"} =>
              target[c] \in Id /\ nameOf[target[c]] \in Name
        /\ pc[c] \in {"read", "write"} => called[c] \in Name

\* A workspace has a name and a slug, or does not exist.
NamesPaired == \A i \in Id : nameOf[i] = None <=> slugOf[i] = None

\* Who is about to write has leave to replace what it has read.
Entitled ==
    \A c \in Client : pc[c] = "write" =>
        seen[c] = Unbound \/ seen[c].id = target[c] \/ job[c].rebind

\* Who is about to create has reason to expect the name to be free.
Expecting ==
    \A c \in Client : pc[c] = "create" /\ ~excuse[c] =>
        Named(job[c].server, job[c].name) = {}

Inv ==
    /\ TypeOK
    /\ Certified
    /\ Working
    /\ NamesPaired
    /\ Entitled
    /\ Expecting
    /\ ReachesVerified

-----------------------------------------------------------------------------
\* A value read from the file of a directory is one of three.
LEMMA Distinct == Malformed \notin Binding /\ Unbound \notin Binding
BY WorkspaceAssumption DEF Malformed, Unbound, Binding

LEMMA InitInv == Init => Inv
BY WorkspaceAssumption, Distinct
   DEF Init, Inv, TypeOK, Certified, Working, NamesPaired, Entitled, Expecting, ReachesVerified, NoOutcome

-----------------------------------------------------------------------------
(***************************************************************************)
(* The steps of init                                                       *)
(***************************************************************************)

InitStep(c) ==
    \/ \E j \in InitLine : StartInit(c, j)
    \/ Lookup(c) \/ Creates(c) \/ Taken(c) \/ Verify(c)
    \/ ReadExisting(c) \/ Write(c) \/ Fails(c)

\* Every value stays in its type.
LEMMA InitStepType ==
    ASSUME TypeOK, Working, NEW c \in Client, InitStep(c)
    PROVE  TypeOK'
<1> USE DEF TypeOK, initVars, serverVars, Quits, Ends, GoesOn
<1>1. ASSUME NEW j \in InitLine, StartInit(c, j) PROVE TypeOK'
  BY <1>1, LineAssumption DEF StartInit
<1>2. CASE Lookup(c)
  BY <1>2 DEF Lookup, LookedUp, Found, Named
<1>3. CASE Creates(c)
  <2>1. job[c] \in InitJob
    BY <1>3 DEF Creates, Working
  <2>2. job[c].name \in Name
    BY <2>1 DEF InitJob
  <2>3. nameOf' \in [Id -> Name \cup {None}] /\ slugOf' \in [Id -> Name \cup {None}]
    BY <1>3, <2>2 DEF Creates
  <2>4. excuse' \in [Client -> BOOLEAN]
    BY <1>3 DEF Creates, Excuses
  <2> QED
    BY <1>3, <2>3, <2>4 DEF Creates
<1>4. CASE Taken(c) \/ Verify(c) \/ Fails(c)
  BY <1>4 DEF Taken, Verify, Fails
<1>5. CASE ReadExisting(c)
  BY <1>5 DEF ReadExisting, Working, InitJob
<1>6. CASE Write(c)
  BY <1>6 DEF Write, Working, InitJob, Binding
<1> QED
  BY <1>1, <1>2, <1>3, <1>4, <1>5, <1>6 DEF InitStep

\* Only the last step touches a file, and it notes what it verified.
LEMMA InitStepCertified ==
    ASSUME TypeOK, Working, Certified, NEW c \in Client, InitStep(c)
    PROVE  Certified' /\ ReachesVerified'
<1>1. outcome' = NoOutcome
  BY DEF InitStep, StartInit, Lookup, Creates, Taken, Verify, ReadExisting, Write, Fails,
         Quits, Ends, GoesOn
<1>2. CASE Write(c)
  BY <1>1, <1>2 DEF Write, Certified, ReachesVerified, NoOutcome, TypeOK, Working, InitJob
<1>3. CASE UNCHANGED <<file, verified>>
  BY <1>1, <1>3 DEF Certified, ReachesVerified, NoOutcome
<1> QED
  BY <1>2, <1>3 DEF InitStep, StartInit, Lookup, Creates, Taken, Verify, ReadExisting, Fails

\* The target is looked up or made before it is verified.
LEMMA InitStepWorking ==
    ASSUME TypeOK, Working, NamesPaired, NEW c \in Client, InitStep(c)
    PROVE  Working' /\ NamesPaired'
<1> USE DEF TypeOK, NamesPaired, Working, initVars, serverVars, Quits, Ends, GoesOn
<1>1. ASSUME NEW j \in InitLine, StartInit(c, j) PROVE Working' /\ NamesPaired'
  BY <1>1, LineAssumption DEF StartInit
<1>2. CASE Lookup(c)
  <2>1. job[c] \in InitJob
    BY <1>2 DEF Lookup
  <2>2. \A i \in LookedUp(job[c]) : i \in Id /\ nameOf[i] \in Name
    BY <2>1, WorkspaceAssumption DEF LookedUp, Found, Named, InitJob
  <2> QED
    BY <1>2, <2>2 DEF Lookup
<1>3. CASE Creates(c)
  <2>1. job[c].name \in Name
    BY <1>3 DEF Creates, InitJob
  <2> QED
    BY <1>3, <2>1, WorkspaceAssumption DEF Creates
<1>4. CASE Taken(c) \/ Verify(c) \/ Fails(c)
  BY <1>4 DEF Taken, Verify, Fails
<1>5. CASE ReadExisting(c)
  BY <1>5 DEF ReadExisting
<1>6. CASE Write(c)
  BY <1>6 DEF Write
<1> QED
  BY <1>1, <1>2, <1>3, <1>4, <1>5, <1>6 DEF InitStep

\* The binding it replaces is judged against the target, which stays.
LEMMA InitStepEntitled ==
    ASSUME TypeOK, Working, Entitled, NEW c \in Client, InitStep(c)
    PROVE  Entitled'
<1> USE DEF TypeOK, Entitled, initVars, serverVars, Quits, Ends, GoesOn
<1>1. ASSUME NEW j \in InitLine, StartInit(c, j) PROVE Entitled'
  BY <1>1 DEF StartInit
<1>2. CASE Lookup(c)
  BY <1>2 DEF Lookup
<1>3. CASE Creates(c)
  BY <1>3 DEF Creates
<1>4. CASE Taken(c) \/ Verify(c) \/ Fails(c) \/ Write(c)
  BY <1>4 DEF Taken, Verify, Fails, Write
<1>5. CASE ReadExisting(c)
  BY <1>5 DEF ReadExisting, SameTarget
<1> QED
  BY <1>1, <1>2, <1>3, <1>4, <1>5 DEF InitStep

\* Whoever takes a name excuses all who wait for it.
LEMMA InitStepExpecting ==
    ASSUME TypeOK, Working, Expecting, NEW c \in Client, InitStep(c)
    PROVE  Expecting'
<1> USE DEF TypeOK, Expecting, initVars, serverVars, Quits, Ends, GoesOn
<1>1. ASSUME NEW j \in InitLine, StartInit(c, j) PROVE Expecting'
  BY <1>1 DEF StartInit, Named
<1>2. CASE Lookup(c)
  <2>1. LookedUp(job[c]) = Named(job[c].server, job[c].name) \cap visible
    BY DEF LookedUp, Found
  <2>2. \A s, n : Named(s, n)' = Named(s, n)
    BY <1>2 DEF Lookup, Named
  <2> QED
    BY <1>2, <2>1, <2>2 DEF Lookup
<1>3. CASE Creates(c)
  <2>1. PICK i \in Id :
            /\ HomeOf[i] = job[c].server
            /\ nameOf' = [nameOf EXCEPT ![i] = job[c].name]
            /\ slugOf' = [slugOf EXCEPT ![i] = job[c].name]
            /\ excuse' = [Excuses(job[c].server, job[c].name) EXCEPT ![c] = FALSE]
    BY <1>3 DEF Creates
  <2>2. pc'[c] # "create" /\ job' \in [Client -> InitJob \cup {NoJob}]
    BY <1>3 DEF Creates
  <2>3. SUFFICES ASSUME NEW d \in Client \ {c}, pc'[d] = "create", ~excuse'[d]
                 PROVE  \A k \in Id : HomeOf[k] = job'[d].server =>
                                          job'[d].name \notin {nameOf'[k], slugOf'[k]}
    BY <2>2 DEF Named
  <2>4. pc[d] = "create" /\ job'[d] = job[d]
    BY <1>3, <2>3 DEF Creates
  <2>5. ~excuse[d] /\ ~(job[d].server = job[c].server /\ job[d].name = job[c].name)
    BY <2>1, <2>3, <2>4 DEF Excuses
  <2> QED
    BY <2>1, <2>4, <2>5 DEF Named
<1>4. CASE Taken(c) \/ Verify(c) \/ Fails(c) \/ Write(c)
  BY <1>4 DEF Taken, Verify, Fails, Write, Named
<1>5. CASE ReadExisting(c)
  BY <1>5 DEF ReadExisting, Named
<1> QED
  BY <1>1, <1>2, <1>3, <1>4, <1>5 DEF InitStep

LEMMA InitStepInv ==
    ASSUME Inv, NEW c \in Client, InitStep(c)
    PROVE  Inv'
BY InitStepType, InitStepCertified, InitStepWorking, InitStepEntitled, InitStepExpecting DEF Inv

-----------------------------------------------------------------------------
(***************************************************************************)
(* The steps of others                                                     *)
(***************************************************************************)

\* Workspaces come and change names; the new name excuses who waits for it.
LEMMA NamesInv ==
    ASSUME Inv, NEW i \in Id, NEW n \in Name, Names(i, n)
    PROVE  Inv'
<1> USE DEF Inv, Names, initVars
<1>1. TypeOK'
  BY DEF TypeOK, Excuses
<1>2. Certified' /\ ReachesVerified'
  BY DEF Certified, ReachesVerified, NoOutcome
<1>3. Working' /\ NamesPaired'
  BY WorkspaceAssumption DEF Working, NamesPaired, TypeOK
<1>4. Entitled'
  BY DEF Entitled
<1>5. Expecting'
  <2> SUFFICES ASSUME NEW c \in Client, pc[c] = "create", ~excuse'[c]
               PROVE  \A k \in Id : HomeOf[k] = job[c].server =>
                                        job[c].name \notin {nameOf'[k], slugOf'[k]}
    BY DEF Expecting, Named
  <2>1. ~excuse[c] /\ ~(job[c].server = HomeOf[i] /\ job[c].name = n)
    BY DEF Excuses
  <2> QED
    BY <2>1 DEF Expecting, Named, TypeOK
<1> QED
  BY <1>1, <1>2, <1>3, <1>4, <1>5

LEMMA MembershipInv ==
    ASSUME Inv, NEW i \in Id, Membership(i)
    PROVE  Inv'
BY DEF Inv, Membership, initVars, TypeOK, Certified, ReachesVerified, NoOutcome, Working, Entitled,
   NamesPaired, Expecting, Named

\* A file that somebody removed or spoiled is no binding.
LEMMA EditedInv ==
    ASSUME Inv, NEW d \in Dir, Edited(d)
    PROVE  Inv'
<1> USE DEF Inv, Edited, initVars, serverVars
<1>1. TypeOK'
  BY DEF TypeOK
<1>2. Certified' /\ ReachesVerified'
  BY Distinct DEF Certified, ReachesVerified, NoOutcome, TypeOK
<1>3. Working' /\ NamesPaired' /\ Entitled' /\ Expecting'
  BY DEF Working, NamesPaired, Entitled, Expecting, Named
<1> QED
  BY <1>1, <1>2, <1>3

\* Other commands change nothing, and go by a binding only if it is one.
LEMMA RunsInv ==
    ASSUME Inv, NEW flags, NEW env, NEW d, Runs(flags, env, d)
    PROVE  Inv'
<1> USE DEF Inv, Runs, initVars, serverVars
<1>1. TypeOK' /\ Certified' /\ Working' /\ NamesPaired' /\ Entitled' /\ Expecting'
  BY DEF TypeOK, Certified, Working, NamesPaired, Entitled, Expecting, Named
<1>2. ReachesVerified'
  <2> SUFFICES ASSUME outcome'.by = "binding"
               PROVE  outcome'.id = verified[outcome'.dir]
    BY DEF ReachesVerified
  <2>1. outcome' = WorkspaceReached(flags, env, d)
    BY DEF ServerReached, Diagnosed, Failure
  <2>2. /\ ~Spoiled(d) /\ Nearest(d) # {}
        /\ outcome' = LET a == CHOOSE x \in Nearest(d) : TRUE IN ByBinding(file[a], a)
    BY <2>1 DEF WorkspaceReached, ByLookup, Failure, Both, Neither
  <2>3. PICK a \in Nearest(d) : outcome' = ByBinding(file[a], a)
    BY <2>2
  <2>4. a \in Dir /\ file[a] \in Binding
    BY <2>2, <2>3 DEF Nearest, Above, Spoiled, TypeOK
  <2> QED
    BY <2>3, <2>4 DEF ByBinding, Certified
<1> QED
  BY <1>1, <1>2

LEMMA NextInv == Inv /\ [Next]_vars => Inv'
<1> SUFFICES ASSUME Inv, [Next]_vars
             PROVE  Inv'
  OBVIOUS
<1>1. ASSUME NEW c \in Client, InitStep(c) PROVE Inv'
  BY <1>1, InitStepInv
<1>2. ASSUME NEW l \in CommandLine, Runs(l.flags, l.env, l.dir) PROVE Inv'
  BY <1>2, RunsInv
<1>3. ASSUME NEW i \in Id, Membership(i) PROVE Inv'
  BY <1>3, MembershipInv
<1>4. ASSUME NEW i \in Id, NEW n \in Name, Names(i, n) PROVE Inv'
  BY <1>4, NamesInv
<1>5. ASSUME NEW d \in Dir, Edited(d) PROVE Inv'
  BY <1>5, EditedInv
<1>6. CASE UNCHANGED vars
  BY <1>6 DEF vars, Inv, TypeOK, Certified, Working, NamesPaired, Entitled, Expecting, Named, ReachesVerified
<1> QED
  BY <1>1, <1>2, <1>3, <1>4, <1>5, <1>6 DEF Next, InitStep

LEMMA Invariant == Spec => []Inv
BY InitInv, NextInv, PTL DEF Spec

-----------------------------------------------------------------------------
\* The variables of init, of the servers and of the files keep their types.
THEOREM TypeCorrect == Spec => []TypeOK
BY Invariant, PTL DEF Inv

\* However workspaces are renamed and their names reused, a command that goes
\* by a binding reaches the workspace init verified for it (resolveWorkspace).
THEOREM ByIdOnly == Spec => []ReachesVerified
BY Invariant, PTL DEF Inv

\* init replaces another workspace's binding only with --rebind, or when the
\* file changes between its reading and its writing (init_cmd.cpp, step 4).
THEOREM ReplacedWithLeave == Spec => ReplacesOnlyWithLeave
<1>1. Inv => [\A c \in Client : Write(c) =>
                LET b == file[job[c].dir]
                IN  \/ b = Unbound \/ b.id = target[c]
                    \/ b # seen[c]
                    \/ b # Malformed /\ job[c].rebind]_vars
  BY Distinct DEF Inv, Write, Entitled, TypeOK
<1> QED
  BY <1>1, Invariant, PTL DEF ReplacesOnlyWithLeave

\* init --create reports a name as taken only when the user cannot see whose
\* it is, or it was taken after the lookup.
THEOREM TakenForAReason == Spec => TakenHasCause
<1>1. Inv => [\A c \in Client : Taken(c) => excuse[c]]_vars
  BY DEF Inv, Taken, Expecting, TypeOK
<1> QED
  BY <1>1, Invariant, PTL DEF TakenHasCause

-----------------------------------------------------------------------------
\* Targets: what names are made of, and the tokens of a URL.
Piece == Words \X BOOLEAN
Token == Piece \cup {U!Separator, U!Colon, U!Slash}

\* No piece is a separator, and the separators differ.
LEMMA TokensDiffer ==
    /\ U!Separator # U!Colon /\ U!Separator # U!Slash /\ U!Colon # U!Slash
    /\ \A p \in Piece : p # U!Separator /\ p # U!Colon /\ p # U!Slash
    /\ U!ToLower(<<>>) = <<>>
<1>1. U!Separator # U!Colon /\ U!Separator # U!Slash /\ U!Colon # U!Slash
  BY DEF U!Separator, U!Colon, U!Slash
<1>2. \A p \in Piece : p # U!Separator /\ p # U!Colon /\ p # U!Slash
  <2> SUFFICES ASSUME NEW p \in Piece PROVE p # U!Separator /\ p # U!Colon /\ p # U!Slash
    OBVIOUS
  <2>1. PICK w \in Words, b \in BOOLEAN : p = <<w, b>>
    BY DEF Piece
  <2>2. w # "://" /\ w # ":" /\ w # "/"
    BY TargetAssumption
  <2> QED
    BY <2>1, <2>2 DEF U!Separator, U!Colon, U!Slash
<1>3. U!ToLower(<<>>) = <<>>
  BY DEF U!ToLower
<1> QED
  BY <1>1, <1>2, <1>3

\* The least and the greatest of a set, where it is known.
LEMMA MinOf == ASSUME NEW S \in SUBSET Int, NEW x \in S, \A y \in S : x <= y PROVE U!Min(S) = x
<1>1. \E m \in S : \A y \in S : m <= y
  OBVIOUS
<1>2. U!Min(S) \in S /\ \A y \in S : U!Min(S) <= y
  BY <1>1 DEF U!Min
<1>3. U!Min(S) <= x /\ x <= U!Min(S) /\ x \in Int /\ U!Min(S) \in Int
  BY <1>2
<1> QED
  BY <1>3

LEMMA MaxOf == ASSUME NEW S \in SUBSET Int, NEW x \in S, \A y \in S : y <= x PROVE U!Max(S) = x
<1>1. \E m \in S : \A y \in S : m >= y
  OBVIOUS
<1>2. U!Max(S) \in S /\ \A y \in S : U!Max(S) >= y
  BY <1>1 DEF U!Max
<1>3. U!Max(S) >= x /\ x >= U!Max(S) /\ x \in Int /\ U!Max(S) \in Int
  BY <1>2
<1> QED
  BY <1>3

-----------------------------------------------------------------------------
\* A URL is where it starts, up to the port, and a path: nothing or a slash
\* and more.
Ports == {<<>>, <<U!Colon, U!Lower(Port)>>}
Begin(s, h, p) == <<s, U!Separator, h>> \o p
IsPath(P) == P \in Seq(Token) /\ (P # <<>> => P[1] = U!Slash)
Low(s) == <<s[1], FALSE>>

\* What short tuples of tokens are.
LEMMA TuplesAre ==
    /\ \A a, b, c \in Token :
          /\ <<a, b, c>> \in Seq(Token) /\ Len(<<a, b, c>>) = 3
          /\ <<a, b, c>>[1] = a /\ <<a, b, c>>[2] = b /\ <<a, b, c>>[3] = c
    /\ \A d, e \in Token :
          /\ <<d, e>> \in Seq(Token) /\ Len(<<d, e>>) = 2
          /\ <<d, e>>[1] = d /\ <<d, e>>[2] = e /\ <<d, e>> # <<>>
<1>1. \A a, b, c \in Token :
          /\ <<a, b, c>> \in Seq(Token) /\ Len(<<a, b, c>>) = 3
          /\ <<a, b, c>>[1] = a /\ <<a, b, c>>[2] = b /\ <<a, b, c>>[3] = c
  OBVIOUS
<1>2. \A d, e \in Token :
          /\ <<d, e>> \in Seq(Token) /\ Len(<<d, e>>) = 2
          /\ <<d, e>>[1] = d /\ <<d, e>>[2] = e /\ <<d, e>> # <<>>
  OBVIOUS
<1> QED
  BY <1>1, <1>2

\* A concatenation, piece by piece.
LEMMA Concatenated ==
    ASSUME NEW a \in Seq(Token), NEW b \in Seq(Token)
    PROVE  /\ a \o b \in Seq(Token)
           /\ Len(a \o b) = Len(a) + Len(b)
           /\ \A i \in 1..Len(a) : (a \o b)[i] = a[i]
           /\ \A i \in 1..Len(b) : (a \o b)[Len(a) + i] = b[i]
           /\ SubSeq(a \o b, 1, Len(a)) = a
           /\ SubSeq(a \o b, Len(a) + 1, Len(a \o b)) = b
<1>1. a \o b \in Seq(Token) /\ Len(a \o b) = Len(a) + Len(b)
  BY ConcatProperties
<1>2. \A i \in 1..Len(a) : (a \o b)[i] = a[i]
  BY ConcatProperties
<1>3. \A i \in 1..Len(b) : (a \o b)[Len(a) + i] = b[i]
  <2> SUFFICES ASSUME NEW i \in 1..Len(b) PROVE (a \o b)[Len(a) + i] = b[i]
    OBVIOUS
  <2>1. Len(a) \in Nat /\ Len(b) \in Nat
    OBVIOUS
  <2>2. Len(a) + i \in (Len(a) + 1)..(Len(a) + Len(b)) /\ (Len(a) + i) - Len(a) = i
    BY <2>1
  <2> QED
    BY <2>2, ConcatProperties
<1>4. SubSeq(a \o b, 1, Len(a)) = a
  <2>1. SubSeq(a \o b, 1, Len(a)) = SubSeq(a, 1, Len(a))
    BY SubSeqOfConcat1
  <2> QED
    BY <2>1, SubSeqFull
<1>5. SubSeq(a \o b, Len(a) + 1, Len(a \o b)) = b
  <2>1. CASE b = <<>>
    <3>1. Len(a \o b) < Len(a) + 1 /\ Len(a) + 1 \in Nat /\ Len(a \o b) \in Nat
      BY <1>1, <2>1
    <3> QED
      BY <1>1, <2>1, <3>1, SubSeqEmpty
  <2>2. CASE b # <<>>
    <3>1. Len(b) > 0 /\ Len(b) \in Nat /\ Len(a) \in Nat
      BY <2>2, EmptySeq
    <3>2. /\ Len(a) + 1 \in (Len(a) + 1)..(Len(a) + Len(b))
          /\ Len(a) + Len(b) \in (Len(a) + 1)..(Len(a) + Len(b))
          /\ (Len(a) + 1) - Len(a) = 1 /\ (Len(a) + Len(b)) - Len(a) = Len(b)
      BY <3>1
    <3>3. SubSeq(a \o b, Len(a) + 1, Len(a) + Len(b))
            = SubSeq(b, (Len(a) + 1) - Len(a), (Len(a) + Len(b)) - Len(a))
      BY <3>2, SubSeqOfConcat2
    <3>4. SubSeq(b, 1, Len(b)) = b
      BY SubSeqFull
    <3> QED
      BY <1>1, <3>2, <3>3, <3>4, Zenon
  <2> QED
    BY <2>1, <2>2
<1> QED
  BY <1>1, <1>2, <1>3, <1>4, <1>5

\* The start of a URL has no slash, and a colon at the port only.
LEMMA BeginIs ==
    ASSUME NEW s \in Piece, NEW h \in Piece, NEW p \in Ports
    PROVE  /\ Begin(s, h, p) \in Seq(Token) /\ Len(Begin(s, h, p)) \in {3, 5}
           /\ Begin(s, h, p)[1] = s /\ Begin(s, h, p)[2] = U!Separator
           /\ \A i \in 1..Len(Begin(s, h, p)) : Begin(s, h, p)[i] # U!Slash
           /\ {i \in 3..Len(Begin(s, h, p)) : Begin(s, h, p)[i] = U!Colon}
                = IF p = <<>> THEN {} ELSE {4}
           /\ p = <<>> => Len(Begin(s, h, p)) = 3
           /\ SubSeq(Begin(s, h, p), 1, 3) = <<s, U!Separator, h>>
           /\ SubSeq(Begin(s, h, p), 4, Len(Begin(s, h, p))) = p
<1> DEFINE A == Begin(s, h, p)
           t == <<s, U!Separator, h>>
<1>1. s \in Token /\ h \in Token /\ U!Separator \in Token /\ U!Colon \in Token
      /\ U!Lower(Port) \in Token /\ U!Lower(Port) \in Piece
  BY TargetAssumption DEF Token, Piece, U!Lower
<1>2. t \in Seq(Token) /\ Len(t) = 3 /\ t[1] = s /\ t[2] = U!Separator /\ t[3] = h
  BY <1>1, TuplesAre
<1>3. A = t \o p
  BY DEF Begin
<1> HIDE DEF A, t
<1>4. /\ s # U!Slash /\ h # U!Slash /\ U!Separator # U!Slash /\ U!Colon # U!Slash
      /\ U!Lower(Port) # U!Slash /\ h # U!Colon /\ U!Lower(Port) # U!Colon
  BY <1>1, TokensDiffer
<1>5. CASE p = <<>>
  <2>1. A = t
    BY <1>2, <1>3, <1>5, ConcatEmptySeq
  <2>2. A \in Seq(Token) /\ Len(A) = 3 /\ A[1] = s /\ A[2] = U!Separator /\ A[3] = h
    BY <1>2, <2>1, Zenon
  <2>3. SubSeq(A, 4, Len(A)) = <<>> /\ SubSeq(A, 1, 3) = A
    BY <2>2, SubSeqEmpty, SubSeqFull
  <2>4. \A i \in 3..Len(A) : A[i] # U!Colon
    BY <1>4, <2>2
  <2>5. \A i \in 1..Len(A) : A[i] # U!Slash
    <3>1. \A i \in 1..3 : i \in {1, 2, 3}
      OBVIOUS
    <3> QED
      BY <1>4, <2>2, <3>1
  <2>6. {i \in 3..Len(A) : A[i] = U!Colon} = {}
    BY <2>4
  <2> QED
    BY <1>5, <2>1, <2>2, <2>3, <2>5, <2>6 DEF A, t
<1>6. CASE p = <<U!Colon, U!Lower(Port)>>
  <2>1. p \in Seq(Token) /\ Len(p) = 2 /\ p[1] = U!Colon /\ p[2] = U!Lower(Port) /\ p # <<>>
    BY <1>1, <1>6, TuplesAre
  <2>2. /\ t \o p \in Seq(Token)
        /\ Len(t \o p) = Len(t) + Len(p)
        /\ \A i \in 1..Len(t) : (t \o p)[i] = t[i]
        /\ \A i \in 1..Len(p) : (t \o p)[Len(t) + i] = p[i]
        /\ SubSeq(t \o p, 1, Len(t)) = t
        /\ SubSeq(t \o p, Len(t) + 1, Len(t \o p)) = p
    BY <1>2, <2>1, Concatenated, Zenon
  <2>3. /\ A \in Seq(Token)
        /\ Len(A) = Len(t) + Len(p)
        /\ \A i \in 1..Len(t) : A[i] = t[i]
        /\ \A i \in 1..Len(p) : A[Len(t) + i] = p[i]
        /\ SubSeq(A, 1, Len(t)) = t
        /\ SubSeq(A, Len(t) + 1, Len(A)) = p
    BY <1>3, <2>2, Zenon
  <2>4. /\ Len(A) = 5 /\ A[1] = t[1] /\ A[2] = t[2] /\ A[3] = t[3]
        /\ A[4] = p[1] /\ A[5] = p[2] /\ SubSeq(A, 1, 3) = t
        /\ SubSeq(A, 4, Len(A)) = p
    <3>1. Len(t) + Len(p) = 5 /\ Len(t) + 1 = 4 /\ Len(t) + 2 = 5
      BY <1>2, <2>1
    <3>2. 1 \in 1..Len(t) /\ 2 \in 1..Len(t) /\ 3 \in 1..Len(t) /\ 1 \in 1..Len(p) /\ 2 \in 1..Len(p)
      BY <1>2, <2>1
    <3> QED
      BY <1>2, <2>3, <3>1, <3>2, Zenon
  <2>5. \A i \in 1..5 : A[i] # U!Slash
    <3>1. \A i \in 1..5 : i \in {1, 2, 3, 4, 5}
      OBVIOUS
    <3> QED
      BY <1>2, <1>4, <2>1, <2>4, <3>1
  <2>6. \A i \in 3..5 : A[i] = U!Colon <=> i = 4
    <3>1. \A i \in 3..5 : i \in {3, 4, 5}
      OBVIOUS
    <3> QED
      BY <1>2, <1>4, <2>1, <2>4, <3>1
  <2>7. {i \in 3..5 : A[i] = U!Colon} = {4}
    BY <2>6
  <2> QED
    BY <1>2, <2>1, <2>3, <2>4, <2>5, <2>7 DEF A, t
<1> QED
  BY <1>5, <1>6 DEF Ports

\* splitAtPath cuts between the two.
LEMMA UrlSplits ==
    ASSUME NEW s \in Piece, NEW h \in Piece, NEW p \in Ports, NEW P, IsPath(P)
    PROVE  LET url == Begin(s, h, p) \o P
           IN  /\ U!First(url, U!Separator) = 2 /\ Len(url) >= 3 /\ Len(url) \in Nat
               /\ U!Authority(url) = Begin(s, h, p)
               /\ U!Path(url) = P
<1> DEFINE A == Begin(s, h, p)
           url == A \o P
<1>1. /\ A \in Seq(Token) /\ Len(A) \in {3, 5} /\ A[1] = s /\ A[2] = U!Separator
      /\ \A i \in 1..Len(A) : A[i] # U!Slash
  BY BeginIs
<1>2. P \in Seq(Token) /\ Len(P) \in Nat /\ (P # <<>> => P[1] = U!Slash)
  BY DEF IsPath
<1> HIDE DEF A
<1>3. /\ url \in Seq(Token) /\ Len(url) = Len(A) + Len(P)
      /\ \A i \in 1..Len(A) : url[i] = A[i]
      /\ \A i \in 1..Len(P) : url[Len(A) + i] = P[i]
      /\ SubSeq(url, 1, Len(A)) = A
      /\ SubSeq(url, Len(A) + 1, Len(url)) = P
  BY <1>1, <1>2, Concatenated, Zenon
<1> HIDE DEF url
<1>5. Len(url) \in Nat /\ Len(url) >= 3 /\ url[1] = s /\ url[2] = U!Separator
  <2>1. 1 \in 1..Len(A) /\ 2 \in 1..Len(A)
    BY <1>1
  <2>2. Len(url) \in Nat /\ Len(url) >= 3
    BY <1>1, <1>2, <1>3
  <2> QED
    BY <1>1, <1>3, <2>1, <2>2, Zenon
<1>6. U!First(url, U!Separator) = 2
  <2> DEFINE S == {i \in 1..Len(url) : url[i] = U!Separator} \cup {Len(url) + 1}
  <2>1. S \in SUBSET Int /\ 2 \in S /\ \A y \in S : 2 <= y
    BY <1>5, TokensDiffer
  <2> HIDE DEF S
  <2>2. U!Min(S) = 2
    BY <2>1, MinOf
  <2> QED
    BY <2>2 DEF U!First, S
<1>7. U!PathStart(url) = Len(A) + 1
  <2> DEFINE S == {i \in 3..Len(url) : url[i] = U!Slash} \cup {Len(url) + 1}
  <2>1. S \in SUBSET Int /\ Len(A) + 1 \in S
    <3>1. CASE P = <<>>
      BY <1>1, <1>3, <3>1, EmptySeq
    <3>2. CASE P # <<>>
      <4>1. Len(P) > 0
        BY <1>2, <3>2, EmptySeq
      <4>2. Len(A) + 1 \in 3..Len(url) /\ 1 \in 1..Len(P)
        BY <1>1, <1>2, <1>3, <4>1
      <4>3. url[Len(A) + 1] = U!Slash
        BY <1>2, <1>3, <3>2, <4>2, Zenon
      <4> QED
        BY <1>1, <1>5, <4>2, <4>3
    <3> QED
      BY <3>1, <3>2
  <2>2. \A y \in S : Len(A) + 1 <= y
    <3> SUFFICES ASSUME NEW y \in S, ~(Len(A) + 1 <= y) PROVE FALSE
      OBVIOUS
    <3>1. y \in 1..Len(A) /\ y # Len(url) + 1
      BY <1>1, <1>2, <1>3
    <3> QED
      BY <1>1, <1>3, <3>1
  <2> HIDE DEF S
  <2>3. U!Min(S) = Len(A) + 1
    BY <2>1, <2>2, MinOf
  <2>4. U!Contains(url, U!Separator)
    BY <1>5 DEF U!Contains
  <2>5. U!PathStart(url) = U!Min({i \in (2 + 1)..Len(url) : url[i] = U!Slash} \cup {Len(url) + 1})
    <3>1. U!PathStart(url)
            = LET from == U!First(url, U!Separator) + 1
              IN  U!Min({i \in from..Len(url) : url[i] = U!Slash} \cup {Len(url) + 1})
      BY <2>4 DEF U!PathStart
    <3> QED
      BY <1>6, <3>1
  <2> QED
    BY <2>3, <2>5 DEF S
<1>8. U!Authority(url) = A /\ U!Path(url) = P
  <2>1. (Len(A) + 1) - 1 = Len(A)
    BY <1>1
  <2> QED
    BY <1>3, <1>7, <2>1 DEF U!Authority, U!Path
<1> QED
  BY <1>5, <1>6, <1>8 DEF A, url

\* normalizeServerUrl puts the start in lower case and drops the root's slash.
LEMMA Normalized ==
    ASSUME NEW s \in Piece, NEW h \in Piece, NEW p \in Ports, NEW P, IsPath(P)
    PROVE  U!NormalizeServerUrl(Begin(s, h, p) \o P)
             = Begin(Low(s), Low(h), p) \o (IF P = <<U!Slash>> THEN <<>> ELSE P)
<1> DEFINE A == Begin(s, h, p)
           url == A \o P
           ports == {i \in 2 + 1..Len(A) : A[i] = U!Colon}
           host == IF ports = {} THEN Len(A) ELSE U!Min(ports) - 1
<1>1. /\ U!First(url, U!Separator) = 2 /\ Len(url) >= 3 /\ Len(url) \in Nat
      /\ U!Authority(url) = A /\ U!Path(url) = P
  BY UrlSplits
<1>2. host = 3 /\ SubSeq(A, 1, 3) = <<s, U!Separator, h>> /\ SubSeq(A, 3 + 1, Len(A)) = p
  <2>1. 2 + 1 = 3 /\ 3 + 1 = 4
    OBVIOUS
  <2>2. U!Min({4}) = 4
    BY MinOf
  <2>3. 4 - 1 = 3
    OBVIOUS
  <2>4. ports = IF p = <<>> THEN {} ELSE {4}
    BY <2>1, BeginIs
  <2>5. /\ SubSeq(A, 1, 3) = <<s, U!Separator, h>> /\ SubSeq(A, 3 + 1, Len(A)) = p
        /\ p = <<>> => Len(A) = 3
    BY <2>1, BeginIs
  <2> HIDE DEF ports, A
  <2> QED
    BY <2>2, <2>3, <2>4, <2>5
<1>3. U!ToLower(<<s, U!Separator, h>>) = <<Low(s), U!Separator, Low(h)>>
  <2> DEFINE t == <<s, U!Separator, h>>
             u == <<Low(s), U!Separator, Low(h)>>
  <2>1. /\ Len(t) = 3 /\ t[1] = s /\ t[2] = U!Separator /\ t[3] = h
        /\ Len(u) = 3 /\ u[1] = Low(s) /\ u[2] = U!Separator /\ u[3] = Low(h)
    OBVIOUS
  <2>2. u = [i \in 1..3 |-> u[i]]
    OBVIOUS
  <2> HIDE DEF t, u
  <2>3. <<U!Separator[1], FALSE>> = U!Separator
    BY DEF U!Separator
  <2>4. \A i \in 1..3 : <<t[i][1], FALSE>> = u[i]
    <3>1. \A i \in 1..3 : i \in {1, 2, 3}
      OBVIOUS
    <3> QED
      BY <2>1, <2>3, <3>1 DEF Low
  <2>5. U!ToLower(t) = [i \in 1..3 |-> <<t[i][1], FALSE>>]
    BY <2>1 DEF U!ToLower
  <2>6. U!ToLower(t) = u
    BY <2>2, <2>4, <2>5
  <2> QED
    BY <2>6 DEF t, u
<1> HIDE DEF A, url
<1>4. U!First(url, U!Separator) \notin {1, Len(url) + 1}
  BY <1>1
<1>5. U!NormalizeServerUrl(url)
        = U!ToLower(SubSeq(A, 1, host)) \o SubSeq(A, host + 1, Len(A))
          \o (IF P = <<U!Slash>> THEN <<>> ELSE P)
  BY <1>1, <1>4 DEF U!NormalizeServerUrl
<1> HIDE DEF host
<1> QED
  BY <1>2, <1>3, <1>5 DEF A, url, Begin

-----------------------------------------------------------------------------
\* The tokens of a sub-path: slashes at the odd places, pieces at the even
\* ones.
LEMMA SubpathIs ==
    ASSUME NEW path \in Seq(Piece)
    PROVE  /\ Subpath(path) \in Seq(Token) /\ Len(Subpath(path)) = 2 * Len(path)
           /\ \A i \in 1..2 * Len(path) :
                 Subpath(path)[i] = IF i % 2 = 1 THEN U!Slash ELSE path[i \div 2]
           /\ \A i \in 1..2 * Len(path) : i % 2 = 0 => path[i \div 2] \in Piece
           /\ Subpath(path) # <<U!Slash>>
           /\ path = <<>> => Subpath(path) = <<>>
<1> DEFINE n == Len(path)
           S == Subpath(path)
<1>1. n \in Nat /\ 2 * n \in Nat
  OBVIOUS
<1>2. \A i \in 1..2 * n : i % 2 = 0 => path[i \div 2] \in Piece
  <2> SUFFICES ASSUME NEW i \in 1..2 * n, i % 2 = 0 PROVE path[i \div 2] \in Piece
    OBVIOUS
  <2>1. i \div 2 \in 1..n
    BY <1>1
  <2> QED
    BY <2>1
<1>3. \A i \in 1..2 * n : S[i] = IF i % 2 = 1 THEN U!Slash ELSE path[i \div 2]
  BY DEF Subpath
<1>4. \A i \in 1..2 * n : i % 2 = 1 \/ i % 2 = 0
  BY <1>1
<1>5. \A i \in 1..2 * n : S[i] \in Token
  BY <1>2, <1>3, <1>4 DEF Token
<1>6. S = [i \in 1..2 * n |-> S[i]] /\ DOMAIN S = 1..2 * n
  BY DEF Subpath
<1> HIDE DEF n, S
<1>7. S \in Seq(Token)
  BY <1>1, <1>5, <1>6, IsASeq
<1>8. Len(S) = 2 * n
  BY <1>1, <1>6, <1>7, LenProperties
<1>9. S # <<U!Slash>>
  <2>1. Len(<<U!Slash>>) = 1 /\ 2 * n # 1
    BY <1>1
  <2> QED
    BY <1>8, <2>1, Zenon
<1>10. path = <<>> => S = <<>>
  <2> SUFFICES ASSUME path = <<>> PROVE S = <<>>
    OBVIOUS
  <2>1. n = 0
    BY DEF n
  <2>2. Len(S) = 0
    BY <1>8, <2>1
  <2> QED
    BY <1>7, <2>2, EmptySeq
<1> QED
  BY <1>2, <1>3, <1>7, <1>8, <1>9, <1>10 DEF n, S

\* The path of a shorthand: the sub-path, the name, perhaps a slash.
NamedPath(path, name, C) == (Subpath(path) \o <<U!Slash, name>>) \o C

LEMMA ShorthandPath ==
    ASSUME NEW path \in Seq(Piece), NEW name \in Piece, NEW C \in {<<>>, <<U!Slash>>}
    PROVE  LET n == Len(path)
               Q == NamedPath(path, name, C)
           IN  /\ Q \in Seq(Token)
               /\ Len(Q) \in {2 * n + 2, 2 * n + 3}
               /\ \A i \in 1..2 * n : Q[i] = Subpath(path)[i]
               /\ Q[2 * n + 1] = U!Slash
               /\ Q[2 * n + 2] = name
               /\ Len(Q) = 2 * n + 3 => Q[2 * n + 3] = U!Slash
<1> DEFINE n == Len(path)
           S == Subpath(path)
           T == <<U!Slash, name>>
           E == S \o T
           Q == E \o C
<1>1. n \in Nat /\ S \in Seq(Token) /\ Len(S) = 2 * n
  BY SubpathIs
<1>2. U!Slash \in Token /\ name \in Token
  BY DEF Token
<1>3. T \in Seq(Token) /\ Len(T) = 2 /\ T[1] = U!Slash /\ T[2] = name
  BY <1>2, TuplesAre
<1>4. C \in Seq(Token) /\ (Len(C) = 0 \/ (Len(C) = 1 /\ C[1] = U!Slash))
  <2>1. <<>> \in Seq(Token) /\ Len(<<>>) = 0
    OBVIOUS
  <2>2. \A a \in Token : <<a>> \in Seq(Token) /\ Len(<<a>>) = 1 /\ <<a>>[1] = a
    OBVIOUS
  <2> QED
    BY <1>2, <2>1, <2>2, Zenon
<1> HIDE DEF S, T, n
<1>5. /\ E \in Seq(Token) /\ Len(E) = Len(S) + Len(T)
      /\ \A i \in 1..Len(S) : E[i] = S[i]
      /\ \A i \in 1..Len(T) : E[Len(S) + i] = T[i]
  BY <1>1, <1>3, Concatenated, Zenon
<1> HIDE DEF E
<1>6. /\ Q \in Seq(Token) /\ Len(Q) = Len(E) + Len(C)
      /\ \A i \in 1..Len(E) : Q[i] = E[i]
      /\ \A i \in 1..Len(C) : Q[Len(E) + i] = C[i]
  BY <1>4, <1>5, Concatenated, Zenon
<1> HIDE DEF Q
<1>7. /\ Len(E) = 2 * n + 2 /\ Len(Q) \in {2 * n + 2, 2 * n + 3}
      /\ 1 \in 1..Len(T) /\ 2 \in 1..Len(T) /\ 2 * n + 1 \in 1..Len(E) /\ 2 * n + 2 \in 1..Len(E)
      /\ \A i \in 1..2 * n : i \in 1..Len(E)
      /\ Len(Q) = 2 * n + 3 => Len(C) = 1 /\ 1 \in 1..Len(C)
      /\ (2 * n + 2) + 1 = 2 * n + 3
  <2>1. Len(S) = 2 * n /\ Len(T) = 2 /\ Len(E) = Len(S) + Len(T) /\ n \in Nat
    BY <1>1, <1>3, <1>5
  <2>2. Len(E) = 2 * n + 2 /\ (2 * n + 2) + 1 = 2 * n + 3
    BY <2>1
  <2>3. Len(Q) = Len(E) + Len(C) /\ (Len(C) = 0 \/ Len(C) = 1)
    BY <1>4, <1>6
  <2>4. Len(Q) \in {2 * n + 2, 2 * n + 3} /\ (Len(Q) = 2 * n + 3 => Len(C) = 1)
    <3>1. \A k \in Nat : (2 * k + 2) + 0 = 2 * k + 2 /\ (2 * k + 2) + 1 = 2 * k + 3
      OBVIOUS
    <3>2. \A k \in Nat : 2 * k + 2 # 2 * k + 3
      OBVIOUS
    <3> QED
      BY <2>1, <2>2, <2>3, <3>1, <3>2, Zenon
  <2>5. /\ 2 * n + 1 \in 1..Len(E) /\ 2 * n + 2 \in 1..Len(E)
        /\ \A i \in 1..2 * n : i \in 1..Len(E)
    BY <2>1, <2>2
  <2>6. 1 \in 1..2 /\ 2 \in 1..2 /\ 1 \in 1..1
    OBVIOUS
  <2> QED
    BY <2>1, <2>2, <2>4, <2>5, <2>6, Zenon
<1>8. \A i \in 1..2 * n : Q[i] = S[i]
  BY <1>1, <1>5, <1>6, <1>7, Zenon
<1>9. Q[2 * n + 1] = U!Slash /\ Q[2 * n + 2] = name
  <2>1. Q[2 * n + 1] = E[2 * n + 1] /\ Q[2 * n + 2] = E[2 * n + 2]
    BY <1>6, <1>7, Zenon
  <2>2. E[Len(S) + 1] = T[1] /\ E[Len(S) + 2] = T[2]
    BY <1>5, <1>7, Zenon
  <2> QED
    BY <1>1, <1>3, <2>1, <2>2, Zenon
<1>10. Len(Q) = 2 * n + 3 => Q[2 * n + 3] = U!Slash
  <2> SUFFICES ASSUME Len(Q) = 2 * n + 3 PROVE Q[2 * n + 3] = U!Slash
    OBVIOUS
  <2>1. 1 \in 1..Len(C) /\ Len(C) = 1
    BY <1>7
  <2>2. C[1] = U!Slash
    BY <1>4, <2>1
  <2> QED
    BY <1>6, <1>7, <2>1, <2>2, Zenon
<1> QED
  BY <1>6, <1>7, <1>8, <1>9, <1>10 DEF n, S, T, E, Q, NamedPath

\* What parseTargetSpec finds in it.
LEMMA Cut ==
    ASSUME NEW path \in Seq(Piece), NEW name \in Piece, NEW C \in {<<>>, <<U!Slash>>}
    PROVE  LET n == Len(path)
               Q == NamedPath(path, name, C)
               T == U!Trimmed(Q)
               slashes == {i \in 1..Len(T) : T[i] = U!Slash}
               cut == IF slashes = {} THEN 0 ELSE U!Max(slashes)
           IN  /\ T # <<>>
               /\ cut = 0 <=> n = 0
               /\ SubSeq(T, cut + 1, Len(T)) = <<name>>
               /\ cut # 0 => <<U!Slash>> \o SubSeq(T, 1, cut - 1) = Subpath(path)
<1> DEFINE n == Len(path)
           S == Subpath(path)
           Q == NamedPath(path, name, C)
           kept == {i \in 1..Len(Q) : Q[i] # U!Slash}
           T == SubSeq(Q, 2, 2 * n + 2)
           slashes == {i \in 1..Len(T) : T[i] = U!Slash}
<1>1. /\ n \in Nat /\ Q \in Seq(Token) /\ Len(Q) \in {2 * n + 2, 2 * n + 3}
      /\ \A i \in 1..2 * n : Q[i] = S[i]
      /\ Q[2 * n + 1] = U!Slash /\ Q[2 * n + 2] = name
      /\ Len(Q) = 2 * n + 3 => Q[2 * n + 3] = U!Slash
  BY ShorthandPath, LenProperties, Zenon
<1>2. /\ S \in Seq(Token) /\ Len(S) = 2 * n
      /\ \A i \in 1..2 * n : S[i] = IF i % 2 = 1 THEN U!Slash ELSE path[i \div 2]
      /\ \A i \in 1..2 * n : i % 2 = 0 => path[i \div 2] \in Piece
  BY SubpathIs
<1> HIDE DEF n, S, Q
<1>3. \A i \in 1..2 * n + 2 : (i % 2 = 1 => Q[i] = U!Slash) /\ (i % 2 = 0 => Q[i] # U!Slash)
  <2> SUFFICES ASSUME NEW i \in 1..2 * n + 2
               PROVE  (i % 2 = 1 => Q[i] = U!Slash) /\ (i % 2 = 0 => Q[i] # U!Slash)
    OBVIOUS
  <2>1. CASE i \in 1..2 * n
    <3>1. i % 2 = 1 => Q[i] = U!Slash
      BY <1>1, <1>2, <2>1, Zenon
    <3>2. ASSUME i % 2 = 0 PROVE Q[i] # U!Slash
      <4>1. i % 2 # 1
        BY <3>2
      <4> QED
        BY <1>1, <1>2, <2>1, <3>2, <4>1, TokensDiffer, Zenon
    <3> QED
      BY <3>1, <3>2
  <2>2. CASE i = 2 * n + 1
    BY <1>1, <2>2
  <2>3. CASE i = 2 * n + 2
    <3>1. Q[i] # U!Slash
      BY <1>1, <2>3, TokensDiffer, Zenon
    <3>2. i % 2 # 1
      BY <1>1, <2>3
    <3> QED
      BY <3>1, <3>2
  <2> QED
    BY <1>1, <2>1, <2>2, <2>3
<1>4. U!Trimmed(Q) = T
  <2>1. kept \in SUBSET Int /\ 2 \in kept /\ \A y \in kept : 2 <= y
    <3>1. \A y \in kept : 2 <= y
      <4> SUFFICES ASSUME NEW y \in kept, y < 2 PROVE FALSE
        BY <1>1
      <4>1. y = 1 /\ 1 \in 1..2 * n + 2 /\ 1 % 2 = 1
        BY <1>1
      <4> QED
        BY <1>3, <4>1
    <3>2. 2 \in kept
      <4>1. 2 \in 1..2 * n + 2 /\ 2 % 2 = 0 /\ 2 \in 1..Len(Q)
        BY <1>1
      <4> QED
        BY <1>3, <4>1
    <3> QED
      BY <3>1, <3>2
  <2>2. 2 * n + 2 \in kept /\ \A y \in kept : y <= 2 * n + 2
    <3>1. 2 * n + 2 \in kept
      <4>1. 2 * n + 2 \in 1..Len(Q)
        BY <1>1
      <4> QED
        BY <1>1, <4>1, TokensDiffer, Zenon
    <3>2. \A y \in kept : y <= 2 * n + 2
      <4> SUFFICES ASSUME NEW y \in kept, ~(y <= 2 * n + 2) PROVE FALSE
        OBVIOUS
      <4>1. y = 2 * n + 3 /\ Len(Q) = 2 * n + 3
        BY <1>1
      <4> QED
        BY <1>1, <4>1
    <3> QED
      BY <3>1, <3>2
  <2>3. kept # {}
    BY <2>1
  <2>4. U!Trimmed(Q) = IF kept = {} THEN <<>> ELSE SubSeq(Q, U!Min(kept), U!Max(kept))
    BY DEF U!Trimmed
  <2> HIDE DEF kept
  <2>5. U!Min(kept) = 2
    BY <2>1, MinOf
  <2>6. U!Max(kept) = 2 * n + 2
    BY <2>1, <2>2, MaxOf
  <2> QED
    BY <2>3, <2>4, <2>5, <2>6, Zenon
<1>5. /\ T \in Seq(Token) /\ Len(T) = 2 * n + 1
      /\ \A j \in 1..2 * n + 1 : T[j] = Q[j + 1]
  <2>1. 2 \in 1..Len(Q) + 1 /\ 2 * n + 2 \in 1..Len(Q) /\ 2 \in 1..Len(Q)
    BY <1>1
  <2>2. /\ T \in Seq(Token)
        /\ Len(T) = IF 2 <= 2 * n + 2 THEN (2 * n + 2) - 2 + 1 ELSE 0
        /\ \A i \in 1..(2 * n + 2) - 2 + 1 : T[i] = Q[2 + i - 1]
    BY <1>1, <2>1, SubSeqProperties
  <2>3. 2 <= 2 * n + 2 /\ (2 * n + 2) - 2 + 1 = 2 * n + 1
    BY <1>1
  <2>4. \A i \in 1..2 * n + 1 : 2 + i - 1 = i + 1
    BY <1>1
  <2> QED
    BY <2>2, <2>3, <2>4
<1> HIDE DEF T
<1>6. T # <<>>
  BY <1>1, <1>5
<1>7. \A j \in 1..2 * n + 1 : T[j] = U!Slash <=> j % 2 = 0
  <2> SUFFICES ASSUME NEW j \in 1..2 * n + 1 PROVE T[j] = U!Slash <=> j % 2 = 0
    OBVIOUS
  <2>1. /\ j + 1 \in 1..2 * n + 2 /\ (j % 2 = 0 => (j + 1) % 2 = 1)
        /\ (j % 2 # 0 => (j + 1) % 2 = 0)
    BY <1>1
  <2>2. T[j] = Q[j + 1]
    BY <1>5
  <2>3. (j % 2 = 0 => Q[j + 1] = U!Slash) /\ (j % 2 # 0 => Q[j + 1] # U!Slash)
    BY <1>3, <2>1, Zenon
  <2> QED
    BY <2>2, <2>3, Zenon
<1>8. CASE n = 0
  <2>1. slashes = {}
    <3>1. \A j \in 1..Len(T) : j \in 1..2 * n + 1 /\ j % 2 # 0
      BY <1>5, <1>8
    <3> QED
      BY <1>7, <3>1
  <2>2. Len(T) = 1 /\ T[1] = name
    <3>1. Len(T) = 1 /\ 1 \in 1..2 * n + 1 /\ 1 + 1 = 2 * n + 2
      BY <1>5, <1>8
    <3> QED
      BY <1>1, <1>5, <3>1, Zenon
  <2>3. SubSeq(T, 0 + 1, Len(T)) = <<name>>
    <3>1. SubSeq(T, 1, Len(T)) = T
      BY <1>5, SubSeqFull
    <3>2. \A a \in Seq(Token) : Len(a) = 1 => <<a[1]>> = a
      OBVIOUS
    <3>3. 0 + 1 = 1
      OBVIOUS
    <3> QED
      BY <1>5, <2>2, <3>1, <3>2, <3>3, Zenon
  <2> HIDE DEF slashes
  <2> QED
    BY <1>4, <1>6, <1>8, <2>1, <2>3 DEF slashes, n, Q
<1>9. CASE n # 0
  <2>1. U!Max(slashes) = 2 * n
    <3>1. slashes \in SUBSET Int
      OBVIOUS
    <3>2. 2 * n \in slashes
      <4>1. 2 * n \in 1..2 * n + 1 /\ (2 * n) % 2 = 0 /\ 2 * n \in 1..Len(T)
        BY <1>1, <1>5, <1>9
      <4> QED
        BY <1>7, <4>1
    <3>3. \A y \in slashes : y <= 2 * n
      <4> SUFFICES ASSUME NEW y \in slashes, ~(y <= 2 * n) PROVE FALSE
        OBVIOUS
      <4>1. y = 2 * n + 1
        BY <1>1, <1>5
      <4>2. (2 * n + 1) % 2 # 0 /\ 2 * n + 1 \in 1..2 * n + 1
        BY <1>1
      <4> QED
        BY <1>7, <4>1, <4>2
    <3> HIDE DEF slashes
    <3> QED
      BY <3>1, <3>2, <3>3, MaxOf
  <2>2. slashes # {}
    <3>1. 2 * n \in 1..2 * n + 1 /\ (2 * n) % 2 = 0 /\ 2 * n \in 1..Len(T)
      BY <1>1, <1>5, <1>9
    <3> QED
      BY <1>7, <3>1
  <2>3. SubSeq(T, 2 * n + 1, Len(T)) = <<name>>
    <3>1. ASSUME NEW a \in Seq(Token), NEW m \in 1..Len(a) PROVE <<a[m]>> = SubSeq(a, m, m)
      <4>1. m \in Int /\ \A i \in m..m : a[i] \in Token
        OBVIOUS
      <4>2. /\ SubSeq(a, m, m) \in Seq(Token)
            /\ Len(SubSeq(a, m, m)) = IF m <= m THEN m - m + 1 ELSE 0
            /\ \A i \in 1..m - m + 1 : SubSeq(a, m, m)[i] = a[m + i - 1]
        BY <4>1, SubSeqProperties
      <4>3. m <= m /\ m - m + 1 = 1 /\ 1 \in 1..1 /\ m + 1 - 1 = m
        BY <4>1
      <4>4. Len(SubSeq(a, m, m)) = 1 /\ SubSeq(a, m, m)[1] = a[m]
        BY <4>2, <4>3
      <4>5. \A b \in Seq(Token) : Len(b) = 1 => <<b[1]>> = b
        OBVIOUS
      <4> QED
        BY <4>2, <4>4, <4>5, Zenon
    <3>2. 2 * n + 1 \in 1..Len(T) /\ 2 * n + 1 \in 1..2 * n + 1 /\ (2 * n + 1) + 1 = 2 * n + 2
      BY <1>1, <1>5
    <3>3. T[2 * n + 1] = name
      BY <1>1, <1>5, <3>2, Zenon
    <3> QED
      BY <1>5, <3>1, <3>2, <3>3, Zenon
  <2>4. <<U!Slash>> \o SubSeq(T, 1, 2 * n - 1) = S
    <3> DEFINE R == SubSeq(T, 1, 2 * n - 1)
               one == <<U!Slash>>
    <3>1. R \in Seq(Token) /\ Len(R) = 2 * n - 1 /\ \A j \in 1..2 * n - 1 : R[j] = T[j]
      BY <1>1, <1>5, <1>9, SubSeqProperties
    <3>2. one \in Seq(Token) /\ Len(one) = 1 /\ one[1] = U!Slash
      BY DEF Token
    <3> HIDE DEF R, one
    <3>3. /\ one \o R \in Seq(Token) /\ Len(one \o R) = Len(one) + Len(R)
          /\ \A i \in 1..Len(one) : (one \o R)[i] = one[i]
          /\ \A i \in 1..Len(R) : (one \o R)[Len(one) + i] = R[i]
      BY <3>1, <3>2, Concatenated, Zenon
    <3>4. Len(one \o R) = 2 * n /\ Len(S) = 2 * n
      BY <1>1, <1>2, <3>1, <3>2, <3>3
    <3>5. \A i \in 1..2 * n : (one \o R)[i] = S[i]
      <4> SUFFICES ASSUME NEW i \in 1..2 * n PROVE (one \o R)[i] = S[i]
        OBVIOUS
      <4>1. CASE i = 1
        <5>1. 1 \in 1..Len(one) /\ 1 \in 1..2 * n /\ 1 % 2 = 1
          BY <1>1, <1>9, <3>2
        <5> QED
          BY <1>2, <3>2, <3>3, <4>1, <5>1, Zenon
      <4>2. CASE i # 1
        <5> DEFINE j == i - 1
        <5>1. /\ j \in 1..Len(R) /\ Len(one) + j = i /\ j \in 1..2 * n - 1
              /\ j \in 1..2 * n + 1 /\ j + 1 = i
          BY <1>1, <3>1, <3>2, <4>2
        <5> HIDE DEF j
        <5>2. (one \o R)[Len(one) + j] = R[j] /\ R[j] = T[j] /\ T[j] = Q[j + 1]
          BY <1>5, <3>1, <3>3, <5>1, Zenon
        <5>3. Q[i] = S[i]
          BY <1>1
        <5> QED
          BY <5>1, <5>2, <5>3, Zenon
      <4> QED
        BY <4>1, <4>2
    <3>6. \A a, b \in Seq(Token) :
             Len(a) = Len(b) /\ (\A i \in 1..Len(b) : a[i] = b[i]) => a = b
      BY SeqEqual
    <3>7. one \o R = S
      BY <1>2, <3>3, <3>4, <3>5, <3>6, Zenon
    <3> QED
      BY <3>7 DEF one, R
  <2>5. 2 * n # 0
    BY <1>1, <1>9
  <2> HIDE DEF slashes
  <2> QED
    BY <1>4, <1>6, <1>9, <2>1, <2>2, <2>3, <2>4, <2>5 DEF slashes, n, Q, S
<1> QED
  BY <1>8, <1>9

-----------------------------------------------------------------------------
\* The pieces of a target.
LEMMA TargetIs ==
    ASSUME NEW in \in Targets
    PROVE  /\ in.path \in Seq(Piece) /\ in.name \in Piece
           /\ Closing(in) \in {<<>>, <<U!Slash>>}
           /\ \E s, h \in Piece, p \in Ports :
                 /\ Low(s) = U!Lower(Scheme) /\ Low(h) = U!Lower(Host)
                 /\ Origin(in) = Begin(s, h, p)
                 /\ Origin([in EXCEPT !.upper = {}]) = Begin(U!Lower(Scheme), U!Lower(Host), p)
<1> DEFINE plain == [in EXCEPT !.upper = {}]
           s == Cased(Scheme, "scheme" \in in.upper)
           h == Cased(Host, "host" \in in.upper)
           p == IF in.port THEN <<U!Colon, U!Lower(Port)>> ELSE <<>>
<1>1. in.path \in Seq(Piece) /\ in.name \in Piece /\ Closing(in) \in {<<>>, <<U!Slash>>}
  BY TargetAssumption DEF Targets, Piece, Closing
<1>2. s \in Piece /\ h \in Piece /\ Low(s) = U!Lower(Scheme) /\ Low(h) = U!Lower(Host)
  BY TargetAssumption DEF Cased, Piece, Low, U!Upper, U!Lower
<1>3. p \in Ports
  BY DEF Ports
<1>4. Origin(in) = Begin(s, h, p)
  BY DEF Origin, Begin
<1>5. Origin(plain) = Begin(U!Lower(Scheme), U!Lower(Host), p)
  <2>1. plain.upper = {} /\ plain.port = in.port
    BY DEF Targets
  <2>2. Cased(Scheme, "scheme" \in plain.upper) = U!Lower(Scheme)
    BY <2>1 DEF Cased
  <2>3. Cased(Host, "host" \in plain.upper) = U!Lower(Host)
    BY <2>1 DEF Cased
  <2> HIDE DEF plain
  <2>4. Origin(plain) = <<U!Lower(Scheme), U!Separator, U!Lower(Host)>> \o p
    BY <2>1, <2>2, <2>3, Zenon DEF Origin
  <2> QED
    BY <2>4 DEF Begin
<1> HIDE DEF s, h, p, plain
<1> QED
  BY <1>1, <1>2, <1>3, <1>4, <1>5 DEF plain

\* What both spellings lead to.
Leads(in) ==
    /\ Shorthand(in) = [server |-> Key(in), name |-> <<in.name>>]
    /\ Longhand(in) = [server |-> Key(in) \o Kept(in), name |-> <<in.name>>]
    /\ U!NormalizeServerUrl(Key(in)) = Key(in)
    /\ U!NormalizeServerUrl(Key(in) \o Kept(in)) = Key(in) \o Kept(in)

\* Both lead to the server in lower case, without a slash at the end or, if
\* it is --workspace's and behind a sub-path, with it.
LEMMA BothSpellings == ASSUME NEW in \in Targets PROVE Leads(in)
<1>1. PICK s, h \in Piece, p \in Ports :
         /\ Low(s) = U!Lower(Scheme) /\ Low(h) = U!Lower(Host)
         /\ Origin(in) = Begin(s, h, p)
         /\ Origin([in EXCEPT !.upper = {}]) = Begin(U!Lower(Scheme), U!Lower(Host), p)
  BY TargetIs
<1> DEFINE path == in.path
           name == in.name
           C == Closing(in)
           B == Begin(s, h, p)
           O == Begin(U!Lower(Scheme), U!Lower(Host), p)
           S == Subpath(path)
           Q == NamedPath(path, name, C)
           K == Kept(in)
           server == Key(in)
<1>2. path \in Seq(Piece) /\ name \in Piece /\ C \in {<<>>, <<U!Slash>>}
  BY TargetIs
<1>3. U!Lower(Scheme) \in Piece /\ U!Lower(Host) \in Piece
  BY TargetAssumption DEF Piece, U!Lower
<1>4. B \in Seq(Token) /\ O \in Seq(Token)
  BY <1>3, BeginIs
<1>5. U!Slash \in Token /\ C \in Seq(Token) /\ (C # <<>> => C[1] = U!Slash)
  <2>1. <<>> \in Seq(Token) /\ U!Slash \in Token
    BY DEF Token
  <2>2. \A a \in Token : <<a>> \in Seq(Token) /\ <<a>>[1] = a
    OBVIOUS
  <2> HIDE DEF C
  <2> QED
    BY <1>2, <2>1, <2>2, Zenon
<1>6. /\ S \in Seq(Token) /\ S # <<U!Slash>> /\ (path = <<>> => S = <<>>)
      /\ IsPath(S)
  <2>1. /\ S \in Seq(Token) /\ S # <<U!Slash>> /\ (path = <<>> => S = <<>>)
        /\ Len(S) = 2 * Len(path)
        /\ \A i \in 1..2 * Len(path) : S[i] = IF i % 2 = 1 THEN U!Slash ELSE path[i \div 2]
    BY <1>2, SubpathIs
  <2> HIDE DEF S, path
  <2>2. ASSUME S # <<>> PROVE S[1] = U!Slash
    <3>1. Len(S) # 0 /\ Len(path) \in Nat
      BY <1>2, <2>1, <2>2, EmptySeq
    <3>2. 1 \in 1..2 * Len(path) /\ 1 % 2 = 1
      BY <2>1, <3>1
    <3> QED
      BY <2>1, <3>2
  <2> QED
    BY <2>1, <2>2 DEF IsPath
<1>7. IsPath(Q) /\ Q # <<U!Slash>>
  <2>1. /\ Len(path) \in Nat /\ Q \in Seq(Token)
        /\ Len(Q) \in {2 * Len(path) + 2, 2 * Len(path) + 3}
        /\ \A i \in 1..2 * Len(path) : Q[i] = S[i]
        /\ Q[2 * Len(path) + 1] = U!Slash
    BY <1>2, ShorthandPath, LenProperties, Zenon
  <2>2. /\ Len(S) = 2 * Len(path)
    BY <1>2, SubpathIs
  <2> HIDE DEF Q, S, path
  <2>3. Q[1] = U!Slash
    <3>1. CASE Len(path) = 0
      BY <2>1, <3>1
    <3>2. CASE Len(path) # 0
      <4>1. 1 \in 1..2 * Len(path) /\ Len(S) # 0
        BY <2>1, <2>2, <3>2
      <4>2. S # <<>>
        BY <4>1
      <4> QED
        BY <1>6, <2>1, <4>1, <4>2 DEF IsPath
    <3> QED
      BY <3>1, <3>2
  <2>4. Q # <<U!Slash>>
    <3>1. Len(<<U!Slash>>) = 1
      OBVIOUS
    <3>2. \A k \in Nat : 2 * k + 2 # 1 /\ 2 * k + 3 # 1
      OBVIOUS
    <3>3. Len(Q) # 1
      BY <2>1, <3>2, Zenon
    <3> QED
      BY <3>1, <3>3, Zenon
  <2> QED
    BY <2>1, <2>3, <2>4 DEF IsPath
<1>8. server = O \o S
  <2>1. [in EXCEPT !.upper = {}].path = in.path
    BY DEF Targets
  <2> QED
    BY <1>1, <2>1, Zenon DEF Key, Address
<1>9. Address(in) = B \o S
  BY <1>1, Zenon DEF Address
<1>10. /\ K \in Seq(Token) /\ S \o C \in Seq(Token) /\ S \o K \in Seq(Token)
       /\ IsPath(S \o C) /\ IsPath(S \o K) /\ S \o K # <<U!Slash>>
       /\ S \o C = <<U!Slash>> => S \o K = <<>>
       /\ S \o C # <<U!Slash>> => S \o C = S \o K
  <2>1. Len(S) = 2 * Len(path) /\ Len(path) \in Nat
    BY <1>2, SubpathIs, LenProperties
  <2> HIDE DEF S, C, path
  <2>2. CASE path = <<>>
    <3>1. K = <<>> /\ S = <<>>
      BY <1>6, <2>2 DEF Kept, path
    <3>2. S \o C = C /\ S \o K = <<>> /\ <<>> \in Seq(Token)
      BY <1>5, <3>1, ConcatEmptySeq
    <3>3. <<>> # <<U!Slash>>
      OBVIOUS
    <3> QED
      BY <1>2, <1>5, <3>1, <3>2, <3>3 DEF IsPath
  <2>3. CASE path # <<>>
    <3>1. K = C
      BY <2>3 DEF Kept, C, path
    <3>2. Len(path) # 0
      BY <1>2, <2>3, EmptySeq
    <3>3. Len(S) >= 2 /\ Len(S) \in Nat
      BY <2>1, <3>2
    <3>4. S[1] = U!Slash
      BY <1>6, <3>3 DEF IsPath
    <3>5. /\ S \o C \in Seq(Token) /\ Len(S \o C) = Len(S) + Len(C) /\ Len(C) \in Nat
          /\ (S \o C)[1] = S[1]
      BY <1>5, <1>6, <3>3
    <3>6. Len(S \o C) >= 2
      BY <3>3, <3>5
    <3>7. S \o C # <<U!Slash>>
      BY <3>6
    <3> QED
      BY <3>1, <3>4, <3>5, <3>7, <1>5 DEF IsPath
  <2> QED
    BY <2>2, <2>3
<1>11. /\ U!NormalizeServerUrl(B \o Q) = O \o Q
       /\ U!NormalizeServerUrl(O \o S) = O \o S
       /\ U!NormalizeServerUrl(B \o (S \o C)) = O \o (S \o K)
       /\ U!NormalizeServerUrl(O \o (S \o K)) = O \o (S \o K)
  <2>1. Low(U!Lower(Scheme)) = U!Lower(Scheme) /\ Low(U!Lower(Host)) = U!Lower(Host)
    BY DEF Low, U!Lower
  <2> HIDE DEF Q, S
  <2>2. Begin(Low(s), Low(h), p) = O
    BY <1>1, Zenon
  <2>3. Begin(Low(U!Lower(Scheme)), Low(U!Lower(Host)), p) = O
    BY <2>1, Zenon
  <2>4. ASSUME NEW P, IsPath(P)
        PROVE  U!NormalizeServerUrl(B \o P) = O \o (IF P = <<U!Slash>> THEN <<>> ELSE P)
    <3>1. U!NormalizeServerUrl(Begin(s, h, p) \o P)
            = Begin(Low(s), Low(h), p) \o (IF P = <<U!Slash>> THEN <<>> ELSE P)
      BY <2>4, Normalized
    <3> QED
      BY <2>2, <3>1, Zenon
  <2>5. ASSUME NEW P, IsPath(P), P # <<U!Slash>>
        PROVE  U!NormalizeServerUrl(O \o P) = O \o P
    <3>1. U!NormalizeServerUrl(Begin(U!Lower(Scheme), U!Lower(Host), p) \o P)
            = Begin(Low(U!Lower(Scheme)), Low(U!Lower(Host)), p)
              \o (IF P = <<U!Slash>> THEN <<>> ELSE P)
      BY <1>3, <2>5, Normalized
    <3> QED
      BY <2>3, <2>5, <3>1, Zenon
  <2> HIDE DEF B, O
  <2>6. U!NormalizeServerUrl(B \o Q) = O \o Q
    BY <1>7, <2>4, Zenon
  <2>7. U!NormalizeServerUrl(O \o S) = O \o S
    BY <1>6, <2>5, Zenon
  <2> DEFINE SC == S \o C
             SK == S \o K
  <2>8. IsPath(SC) /\ (SC = <<U!Slash>> => SK = <<>>) /\ (SC # <<U!Slash>> => SC = SK)
    BY <1>10
  <2> HIDE DEF SC, SK
  <2>9. U!NormalizeServerUrl(B \o SC) = O \o SK
    BY <2>4, <2>8, Zenon
  <2>10. U!NormalizeServerUrl(O \o SK) = O \o SK
    BY <1>10, <2>5, Zenon DEF SK
  <2> QED
    BY <2>6, <2>7, <2>9, <2>10 DEF SC, SK
<1>12. /\ U!Authority(O \o Q) = O /\ U!Path(O \o Q) = Q
       /\ O \o Q # <<>> /\ O \o (S \o K) # <<>>
  <2>1. U!Authority(O \o Q) = O /\ U!Path(O \o Q) = Q /\ Len(O \o Q) >= 3
    BY <1>3, <1>7, UrlSplits
  <2>2. Len(O \o (S \o K)) >= 3
    BY <1>3, <1>10, UrlSplits
  <2>3. Len(<<>>) = 0 /\ ~(0 >= 3)
    OBVIOUS
  <2> QED
    BY <2>1, <2>2, <2>3, Zenon
<1> HIDE DEF B, O, S, server
<1>13. Shorthand(in) = [server |-> server, name |-> <<name>>]
  <2> DEFINE T == U!Trimmed(Q)
             slashes == {i \in 1..Len(T) : T[i] = U!Slash}
             cut == IF slashes = {} THEN 0 ELSE U!Max(slashes)
  <2>1. (Address(in) \o <<U!Slash, name>>) \o C = B \o Q
    <3>1. <<U!Slash, name>> \in Seq(Token) /\ C \in Seq(Token)
      <4>1. name \in Token
        BY <1>2 DEF Token
      <4> QED
        BY <1>5, <4>1, TuplesAre, Zenon
    <3>2. (B \o S) \o <<U!Slash, name>> = B \o (S \o <<U!Slash, name>>)
      BY <1>4, <1>6, <3>1, ConcatAssociative
    <3>3. S \o <<U!Slash, name>> \in Seq(Token)
      BY <1>6, <3>1, ConcatProperties
    <3>4. (B \o (S \o <<U!Slash, name>>)) \o C = B \o ((S \o <<U!Slash, name>>) \o C)
      BY <1>4, <3>1, <3>3, ConcatAssociative
    <3> QED
      BY <1>9, <3>2, <3>4, Zenon DEF NamedPath, S
  <2>2. /\ T # <<>>
        /\ cut = 0 <=> Len(path) = 0
        /\ SubSeq(T, cut + 1, Len(T)) = <<name>>
        /\ cut # 0 => <<U!Slash>> \o SubSeq(T, 1, cut - 1) = S
    BY <1>2, Cut DEF S
  <2>3. Shorthand(in) = U!ParseTargetSpec(B \o Q, U!Nullopt)
    BY <2>1, Zenon DEF Shorthand
  <2> HIDE DEF Q, path, name
  <2>4. U!ParseTargetSpec(B \o Q, U!Nullopt)
          = [server |-> O \o (IF cut = 0 THEN <<>> ELSE <<U!Slash>> \o SubSeq(T, 1, cut - 1)),
             name |-> SubSeq(T, cut + 1, Len(T))]
    <3>1. U!NormalizeServerUrl(B \o Q) # U!Nullopt
      BY <1>11, <1>12 DEF U!Nullopt
    <3> QED
      BY <1>11, <1>12, <2>2, <3>1 DEF U!ParseTargetSpec
  <2> HIDE DEF cut, T
  <2>5. (IF cut = 0 THEN <<>> ELSE <<U!Slash>> \o SubSeq(T, 1, cut - 1)) = S
    <3>1. Len(path) = 0 => path = <<>>
      BY <1>2, EmptySeq
    <3> QED
      BY <1>6, <2>2, <3>1, Zenon
  <2> QED
    BY <1>8, <2>2, <2>3, <2>4, <2>5, Zenon
<1>14. /\ server \o K = O \o (S \o K)
       /\ Longhand(in) = [server |-> O \o (S \o K), name |-> <<name>>]
  <2>1. (B \o S) \o C = B \o (S \o C)
    BY <1>4, <1>5, <1>6, ConcatAssociative
  <2>2. (O \o S) \o K = O \o (S \o K)
    <3> HIDE DEF C, K
    <3>1. K \in Seq(Token)
      BY <1>10
    <3> QED
      BY <1>4, <1>6, <3>1, ConcatAssociative
  <2>3. Longhand(in) = U!ParseTargetSpec(B \o (S \o C), <<name>>)
    BY <1>9, <2>1, Zenon DEF Longhand
  <2> DEFINE to == O \o (S \o K)
             from == B \o (S \o C)
  <2>4. <<name>> # U!Nullopt /\ to # U!Nullopt /\ U!NormalizeServerUrl(from) = to
    BY <1>11, <1>12 DEF U!Nullopt
  <2> HIDE DEF to, from, name, path, C, K
  <2>5. U!ParseTargetSpec(from, <<name>>) = [server |-> to, name |-> <<name>>]
    BY <2>4 DEF U!ParseTargetSpec
  <2> QED
    BY <1>8, <2>2, <2>3, <2>5, Zenon DEF to, from
<1> HIDE DEF path, name, C, K
<1>15. U!NormalizeServerUrl(server) = server /\ U!NormalizeServerUrl(server \o K) = server \o K
  BY <1>8, <1>11, <1>14, Zenon
<1> QED
  BY <1>13, <1>14, <1>15, Zenon DEF Leads, server, K, name

\* A target names one server by its address in lower case and one workspace,
\* whichever way it is written; only a slash behind a sub-path that is given
\* to --workspace makes a second key: parseTargetSpec and normalizeServerUrl
\* for every server, sub-path and name.
THEOREM KeysAreKnown == TargetSpec => []KeysOfServer
<1>1. TargetInit => KeysOfServer
  <2> SUFFICES ASSUME wanted \in Targets PROVE KeysOfServer
    <3>1. NoTarget.given = FALSE
      BY DEF NoTarget
    <3> QED
      BY <3>1 DEF TargetInit, KeysOfServer
  <2>1. Leads(wanted)
    BY BothSpellings
  <2>2. /\ [server |-> Key(wanted), name |-> <<wanted.name>>].server = Key(wanted)
        /\ [server |-> Key(wanted) \o Kept(wanted), name |-> <<wanted.name>>].server
             = Key(wanted) \o Kept(wanted)
    OBVIOUS
  <2> QED
    BY <2>1, <2>2, Zenon DEF KeysOfServer, Leads
<1>2. KeysOfServer /\ UNCHANGED wanted => KeysOfServer'
  BY DEF KeysOfServer, Shorthand, Longhand, Key, Kept, Address, Closing, Origin
<1> QED
  BY <1>1, <1>2, PTL DEF TargetSpec
=============================================================================
