------------------------- MODULE SelfUpdateProofs -------------------------
(***************************************************************************)
(* What TLAPS proves of SelfUpdate for any number of executions: the last  *)
(* executable is never lost, the command is missing only with a cause, and *)
(* nothing unverified is installed; and of the versions it compares, that  *)
(* SemVer reads and orders them as Semantic Versioning says, however long. *)
(***************************************************************************)
EXTENDS SelfUpdate, SemVerCheck, SequenceTheorems, WellFoundedInduction, TLAPS

\* The reason clean-ups and second moves are harmless on Windows: whoever
\* runs does so from one of the two files, and so locks it.
Anchored ==
    platform = "windows" =>
        \A p \in Proc : pc[p] \in Busy => image[p] \in {target, backup} \ {Nothing}

\* Only Windows is ever without a target, and only there two moves are needed.
Atomic ==
    platform # "windows" =>
        /\ target # Nothing
        /\ \A p \in Proc : pc[p] \notin {"moveIn", "rollback"}

\* An execution gets past the check only with an intact archive, and its file
\* is installed only when it is done.
Checked ==
    /\ \A p \in Proc : pc[p] \in {"install", "moveIn", "rollback", "installed"} =>
            archive[p] = "intact"
    /\ \A p \in Proc \cap {target, backup, astray} : pc[p] = "installed"

Inv ==
    /\ TypeOK
    /\ Anchored
    /\ Atomic
    /\ Checked
    /\ ExecutableSurvives
    /\ MissingHasCause

-----------------------------------------------------------------------------
LEMMA InitInv == Init => Inv
BY NamesAssumption DEF Init, Inv, TypeOK, Anchored, Atomic, Checked, ExecutableSurvives,
   MissingHasCause, File, Over, Busy

\* Every value stays in its type.
LEMMA StepType ==
    ASSUME TypeOK, Atomic, NEW p \in Proc, Step(p)
    PROVE  TypeOK'
<1> USE NamesAssumption DEF TypeOK, File, Over, Busy, files, locals, Goes
<1>1. CASE Start(p)
  BY <1>1 DEF Start
<1>2. CASE Crash(p)
  BY <1>2 DEF Crash
<1>3. CASE Located(p)
  BY <1>3 DEF Located, OwnPath, CleansUp
<1>4. CASE Downloaded(p)
  BY <1>4 DEF Downloaded
<1>5. CASE Extracted(p) \/ GivesUp(p)
  BY <1>5 DEF Extracted, GivesUp
<1>6. CASE InstallPosix(p)
  <2>1. path[p] # "target" => platform = "linux"
    OBVIOUS
  <2> QED
    BY <1>6, <2>1 DEF InstallPosix, RenamesOver
<1>7. CASE MovesAway(p)
  BY <1>7 DEF MovesAway
<1>8. CASE MovesIn(p)
  BY <1>8 DEF MovesIn
<1>9. CASE MoveInFails(p) \/ RollbackFails(p)
  BY <1>9 DEF MoveInFails, RollbackFails
<1>10. CASE RollsBack(p)
  BY <1>10, Atomic DEF RollsBack, Atomic
<1> QED
  BY <1>1, <1>2, <1>3, <1>4, <1>5, <1>6, <1>7, <1>8, <1>9, <1>10 DEF Step

\* On Windows a running execution keeps its file: nobody deletes or overwrites
\* it, and it is moved only from the target to the backup or back.
LEMMA StepAnchored ==
    ASSUME TypeOK, Anchored, Atomic, NEW p \in Proc, Step(p)
    PROVE  Anchored'
<1> SUFFICES ASSUME platform = "windows", platform' = "windows",
                    NEW q \in Proc, pc'[q] \in Busy
             PROVE  image'[q] \in {target', backup'} \ {Nothing}
  BY DEF Anchored, Step, Start, Crash, Located, Downloaded, Extracted, GivesUp, InstallPosix,
     MovesAway, MovesIn, MoveInFails, RollsBack, RollbackFails
<1> USE NamesAssumption DEF TypeOK, File, Over, Busy, files, locals, Goes
<1>a. ASSUME pc[q] \in Busy
      PROVE  image[q] \in {target, backup} \ {Nothing} /\ Locked(image[q])
  BY <1>a DEF Anchored, Locked, Executes
<1>1. CASE Start(p)
  <2>1. CASE q = p
    BY <1>1, <2>1 DEF Start
  <2>2. CASE q # p
    BY <1>1, <2>2, <1>a DEF Start
  <2> QED
    BY <2>1, <2>2
<1>2. CASE Crash(p) \/ Downloaded(p) \/ Extracted(p) \/ GivesUp(p) \/ MoveInFails(p)
           \/ RollbackFails(p)
  <2>1. pc[q] \in Busy /\ UNCHANGED <<target, backup, image>>
    BY <1>2 DEF Crash, Downloaded, Extracted, GivesUp, MoveInFails, RollbackFails
  <2> QED
    BY <1>a, <2>1
<1>3. CASE Located(p)
  <2>1. pc[q] \in Busy /\ UNCHANGED <<target, image>>
    BY <1>3 DEF Located
  <2>2. image[q] = backup => backup' = backup
    BY <1>3, <2>1, <1>a DEF Located, CleansUp
  <2> QED
    BY <1>a, <2>1, <2>2
<1>4. CASE InstallPosix(p)
  BY <1>4 DEF InstallPosix
<1>5. CASE MovesAway(p)
  <2>1. pc[q] \in Busy /\ image[q] # backup /\ backup' = target /\ UNCHANGED image
    BY <1>5, <1>a DEF MovesAway
  <2> QED
    BY <1>a, <2>1
<1>6. CASE MovesIn(p)
  <2>1. pc[q] \in Busy /\ image[q] # target /\ UNCHANGED <<backup, image>>
    BY <1>6, <1>a DEF MovesIn
  <2> QED
    BY <1>a, <2>1
<1>7. CASE RollsBack(p)
  <2>1. pc[q] \in Busy /\ image[q] # target /\ target' = backup /\ UNCHANGED image
    BY <1>7, <1>a DEF RollsBack
  <2> QED
    BY <1>a, <2>1
<1> QED
  BY <1>1, <1>2, <1>3, <1>4, <1>5, <1>6, <1>7 DEF Step

LEMMA StepAtomic ==
    ASSUME TypeOK, Atomic, NEW p \in Proc, Step(p)
    PROVE  Atomic'
<1> USE NamesAssumption DEF TypeOK, File, Over, Busy, files, locals, Goes, Atomic
<1>1. CASE Start(p) \/ Crash(p) \/ Located(p) \/ Downloaded(p) \/ Extracted(p) \/ GivesUp(p)
  BY <1>1 DEF Start, Crash, Located, Downloaded, Extracted, GivesUp
<1>2. CASE InstallPosix(p)
  BY <1>2 DEF InstallPosix, RenamesOver
<1>3. CASE MovesAway(p) \/ MovesIn(p) \/ MoveInFails(p) \/ RollsBack(p) \/ RollbackFails(p)
  BY <1>3 DEF MovesAway, MovesIn, MoveInFails, RollsBack, RollbackFails
<1> QED
  BY <1>1, <1>2, <1>3 DEF Step

\* Only a finished execution has its file in one of the three places, so no
\* later download changes what is known of it.
LEMMA StepChecked ==
    ASSUME TypeOK, Checked, NEW p \in Proc, Step(p)
    PROVE  Checked'
<1> USE NamesAssumption DEF TypeOK, File, Over, Busy, files, locals, Goes, Checked
<1>1. CASE Start(p) \/ Crash(p) \/ Downloaded(p) \/ GivesUp(p)
  BY <1>1 DEF Start, Crash, Downloaded, GivesUp
<1>2. CASE Located(p)
  BY <1>2 DEF Located, CleansUp
<1>3. CASE Extracted(p)
  BY <1>3 DEF Extracted, ChecksumAgrees
<1>4. CASE InstallPosix(p)
  BY <1>4 DEF InstallPosix, RenamesOver
<1>5. CASE MovesAway(p)
  BY <1>5 DEF MovesAway
<1>6. CASE MovesIn(p)
  BY <1>6 DEF MovesIn
<1>7. CASE MoveInFails(p) \/ RollbackFails(p)
  BY <1>7 DEF MoveInFails, RollbackFails
<1>8. CASE RollsBack(p)
  BY <1>8 DEF RollsBack
<1> QED
  BY <1>1, <1>2, <1>3, <1>4, <1>5, <1>6, <1>7, <1>8 DEF Step

\* A clean-up that meets a missing target meets a backup its own process runs.
LEMMA StepSurvives ==
    ASSUME TypeOK, Anchored, Atomic, ExecutableSurvives, NEW p \in Proc, Step(p)
    PROVE  ExecutableSurvives'
<1> USE NamesAssumption DEF TypeOK, File, Over, Busy, files, locals, Goes, ExecutableSurvives
<1>1. CASE Start(p) \/ Crash(p) \/ Downloaded(p) \/ Extracted(p) \/ GivesUp(p)
           \/ MoveInFails(p) \/ RollbackFails(p)
  BY <1>1 DEF Start, Crash, Downloaded, Extracted, GivesUp, MoveInFails, RollbackFails
<1>2. CASE Located(p)
  <2>1. target = Nothing => platform = "windows" /\ Locked(backup)
    BY <1>2 DEF Located, Anchored, Atomic, Locked, Executes
  <2> QED
    BY <1>2, <2>1 DEF Located, CleansUp
<1>3. CASE InstallPosix(p)
  BY <1>3 DEF InstallPosix, RenamesOver, Atomic
<1>4. CASE MovesAway(p) \/ MovesIn(p) \/ RollsBack(p)
  BY <1>4 DEF MovesAway, MovesIn, RollsBack
<1> QED
  BY <1>1, <1>2, <1>3, <1>4 DEF Step

LEMMA StepCause ==
    ASSUME TypeOK, Atomic, MissingHasCause, NEW p \in Proc, Step(p)
    PROVE  MissingHasCause'
<1> SUFFICES ASSUME target' = Nothing, ~accident'
             PROVE  \E q \in Proc : pc'[q] \in {"moveIn", "rollback"}
  BY DEF MissingHasCause
<1> USE NamesAssumption DEF TypeOK, File, Over, Busy, files, locals, Goes
<1>1. CASE MovesAway(p) \/ MoveInFails(p)
  BY <1>1 DEF MovesAway, MoveInFails
<1>2. CASE MovesIn(p) \/ RollsBack(p) \/ RollbackFails(p)
  BY <1>2 DEF MovesIn, RollsBack, RollbackFails
<1>3. CASE InstallPosix(p)
  BY <1>3 DEF InstallPosix, RenamesOver, Atomic
<1>4. CASE Start(p) \/ Crash(p) \/ Located(p) \/ Downloaded(p) \/ Extracted(p) \/ GivesUp(p)
  <2>1. target = Nothing /\ ~accident /\ pc[p] \notin {"moveIn", "rollback"}
    BY <1>4 DEF Start, Crash, Located, Downloaded, Extracted, GivesUp
  <2>2. PICK q \in Proc : pc[q] \in {"moveIn", "rollback"}
    BY <2>1 DEF MissingHasCause
  <2>3. q # p /\ pc'[q] = pc[q]
    BY <1>4, <2>1, <2>2 DEF Start, Crash, Located, Downloaded, Extracted, GivesUp
  <2> QED
    BY <2>2, <2>3
<1> QED
  BY <1>1, <1>2, <1>3, <1>4 DEF Step

LEMMA NextInv == Inv /\ [Next]_vars => Inv'
<1> SUFFICES ASSUME Inv, [Next]_vars PROVE Inv'
  OBVIOUS
<1>1. CASE Next
  BY <1>1, StepType, StepAnchored, StepAtomic, StepChecked, StepSurvives, StepCause DEF Inv, Next
<1>2. CASE UNCHANGED vars
  BY <1>2 DEF vars, files, locals, Inv, TypeOK, Anchored, Atomic, Checked, ExecutableSurvives,
     MissingHasCause
<1> QED
  BY <1>1, <1>2

LEMMA Invariant == Spec => []Inv
BY InitInv, NextInv, PTL DEF Spec

-----------------------------------------------------------------------------
\* Every variable of the update model stays in its type; in particular only
\* Windows has a backup and only Linux a file beside the target.
THEOREM TypeCorrect == Spec => []TypeOK
BY Invariant, PTL DEF Inv

\* However many updates run and crash, replaceExecutable and
\* cleanupStaleUpdateFiles leave an executable.
THEOREM Survives == Spec => []ExecutableSurvives
BY Invariant, PTL DEF Inv

\* The command is missing only between the two moves of the Windows branch,
\* or after an accident there.
THEOREM MissingCause == Spec => []MissingHasCause
BY Invariant, PTL DEF Inv

\* No interleaving installs a file whose archive failed its checksum.
THEOREM Verified == Spec => []OnlyVerified
<1>1. Inv => OnlyVerified
  BY DEF Inv, Checked, OnlyVerified
<1> QED
  BY <1>1, Invariant, PTL

-----------------------------------------------------------------------------
\* A set with 0 and every successor, and a set with <<>> and every extension,
\* hold all of Nat and all of Seq(T).
LEMMA SetInduction ==
  ASSUME NEW S, 0 \in S, \A n \in Nat : n \in S => n+1 \in S PROVE Nat \subseteq S
<1> SUFFICES ASSUME Nat \ S # {} PROVE FALSE
  OBVIOUS
<1>1. IsWellFoundedOn(OpToRel(<,Nat), Nat)
  BY NatLessThanWellFounded
<1>2. PICK n \in Nat \ S : \A m \in Nat \ S : <<m, n>> \notin OpToRel(<,Nat)
  BY <1>1, WFMin
<1>3. \A m \in Nat \ S : ~(m < n)
  BY <1>2 DEF OpToRel
<1>4. n - 1 \in Nat /\ n - 1 \in S /\ n - 1 + 1 = n
  BY <1>3
<1> QED
  BY <1>4

LEMMA SeqInduction ==
    ASSUME NEW T, NEW S, <<>> \in S, \A s \in Seq(T), e \in T : s \in S => Append(s, e) \in S
    PROVE  Seq(T) \subseteq S
<1> DEFINE N == {n \in Nat : \A s \in Seq(T) : Len(s) = n => s \in S}
<1>1. 0 \in N
  BY EmptySeq
<1>2. ASSUME NEW n \in Nat, n \in N PROVE n + 1 \in N
  <2> SUFFICES ASSUME NEW s \in Seq(T), Len(s) = n + 1 PROVE s \in S
    OBVIOUS
  <2>1. PICK t \in Seq(T), e \in T : s = Append(t, e)
    <3>1. s # <<>>
      BY EmptySeq
    <3> QED
      BY <3>1, SequenceEmptyOrAppend
  <2>2. Len(t) = n
    BY <2>1, AppendProperties, LenProperties
  <2> QED
    BY <1>2, <2>1, <2>2
<1>3. Nat \subseteq N
  <2> HIDE DEF N
  <2> QED
    BY <1>1, <1>2, SetInduction
<1> QED
  BY <1>3, LenProperties

\* A recursive function of 0..N exists: each value is made from the one before.
Follows(f, N, z, G) == f[0] = z /\ \A i \in 1..N : f[i] = G[i][f[i - 1]]

LEMMA Recursion ==
    ASSUME NEW X, NEW z \in X, NEW N \in Nat, NEW G, \A i \in 1..N : G[i] \in [X -> X]
    PROVE  \E f \in [0..N -> X] : Follows(f, N, z, G)
<1> DEFINE Upto(n, f) == f[0] = z /\ \A i \in 1..n : f[i] = G[i][f[i - 1]]
           S == {n \in Nat : n <= N => \E f \in [0..n -> X] : Upto(n, f)}
<1>1. 0 \in S
  <2>1. [i \in 0..0 |-> z] \in [0..0 -> X] /\ Upto(0, [i \in 0..0 |-> z])
    OBVIOUS
  <2> QED
    BY <2>1
<1>2. ASSUME NEW n \in Nat, n \in S PROVE n + 1 \in S
  <2> SUFFICES ASSUME n + 1 <= N PROVE \E f \in [0..(n + 1) -> X] : Upto(n + 1, f)
    OBVIOUS
  <2>1. PICK f \in [0..n -> X] : Upto(n, f)
    BY <1>2
  <2> DEFINE g == [i \in 0..(n + 1) |-> IF i = n + 1 THEN G[n + 1][f[n]] ELSE f[i]]
  <2>2. G[n + 1] \in [X -> X] /\ f[n] \in X
    BY <2>1
  <2>3. G[n + 1][f[n]] \in X
    BY <2>2
  <2>4. g \in [0..(n + 1) -> X]
    BY <2>1, <2>3
  <2>5. g[0] = z
    BY <2>1
  <2>6. ASSUME NEW i \in 1..(n + 1) PROVE g[i] = G[i][g[i - 1]]
    <3>1. i - 1 \in 0..n /\ g[i - 1] = f[i - 1]
      OBVIOUS
    <3>2. CASE i = n + 1
      BY <3>1, <3>2
    <3>3. CASE i \in 1..n
      BY <2>1, <3>1, <3>3
    <3> QED
      BY <3>2, <3>3
  <2> HIDE DEF g
  <2> QED
    BY <2>4, <2>5, <2>6
<1>3. Nat \subseteq S
  <2> HIDE DEF S
  <2> QED
    BY <1>1, <1>2, SetInduction
<1> QED
  BY <1>3 DEF Follows

LEMMA FollowsTyped ==
    ASSUME NEW X, NEW N \in Nat, NEW w, w[0] \in X,
           \A i \in 1..N : w[i - 1] \in X => w[i] \in X
    PROVE  \A n \in 0..N : w[n] \in X
<1> DEFINE S == {n \in Nat : n <= N => w[n] \in X}
<1>1. 0 \in S
  OBVIOUS
<1>2. ASSUME NEW n \in Nat, n \in S PROVE n + 1 \in S
  <2> SUFFICES ASSUME n + 1 <= N PROVE w[n + 1] \in X
    OBVIOUS
  <2>1. n + 1 \in 1..N /\ (n + 1) - 1 = n /\ w[n] \in X
    BY <1>2
  <2> QED
    BY <2>1
<1>3. Nat \subseteq S
  <2> HIDE DEF S
  <2> QED
    BY <1>1, <1>2, SetInduction
<1> QED
  BY <1>3

LEMMA FollowsAgree ==
    ASSUME NEW N \in Nat, NEW M \in Nat, N <= M, NEW z, NEW G, NEW H, NEW f, NEW g,
           Follows(f, N, z, G), Follows(g, M, z, H), \A i \in 1..N : G[i] = H[i]
    PROVE  \A i \in 0..N : f[i] = g[i]
<1> DEFINE S == {n \in Nat : n <= N => f[n] = g[n]}
<1>1. 0 \in S
  BY DEF Follows
<1>2. ASSUME NEW n \in Nat, n \in S PROVE n + 1 \in S
  <2> SUFFICES ASSUME n + 1 <= N PROVE f[n + 1] = g[n + 1]
    OBVIOUS
  <2>1. n + 1 \in 1..N /\ n + 1 \in 1..M /\ (n + 1) - 1 = n /\ f[n] = g[n]
    BY <1>2
  <2>2. f[n + 1] = G[n + 1][f[n]] /\ g[n + 1] = H[n + 1][g[n]]
    BY <2>1 DEF Follows
  <2> QED
    BY <2>1, <2>2
<1>3. Nat \subseteq S
  <2> HIDE DEF S
  <2> QED
    BY <1>1, <1>2, SetInduction
<1> QED
  BY <1>3

-----------------------------------------------------------------------------
\* Segments, token by token.
Pieces(T) == Seq(Seq(T)) \ {<<>>}

\* A dot begins a piece, another token ends the last one.
LEMMA GrownType ==
    ASSUME NEW T, NEW q \in Seq(Seq(T)), NEW l \in Seq(T), NEW e \in T
    PROVE  /\ e = V!Dot => V!Grown(Append(q, l), e) = Append(Append(q, l), <<>>)
           /\ e # V!Dot => V!Grown(Append(q, l), e) = Append(q, Append(l, e))
<1> DEFINE p == Append(q, l)
           n == Len(q) + 1
<1>1. /\ p \in Seq(Seq(T)) /\ Len(p) = n /\ n \in 1..Len(p)
      /\ \A i \in 1..Len(q) : p[i] = q[i]
      /\ p[n] = l
  BY AppendProperties
<1>2. Append(l, e) \in Seq(T)
  BY AppendProperties
<1>3. /\ Append(q, Append(l, e)) \in Seq(Seq(T)) /\ Len(Append(q, Append(l, e))) = n
      /\ \A i \in 1..Len(q) : Append(q, Append(l, e))[i] = q[i]
      /\ Append(q, Append(l, e))[n] = Append(l, e)
  BY <1>2, AppendProperties
<1> HIDE DEF p
<1>4. ASSUME e # V!Dot PROVE V!Grown(p, e) = Append(q, Append(l, e))
  <2> DEFINE r == [p EXCEPT ![n] = Append(l, e)]
  <2>1. V!Grown(p, e) = r
    BY <1>1, <1>4 DEF V!Grown
  <2>2. /\ r \in Seq(Seq(T)) /\ Len(r) = n
        /\ \A i \in 1..n : r[i] = IF i = n THEN Append(l, e) ELSE p[i]
    BY <1>1, <1>2, ExceptSeq
  <2> HIDE DEF r
  <2>3. \A i \in 1..n : r[i] = Append(q, Append(l, e))[i]
    <3> SUFFICES ASSUME NEW i \in 1..n PROVE r[i] = Append(q, Append(l, e))[i]
      OBVIOUS
    <3>1. Len(q) \in Nat
      BY LenProperties
    <3>2. i # n => i \in 1..Len(q)
      BY <3>1
    <3> QED
      BY <1>1, <1>3, <2>2, <3>2
  <2>4. r = Append(q, Append(l, e))
    BY <1>3, <2>2, <2>3, SeqEqual
  <2> QED
    BY <2>1, <2>4
<1>5. ASSUME e = V!Dot PROVE V!Grown(p, e) = Append(p, <<>>)
  BY <1>5 DEF V!Grown
<1> QED
  BY <1>4, <1>5 DEF p

\* Every list of pieces has a last one.
LEMMA PiecesLast ==
    ASSUME NEW T, NEW p \in Pieces(T)
    PROVE  \E q \in Seq(Seq(T)), l \in Seq(T) : p = Append(q, l)
BY SequenceEmptyOrAppend DEF Pieces

LEMMA PiecesAppend ==
    ASSUME NEW T, NEW q \in Seq(Seq(T)), NEW l \in Seq(T)
    PROVE  Append(q, l) \in Pieces(T)
<1>1. Append(q, l) \in Seq(Seq(T)) /\ Len(Append(q, l)) = Len(q) + 1 /\ Len(q) \in Nat
  BY AppendProperties
<1>2. Len(Append(q, l)) # 0
  BY <1>1
<1> QED
  BY <1>1, <1>2 DEF Pieces

LEMMA GrownPieces ==
    ASSUME NEW T, NEW p \in Pieces(T), NEW e \in T
    PROVE  V!Grown(p, e) \in Pieces(T)
<1>1. PICK q \in Seq(Seq(T)), l \in Seq(T) : p = Append(q, l)
  BY PiecesLast
<1>2. Append(l, e) \in Seq(T) /\ <<>> \in Seq(T) /\ Append(q, l) \in Seq(Seq(T))
  BY AppendProperties
<1>3. CASE e = V!Dot
  <2>1. V!Grown(p, e) = Append(Append(q, l), <<>>)
    BY <1>1, <1>3, GrownType, Zenon
  <2> QED
    BY <1>2, <2>1, PiecesAppend, Zenon
<1>4. CASE e # V!Dot
  <2>1. V!Grown(Append(q, l), e) = Append(q, Append(l, e))
    BY <1>4, GrownType
  <2> QED
    BY <1>1, <1>2, <2>1, PiecesAppend, Zenon
<1> QED
  BY <1>3, <1>4

IsRun(f, text) ==
    f = [i \in 0..Len(text) |-> IF i = 0 THEN <<<<>>>> ELSE V!Grown(f[i - 1], text[i])]

LEMMA SegmentsIsRun ==
    ASSUME NEW text PROVE V!Segments(text) = (CHOOSE f : IsRun(f, text))[Len(text)]
BY DEF V!Segments, IsRun

Growth(T, text) == [i \in 1..Len(text) |-> [p \in Pieces(T) |-> V!Grown(p, text[i])]]

\* Segments is the last value of the function that grows piece by piece.
LEMMA SegmentsFollows ==
    ASSUME NEW T, NEW text \in Seq(T)
    PROVE  \E f : /\ Follows(f, Len(text), <<<<>>>>, Growth(T, text))
                  /\ V!Segments(text) = f[Len(text)]
                  /\ \A i \in 0..Len(text) : f[i] \in Pieces(T)
<1> DEFINE N == Len(text)
           X == Pieces(T)
           z == <<<<>>>>
           G == Growth(T, text)
           R(f) == \A i \in 1..N : f[i] = V!Grown(f[i - 1], text[i])
<1>1. N \in Nat /\ \A i \in 1..N : text[i] \in T
  BY LenProperties
<1>2. z \in X
  <2>1. <<>> \in Seq(T) /\ <<>> \in Seq(Seq(T)) /\ z = Append(<<>>, <<>>)
    OBVIOUS
  <2> HIDE DEF z
  <2> QED
    BY <2>1, PiecesAppend
<1> HIDE DEF N, X, z
<1>3. \A i \in 1..N : G[i] = [p \in X |-> V!Grown(p, text[i])] /\ G[i] \in [X -> X]
  BY <1>1, GrownPieces DEF Growth, X, N
<1> HIDE DEF G
<1>4. PICK f \in [0..N -> X] : Follows(f, N, z, G)
  BY <1>1, <1>2, <1>3, Recursion
<1>5. IsRun(f, text)
  <2>1. \A i \in 0..N : f[i] = IF i = 0 THEN z ELSE V!Grown(f[i - 1], text[i])
    <3> SUFFICES ASSUME NEW i \in 1..N PROVE f[i] = V!Grown(f[i - 1], text[i])
      BY <1>4 DEF Follows
    <3>1. i - 1 \in 0..N /\ f[i - 1] \in X /\ f[i] = G[i][f[i - 1]]
      BY <1>1, <1>4 DEF Follows
    <3> QED
      BY <1>3, <3>1
  <2> QED
    BY <2>1 DEF IsRun, N, z
<1>6. PICK g : g = (CHOOSE h : IsRun(h, text)) /\ IsRun(g, text)
  BY <1>5
<1>7. g[0] = z /\ \A i \in 1..N : g[i] = V!Grown(g[i - 1], text[i])
  <2> DEFINE h == [i \in 0..N |-> IF i = 0 THEN z ELSE V!Grown(g[i - 1], text[i])]
  <2>1. g = h
    BY <1>6 DEF IsRun, N, z
  <2>2. h[0] = z /\ \A i \in 1..N : h[i] = V!Grown(g[i - 1], text[i])
    BY <1>1
  <2> HIDE DEF h
  <2> QED
    BY <2>1, <2>2, Zenon
<1>8. \A i \in 0..N : g[i] \in X
  <2>1. g[0] \in X
    BY <1>2, <1>7
  <2>2. \A i \in 1..N : g[i - 1] \in X => g[i] \in X
    BY <1>1, <1>7, GrownPieces DEF X
  <2> QED
    BY <1>1, <2>1, <2>2, FollowsTyped
<1>9. Follows(g, N, z, G)
  <2>1. \A i \in 1..N : g[i] = G[i][g[i - 1]]
    <3> SUFFICES ASSUME NEW i \in 1..N PROVE g[i] = G[i][g[i - 1]]
      OBVIOUS
    <3>1. i - 1 \in 0..N /\ g[i - 1] \in X
      BY <1>1, <1>8
    <3> QED
      <4>1. G[i] = [p \in X |-> V!Grown(p, text[i])]
        BY <1>3
      <4> QED
        BY <1>7, <3>1, <4>1
  <2> QED
    BY <1>7, <2>1 DEF Follows
<1>10. V!Segments(text) = g[N]
  BY <1>6, SegmentsIsRun DEF N
<1> QED
  BY <1>8, <1>9, <1>10 DEF N, X, z, G

\* One more token grows the pieces.
LEMMA SegmentsAppend ==
    ASSUME NEW T, NEW s \in Seq(T), NEW e \in T
    PROVE  /\ V!Segments(s) \in Pieces(T)
           /\ V!Segments(Append(s, e)) = V!Grown(V!Segments(s), e)
<1> DEFINE t == Append(s, e)
           N == Len(s)
           M == Len(t)
           z == <<<<>>>>
           G == Growth(T, s)
           H == Growth(T, t)
<1>1. /\ t \in Seq(T) /\ M = N + 1 /\ N \in Nat /\ M \in Nat
      /\ \A i \in 1..N : t[i] = s[i]
      /\ t[N + 1] = e
  BY AppendProperties
<1>2. PICK f : /\ Follows(f, N, z, G) /\ V!Segments(s) = f[N]
               /\ \A i \in 0..N : f[i] \in Pieces(T)
  BY SegmentsFollows
<1> HIDE DEF t
<1>3. PICK g : Follows(g, M, z, H) /\ V!Segments(t) = g[M]
  BY <1>1, SegmentsFollows
<1>4. \A i \in 1..N : G[i] = H[i]
  BY <1>1 DEF Growth
<1>5. H[N + 1] = [p \in Pieces(T) |-> V!Grown(p, e)]
  BY <1>1 DEF Growth
<1> HIDE DEF z, G, H, N, M
<1>6. f[N] = g[N]
  <2>1. N <= M /\ N \in 0..N
    BY <1>1
  <2>2. \A i \in 0..N : f[i] = g[i]
    BY <1>1, <1>2, <1>3, <1>4, <2>1, FollowsAgree
  <2> QED
    BY <2>1, <2>2
<1>7. g[M] = H[N + 1][g[N]]
  <2>1. M \in 1..M /\ M - 1 = N
    BY <1>1
  <2> QED
    BY <1>1, <1>3, <2>1 DEF Follows
<1>8. f[N] \in Pieces(T)
  BY <1>1, <1>2
<1> QED
  BY <1>2, <1>3, <1>5, <1>6, <1>7, <1>8 DEF t

LEMMA SegmentsNothing == V!Segments(<<>>) = <<<<>>>>
<1>1. <<>> \in Seq(Nat) /\ Len(<<>>) = 0
  OBVIOUS
<1>2. PICK f : Follows(f, 0, <<<<>>>>, Growth(Nat, <<>>)) /\ V!Segments(<<>>) = f[0]
  BY <1>1, SegmentsFollows, Zenon
<1> QED
  BY <1>2 DEF Follows

\* Tokens that are no dots go to the last piece.
LEMMA SegmentsTail ==
    ASSUME NEW T, NEW s \in Seq(T), NEW b \in Seq(T \ {V!Dot}),
           NEW q \in Seq(Seq(T)), NEW l \in Seq(T), V!Segments(s) = Append(q, l)
    PROVE  V!Segments(s \o b) = Append(q, l \o b)
<1> DEFINE A == T \ {V!Dot}
           S == {u \in Seq(A) : V!Segments(s \o u) = Append(q, l \o u)}
<1>1. <<>> \in S
  <2>1. s \o <<>> = s /\ l \o <<>> = l /\ <<>> \in Seq(A)
    BY ConcatEmptySeq
  <2> QED
    BY <2>1, Zenon
<1>2. ASSUME NEW u \in Seq(A), NEW e \in A, u \in S PROVE Append(u, e) \in S
  <2>1. u \in Seq(T) /\ e \in T /\ e # V!Dot /\ Append(u, e) \in Seq(A)
    BY AppendProperties
  <2>2. s \o u \in Seq(T) /\ l \o u \in Seq(T)
    BY <2>1, ConcatProperties
  <2>3. \A a \in Seq(T) : a \o Append(u, e) = Append(a \o u, e)
    <3> SUFFICES ASSUME NEW a \in Seq(T) PROVE a \o Append(u, e) = Append(a \o u, e)
      OBVIOUS
    <3>1. <<e>> \in Seq(T)
      BY <2>1
    <3>2. a \o (u \o <<e>>) = (a \o u) \o <<e>>
      BY <2>1, <3>1, ConcatAssociative
    <3>3. Append(u, e) = u \o <<e>>
      BY <2>1, AppendIsConcat
    <3>4. a \o u \in Seq(T)
      BY <2>1, ConcatProperties
    <3>5. Append(a \o u, e) = (a \o u) \o <<e>>
      BY <2>1, <3>4, AppendIsConcat
    <3> QED
      BY <3>2, <3>3, <3>5, Zenon
  <2>4. V!Segments(Append(s \o u, e)) = V!Grown(V!Segments(s \o u), e)
    BY <2>1, <2>2, SegmentsAppend
  <2>5. V!Grown(Append(q, l \o u), e) = Append(q, Append(l \o u, e))
    <3> DEFINE m == l \o u
    <3>1. m \in Seq(T) /\ e \in T /\ e # V!Dot
      BY <2>1, <2>2
    <3> HIDE DEF m
    <3>2. V!Grown(Append(q, m), e) = Append(q, Append(m, e))
      BY <3>1, GrownType
    <3> QED
      BY <3>2 DEF m
  <2>6. V!Segments(s \o Append(u, e)) = Append(q, l \o Append(u, e))
    BY <1>2, <2>3, <2>4, <2>5, Zenon
  <2> QED
    BY <2>1, <2>6
<1>3. Seq(A) \subseteq S
  <2> HIDE DEF S
  <2> QED
    BY <1>1, <1>2, SeqInduction
<1> QED
  BY <1>3

\* A text without a dot is one piece; one more is a dot and the piece.
LEMMA SegmentsOne ==
    ASSUME NEW A, V!Dot \notin A, NEW b \in Seq(A)
    PROVE  V!Segments(b) = <<b>>
<1>1. /\ <<>> \in Seq(A) /\ <<>> \in Seq(Seq(A)) /\ <<<<>>>> = Append(<<>>, <<>>)
      /\ <<b>> = Append(<<>>, b)
  OBVIOUS
<1>2. <<>> \o b = b
  BY ConcatEmptySeq
<1>3. V!Segments(<<>>) = Append(<<>>, <<>>)
  BY <1>1, SegmentsNothing, Zenon
<1>4. V!Segments(<<>> \o b) = Append(<<>>, <<>> \o b)
  <2> DEFINE o == <<>>
             no == <<>>
  <2>1. b \in Seq(A \ {V!Dot}) /\ o \in Seq(A) /\ no \in Seq(Seq(A)) /\ V!Segments(o) = Append(no, o)
    <3>1. A \ {V!Dot} = A
      OBVIOUS
    <3> QED
      BY <1>1, <1>3, <3>1
  <2> HIDE DEF o, no
  <2>2. V!Segments(o \o b) = Append(no, o \o b)
    BY <2>1, SegmentsTail
  <2> QED
    BY <2>2 DEF o, no
<1> QED
  BY <1>1, <1>2, <1>4, Zenon

\* A dot and a piece without dots are one more piece.
LEMMA SegmentsDot ==
    ASSUME NEW T, V!Dot \in T,
           NEW s \in Seq(T), NEW b \in Seq(T \ {V!Dot})
    PROVE  V!Segments((s \o <<V!Dot>>) \o b) = Append(V!Segments(s), b)
<1>1. PICK p \in Pieces(T) : p = V!Segments(s)
  BY SegmentsAppend
<1>2. PICK q \in Seq(Seq(T)), l \in Seq(T) : p = Append(q, l)
  BY PiecesLast
<1>3. Append(s, V!Dot) = s \o <<V!Dot>> /\ Append(s, V!Dot) \in Seq(T) /\ p \in Seq(Seq(T))
  BY AppendIsConcat, AppendProperties DEF Pieces
<1>4. V!Segments(Append(s, V!Dot)) = V!Grown(p, V!Dot)
  BY <1>1, SegmentsAppend
<1>5. V!Grown(Append(q, l), V!Dot) = Append(Append(q, l), <<>>)
  BY GrownType
<1>6. V!Segments(Append(s, V!Dot)) = Append(p, <<>>)
  BY <1>2, <1>4, <1>5, Zenon
<1>7. V!Segments(Append(s, V!Dot) \o b) = Append(p, <<>> \o b)
  <2> DEFINE o == <<>>
             t == Append(s, V!Dot)
  <2>1. o \in Seq(T)
    OBVIOUS
  <2>2. t \in Seq(T) /\ V!Segments(t) = Append(p, o)
    BY <1>3, <1>6
  <2> HIDE DEF o, t
  <2>3. p \in Seq(Seq(T))
    BY <1>3
  <2>4. V!Segments(t \o b) = Append(p, o \o b)
    BY <2>1, <2>2, <2>3, SegmentsTail
  <2> QED
    BY <2>4 DEF o, t
<1>8. <<>> \o b = b
  BY ConcatEmptySeq
<1> QED
  BY <1>1, <1>3, <1>7, <1>8, Zenon

-----------------------------------------------------------------------------
\* Joined, piece by piece.
Link(text, sep, i, piece) == text \o (IF i = 1 THEN <<>> ELSE <<sep>>) \o piece

IsJoin(f, pieces, sep) ==
    f = [i \in 0..Len(pieces) |-> IF i = 0 THEN <<>> ELSE Link(f[i - 1], sep, i, pieces[i])]

LEMMA JoinedIsJoin ==
    ASSUME NEW pieces, NEW sep
    PROVE  Joined(pieces, sep) = (CHOOSE f : IsJoin(f, pieces, sep))[Len(pieces)]
BY DEF Joined, IsJoin, Link

LEMMA LinkType ==
    ASSUME NEW T, NEW text \in Seq(T), NEW sep \in T, NEW i, NEW piece \in Seq(T)
    PROVE  Link(text, sep, i, piece) \in Seq(T)
<1> DEFINE mid == IF i = 1 THEN <<>> ELSE <<sep>>
<1>1. mid \in Seq(T)
  <2>1. <<>> \in Seq(T) /\ <<sep>> \in Seq(T)
    OBVIOUS
  <2> QED
    BY <2>1, Zenon
<1> HIDE DEF mid
<1>2. text \o mid \in Seq(T)
  BY <1>1, ConcatProperties
<1>3. (text \o mid) \o piece \in Seq(T)
  BY <1>2, ConcatProperties
<1> QED
  BY <1>3 DEF Link, mid

Linkage(T, sep, pieces) ==
    [i \in 1..Len(pieces) |-> [text \in Seq(T) |-> Link(text, sep, i, pieces[i])]]

\* Joined is the last value of the function that links piece by piece.
LEMMA JoinedFollows ==
    ASSUME NEW T, NEW sep \in T, NEW pieces \in Seq(Seq(T))
    PROVE  \E f : /\ Follows(f, Len(pieces), <<>>, Linkage(T, sep, pieces))
                  /\ Joined(pieces, sep) = f[Len(pieces)]
                  /\ \A i \in 0..Len(pieces) : f[i] \in Seq(T)
<1> DEFINE N == Len(pieces)
           X == Seq(T)
           z == <<>>
           G == Linkage(T, sep, pieces)
<1>1. N \in Nat /\ \A i \in 1..N : pieces[i] \in X
  BY LenProperties
<1>2. z \in X
  OBVIOUS
<1> HIDE DEF N, X, z
<1>3. \A i \in 1..N : G[i] = [x \in X |-> Link(x, sep, i, pieces[i])] /\ G[i] \in [X -> X]
  BY <1>1, LinkType DEF Linkage, X, N
<1> HIDE DEF G
<1>4. PICK f \in [0..N -> X] : Follows(f, N, z, G)
  BY <1>1, <1>2, <1>3, Recursion
<1>5. IsJoin(f, pieces, sep)
  <2>1. \A i \in 0..N : f[i] = IF i = 0 THEN z ELSE Link(f[i - 1], sep, i, pieces[i])
    <3> SUFFICES ASSUME NEW i \in 1..N PROVE f[i] = Link(f[i - 1], sep, i, pieces[i])
      BY <1>4 DEF Follows
    <3>1. i - 1 \in 0..N /\ f[i - 1] \in X /\ f[i] = G[i][f[i - 1]]
      BY <1>1, <1>4 DEF Follows
    <3> QED
      BY <1>3, <3>1
  <2> QED
    BY <2>1 DEF IsJoin, N, z
<1>6. PICK g : g = (CHOOSE h : IsJoin(h, pieces, sep)) /\ IsJoin(g, pieces, sep)
  BY <1>5
<1>7. g[0] = z /\ \A i \in 1..N : g[i] = Link(g[i - 1], sep, i, pieces[i])
  <2> DEFINE h == [i \in 0..N |-> IF i = 0 THEN z ELSE Link(g[i - 1], sep, i, pieces[i])]
  <2>1. g = h
    BY <1>6 DEF IsJoin, N, z
  <2>2. h[0] = z /\ \A i \in 1..N : h[i] = Link(g[i - 1], sep, i, pieces[i])
    BY <1>1
  <2> HIDE DEF h
  <2> QED
    BY <2>1, <2>2, Zenon
<1>8. \A i \in 0..N : g[i] \in X
  <2>1. g[0] \in X
    BY <1>2, <1>7
  <2>2. \A i \in 1..N : g[i - 1] \in X => g[i] \in X
    <3> SUFFICES ASSUME NEW i \in 1..N, g[i - 1] \in X PROVE Link(g[i - 1], sep, i, pieces[i]) \in X
      BY <1>7
    <3> DEFINE text == g[i - 1]
               piece == pieces[i]
    <3>1. text \in Seq(T) /\ piece \in Seq(T)
      BY <1>1 DEF X
    <3> HIDE DEF text, piece
    <3>2. Link(text, sep, i, piece) \in Seq(T)
      BY <3>1, LinkType
    <3> QED
      BY <3>2 DEF X, text, piece
  <2> QED
    BY <1>1, <2>1, <2>2, FollowsTyped
<1>9. Follows(g, N, z, G)
  <2>1. \A i \in 1..N : g[i] = G[i][g[i - 1]]
    <3> SUFFICES ASSUME NEW i \in 1..N PROVE g[i] = G[i][g[i - 1]]
      OBVIOUS
    <3>1. i - 1 \in 0..N /\ g[i - 1] \in X
      BY <1>1, <1>8
    <3>2. G[i] = [x \in X |-> Link(x, sep, i, pieces[i])]
      BY <1>3
    <3> QED
      BY <1>7, <3>1, <3>2
  <2> QED
    BY <1>7, <2>1 DEF Follows
<1>10. Joined(pieces, sep) = g[N]
  BY <1>6, JoinedIsJoin DEF N
<1> QED
  BY <1>8, <1>9, <1>10 DEF N, X, z, G

\* One more piece is linked by the separator, unless it is the first.
LEMMA JoinedAppend ==
    ASSUME NEW T, NEW sep \in T, NEW s \in Seq(Seq(T)), NEW b \in Seq(T)
    PROVE  /\ Joined(s, sep) \in Seq(T)
           /\ Joined(Append(s, b), sep) = Link(Joined(s, sep), sep, Len(s) + 1, b)
<1> DEFINE t == Append(s, b)
           N == Len(s)
           M == Len(t)
           z == <<>>
           G == Linkage(T, sep, s)
           H == Linkage(T, sep, t)
<1>1. /\ t \in Seq(Seq(T)) /\ M = N + 1 /\ N \in Nat /\ M \in Nat
      /\ \A i \in 1..N : t[i] = s[i]
      /\ t[N + 1] = b
  BY AppendProperties
<1>2. PICK f : /\ Follows(f, N, z, G) /\ Joined(s, sep) = f[N]
               /\ \A i \in 0..N : f[i] \in Seq(T)
  BY JoinedFollows
<1> HIDE DEF t
<1>3. PICK g : Follows(g, M, z, H) /\ Joined(t, sep) = g[M]
  BY <1>1, JoinedFollows
<1>4. \A i \in 1..N : G[i] = H[i]
  BY <1>1 DEF Linkage
<1>5. H[N + 1] = [x \in Seq(T) |-> Link(x, sep, N + 1, b)]
  BY <1>1 DEF Linkage
<1> HIDE DEF z, G, H, N, M
<1>6. f[N] = g[N]
  <2>1. N <= M /\ N \in 0..N
    BY <1>1
  <2>2. \A i \in 0..N : f[i] = g[i]
    <3>1. Follows(f, N, z, G) /\ Follows(g, M, z, H) /\ N \in Nat /\ M \in Nat
      BY <1>1, <1>2, <1>3
    <3> QED
      BY <1>4, <2>1, <3>1, FollowsAgree
  <2> QED
    BY <2>1, <2>2
<1>7. g[M] = H[N + 1][g[N]]
  <2>1. M \in 1..M /\ M - 1 = N
    BY <1>1
  <2> QED
    BY <1>1, <1>3, <2>1 DEF Follows
<1>8. f[N] \in Seq(T)
  BY <1>1, <1>2
<1> QED
  BY <1>2, <1>3, <1>5, <1>6, <1>7, <1>8 DEF t, N

LEMMA JoinedType ==
    ASSUME NEW T, NEW sep \in T, NEW s \in Seq(Seq(T))
    PROVE  Joined(s, sep) \in Seq(T)
<1>1. <<>> \in Seq(T)
  OBVIOUS
<1> QED
  BY <1>1, JoinedAppend

LEMMA JoinedNothing == ASSUME NEW sep PROVE Joined(<<>>, sep) = <<>>
<1> DEFINE none == <<>>
<1>1. none \in Seq(Seq({sep})) /\ Len(none) = 0
  OBVIOUS
<1> HIDE DEF none
<1>2. PICK f : Follows(f, Len(none), <<>>, Linkage({sep}, sep, none)) /\ Joined(none, sep) = f[Len(none)]
  BY <1>1, JoinedFollows
<1>3. f[0] = <<>>
  BY <1>2 DEF Follows
<1> QED
  BY <1>1, <1>2, <1>3 DEF none

\* Reading back what was joined.
LEMMA SegmentsOfJoined ==
    ASSUME NEW A, V!Dot \notin A, NEW pieces \in Seq(Seq(A)), pieces # <<>>
    PROVE  V!Segments(Joined(pieces, V!Dot)) = pieces
<1> DEFINE T == A \cup {V!Dot}
           S == {p \in Seq(Seq(A)) : p # <<>> => V!Segments(Joined(p, V!Dot)) = p}
<1>1. <<>> \in S
  OBVIOUS
<1>2. ASSUME NEW p \in Seq(Seq(A)), NEW b \in Seq(A), p \in S PROVE Append(p, b) \in S
  <2>1. /\ p \in Seq(Seq(T)) /\ b \in Seq(T) /\ A = T \ {V!Dot} /\ V!Dot \in T
        /\ Append(p, b) \in Seq(Seq(A)) /\ Len(p) \in Nat
    BY AppendProperties, LenProperties
  <2> HIDE DEF T
  <2> DEFINE J == Joined(p, V!Dot)
  <2>2. J \in Seq(T) /\ Joined(Append(p, b), V!Dot) = Link(J, V!Dot, Len(p) + 1, b)
    BY <2>1, JoinedAppend
  <2>3. CASE p = <<>>
    <3>1. J = <<>> /\ Len(p) + 1 = 1 /\ <<b>> = Append(p, b)
      BY <2>3, JoinedNothing
    <3>2. (<<>> \o <<>>) \o b = b
      BY ConcatEmptySeq
    <3>3. Link(J, V!Dot, Len(p) + 1, b) = b
      BY <3>1, <3>2, Zenon DEF Link
    <3>4. V!Segments(b) = <<b>>
      BY SegmentsOne
    <3> QED
      BY <2>1, <2>2, <3>1, <3>3, <3>4, Zenon
  <2>4. CASE p # <<>>
    <3>1. Len(p) + 1 # 1
      BY <2>1, <2>4, EmptySeq
    <3>2. Link(J, V!Dot, Len(p) + 1, b) = (J \o <<V!Dot>>) \o b
      BY <3>1, Zenon DEF Link
    <3>3. V!Segments(J) = p
      BY <1>2, <2>4
    <3> HIDE DEF J
    <3>4. V!Segments((J \o <<V!Dot>>) \o b) = Append(V!Segments(J), b)
      BY <2>1, <2>2, SegmentsDot
    <3> QED
      BY <2>1, <2>2, <3>2, <3>3, <3>4, Zenon
  <2> QED
    BY <2>3, <2>4
<1>3. Seq(Seq(A)) \subseteq S
  <2> HIDE DEF S
  <2> QED
    BY <1>1, <1>2, SeqInduction
<1> QED
  BY <1>3

-----------------------------------------------------------------------------
\* A text cut at its first separator.
LEMMA LeastIs == ASSUME NEW S \in SUBSET Int, NEW x \in S, \A y \in S : x <= y PROVE V!Min(S) = x
<1>1. \E m \in S : \A y \in S : m <= y
  OBVIOUS
<1>2. V!Min(S) \in S /\ \A y \in S : V!Min(S) <= y
  BY <1>1 DEF V!Min
<1>3. V!Min(S) <= x /\ x <= V!Min(S) /\ x \in Int /\ V!Min(S) \in Int
  BY <1>2
<1> QED
  BY <1>3

LEMMA FirstIs ==
    ASSUME NEW U, NEW text \in Seq(U), NEW k, NEW n \in 1..(Len(text) + 1),
           \A i \in 1..(n - 1) : text[i] # k, n <= Len(text) => text[n] = k
    PROVE  V!First(text, k) = n
<1> DEFINE S == {i \in 1..Len(text) : text[i] = k} \cup {Len(text) + 1}
<1>1. Len(text) \in Nat
  BY LenProperties
<1>2. S \in SUBSET Int /\ n \in S
  BY <1>1
<1>3. \A y \in S : n <= y
  BY <1>1
<1> HIDE DEF S
<1>4. V!Min(S) = n
  BY <1>2, <1>3, LeastIs
<1> QED
  BY <1>4 DEF V!First, S

\* Without the separator all of the text comes before it.
LEMMA CutNone ==
    ASSUME NEW U, NEW k, NEW a \in Seq(U \ {k})
    PROVE  V!Before(a, k) = a /\ V!After(a, k) = <<>> /\ ~V!Contains(a, k)
<1>1. Len(a) \in Nat /\ \A i \in 1..Len(a) : a[i] # k
  BY LenProperties
<1>2. V!First(a, k) = Len(a) + 1
  BY <1>1, FirstIs
<1>3. SubSeq(a, 1, Len(a)) = a
  BY SubSeqFull
<1>4. SubSeq(a, (Len(a) + 1) + 1, Len(a)) = <<>>
  BY <1>1, SubSeqEmpty
<1>5. (Len(a) + 1) - 1 = Len(a)
  BY <1>1
<1> QED
  BY <1>1, <1>2, <1>3, <1>4, <1>5 DEF V!Before, V!After, V!Contains

\* A separator that does not occur earlier divides what surrounds it.
LEMMA CutAt ==
    ASSUME NEW U, NEW k \in U, NEW a \in Seq(U \ {k}), NEW b \in Seq(U)
    PROVE  /\ V!Before((a \o <<k>>) \o b, k) = a
           /\ V!After((a \o <<k>>) \o b, k) = b
           /\ V!Contains((a \o <<k>>) \o b, k)
<1> DEFINE h == a \o <<k>>
           t == h \o b
           n == Len(a) + 1
<1>1. a \in Seq(U) /\ <<k>> \in Seq(U) /\ Len(<<k>>) = 1 /\ <<k>>[1] = k
  BY SeqMonotonic
<1>2. /\ h \in Seq(U) /\ Len(h) = n
      /\ \A i \in 1..n : h[i] = IF i <= Len(a) THEN a[i] ELSE <<k>>[i - Len(a)]
  BY <1>1, ConcatProperties
<1>3. /\ Len(a) \in Nat /\ Len(b) \in Nat /\ \A i \in 1..Len(a) : a[i] # k
  BY LenProperties
<1> HIDE DEF h
<1>4. /\ t \in Seq(U) /\ Len(t) = n + Len(b)
      /\ \A i \in 1..(n + Len(b)) : t[i] = IF i <= n THEN h[i] ELSE b[i - n]
  <2>1. /\ t \in Seq(U) /\ Len(t) = Len(h) + Len(b)
        /\ \A i \in 1..(Len(h) + Len(b)) : t[i] = IF i <= Len(h) THEN h[i] ELSE b[i - Len(h)]
    BY <1>2, ConcatProperties
  <2> QED
    BY <1>2, <2>1
<1> HIDE DEF t
<1>5. h[n] = k /\ \A i \in 1..Len(a) : h[i] = a[i]
  <2>1. n \in 1..n /\ ~(n <= Len(a)) /\ n - Len(a) = 1
    BY <1>3
  <2>2. h[n] = k
    BY <1>1, <1>2, <2>1
  <2> QED
    BY <1>2, <1>3, <2>2
<1>6. t[n] = k /\ \A i \in 1..Len(a) : t[i] = a[i]
  BY <1>3, <1>4, <1>5
<1>7. V!First(t, k) = n
  <2>1. n \in 1..(Len(t) + 1) /\ n - 1 = Len(a)
    BY <1>3, <1>4
  <2> QED
    BY <1>3, <1>4, <1>6, <2>1, FirstIs
<1>8. SubSeq(t, 1, n - 1) = a
  <2> DEFINE s == SubSeq(t, 1, Len(a))
  <2>1. \A i \in 1..Len(a) : t[i] \in U
    BY <1>1, <1>6, ElementOfSeq
  <2>2. /\ s \in Seq(U) /\ Len(s) = IF 1 <= Len(a) THEN Len(a) - 1 + 1 ELSE 0
        /\ \A i \in 1..(Len(a) - 1 + 1) : s[i] = t[1 + i - 1]
    BY <1>3, <2>1, SubSeqProperties
  <2> HIDE DEF s
  <2>3. Len(s) = Len(a) /\ \A i \in 1..Len(a) : s[i] = a[i]
    BY <1>3, <1>6, <2>2
  <2>4. s = a
    BY <1>1, <2>2, <2>3, SeqEqual
  <2> QED
    BY <1>3, <2>4 DEF s
<1>9. SubSeq(t, n + 1, Len(t)) = b
  <2> DEFINE s == SubSeq(t, n + 1, Len(t))
  <2>1. \A i \in (n + 1)..Len(t) : t[i] \in U
    BY <1>3, <1>4, ElementOfSeq
  <2>2. n + 1 \in Int /\ Len(t) \in Int
    BY <1>3, <1>4
  <2>3. /\ s \in Seq(U) /\ Len(s) = IF n + 1 <= Len(t) THEN Len(t) - (n + 1) + 1 ELSE 0
        /\ \A i \in 1..(Len(t) - (n + 1) + 1) : s[i] = t[(n + 1) + i - 1]
    BY <2>1, <2>2, SubSeqProperties
  <2> HIDE DEF s
  <2>4. Len(s) = Len(b)
    BY <1>3, <1>4, <2>3
  <2>5. \A i \in 1..Len(b) : s[i] = b[i]
    <3> SUFFICES ASSUME NEW i \in 1..Len(b) PROVE s[i] = b[i]
      OBVIOUS
    <3>1. /\ i \in 1..(Len(t) - (n + 1) + 1) /\ (n + 1) + i - 1 = n + i /\ n + i \in 1..(n + Len(b))
          /\ ~(n + i <= n) /\ n + i - n = i
      BY <1>3, <1>4
    <3>2. s[i] = t[(n + 1) + i - 1]
      BY <2>3, <3>1
    <3>3. t[n + i] = b[n + i - n]
      BY <1>4, <3>1
    <3> QED
      BY <3>1, <3>2, <3>3, Zenon
  <2>6. s = b
    BY <2>3, <2>4, <2>5, SeqEqual
  <2> QED
    BY <2>6 DEF s
<1>10. V!Contains(t, k)
  BY <1>3, <1>4, <1>6 DEF V!Contains
<1> QED
  BY <1>7, <1>8, <1>9, <1>10 DEF V!Before, V!After, t, h

-----------------------------------------------------------------------------
\* Orders decided by the first difference.
Orders == {-1, 0, 1}

LEMMA SignOf ==
    /\ \A n \in Int : V!Sign(n) \in Orders
    /\ \A n \in Int : V!Sign(n) = -1 <=> n < 0
    /\ \A n \in Int : V!Sign(n) = 1 <=> n > 0
    /\ \A n \in Int : V!Sign(n) = 0 <=> n = 0
BY DEF V!Sign, Orders

\* The first order that is not 0 decides, and else the last one.
LEMMA Decided ==
    ASSUME NEW c \in Seq(Orders), NEW x \in Orders
    PROVE  /\ (\A i \in 1..Len(c) : c[i] = 0) => V!FirstDecides(c \o <<x>>) = x
           /\ \A i \in 1..Len(c) :
                 (c[i] # 0 /\ \A j \in 1..(i - 1) : c[j] = 0) => V!FirstDecides(c \o <<x>>) = c[i]
<1> DEFINE d == c \o <<x>>
           m == Len(c)
           decisive == {i \in 1..Len(d) : d[i] # 0}
<1>1. <<x>> \in Seq(Orders) /\ Len(<<x>>) = 1 /\ <<x>>[1] = x
  OBVIOUS
<1>2. m \in Nat
  BY LenProperties
<1>3. /\ Len(d) = m + 1
      /\ \A i \in 1..(m + 1) : d[i] = IF i <= m THEN c[i] ELSE <<x>>[i - m]
  BY <1>1, ConcatProperties
<1> HIDE DEF d
<1>4. /\ \A i \in 1..m : d[i] = c[i]
      /\ d[m + 1] = x
  <2>1. m + 1 \in 1..(m + 1) /\ ~(m + 1 <= m) /\ m + 1 - m = 1
    BY <1>2
  <2>2. d[m + 1] = x
    BY <1>1, <1>3, <2>1
  <2> QED
    BY <1>2, <1>3, <2>2
<1>5. V!FirstDecides(d) = IF decisive = {} THEN 0 ELSE d[V!Min(decisive)]
  BY DEF V!FirstDecides
<1>6. decisive \in SUBSET Int /\ \A i : i \in decisive <=> i \in 1..(m + 1) /\ d[i] # 0
  BY <1>2, <1>3
<1> HIDE DEF decisive, m
<1>7. ASSUME \A i \in 1..m : c[i] = 0 PROVE V!FirstDecides(d) = x
  <2>1. CASE x = 0
    <3>1. decisive = {}
      BY <1>2, <1>4, <1>6, <1>7, <2>1
    <3> QED
      BY <1>5, <2>1, <3>1
  <2>2. CASE x # 0
    <3>1. m + 1 \in decisive /\ \A i \in decisive : m + 1 <= i
      BY <1>2, <1>4, <1>6, <1>7, <2>2
    <3>2. V!Min(decisive) = m + 1
      BY <1>6, <3>1, LeastIs
    <3> QED
      BY <1>4, <1>5, <3>1, <3>2
  <2> QED
    BY <2>1, <2>2
<1>8. ASSUME NEW i \in 1..m, c[i] # 0, \A j \in 1..(i - 1) : c[j] = 0
      PROVE  V!FirstDecides(d) = c[i]
  <2>1. i \in decisive /\ \A j \in decisive : i <= j
    BY <1>2, <1>4, <1>6, <1>8
  <2>2. V!Min(decisive) = i
    BY <1>6, <2>1, LeastIs
  <2> QED
    BY <1>4, <1>5, <2>1, <2>2
<1> QED
  BY <1>7, <1>8 DEF d, m

\* Either all orders are 0 or there is a first one that is not.
LEMMA FirstDifference ==
    ASSUME NEW c, NEW m \in Nat
    PROVE  \/ \A i \in 1..m : c[i] = 0
           \/ \E i \in 1..m : c[i] # 0 /\ \A j \in 1..(i - 1) : c[j] = 0
<1> DEFINE S == {n \in Nat : n <= m => \/ \A i \in 1..n : c[i] = 0
                                       \/ \E i \in 1..n : c[i] # 0 /\ \A j \in 1..(i - 1) : c[j] = 0}
<1>1. 0 \in S
  OBVIOUS
<1>2. ASSUME NEW n \in Nat, n \in S PROVE n + 1 \in S
  <2> SUFFICES ASSUME n + 1 <= m
               PROVE  \/ \A i \in 1..(n + 1) : c[i] = 0
                      \/ \E i \in 1..(n + 1) : c[i] # 0 /\ \A j \in 1..(i - 1) : c[j] = 0
    OBVIOUS
  <2>1. CASE \A i \in 1..n : c[i] = 0
    <3>1. (n + 1) - 1 = n /\ n + 1 \in 1..(n + 1)
      OBVIOUS
    <3>2. CASE c[n + 1] = 0
      BY <2>1, <3>2
    <3>3. CASE c[n + 1] # 0
      BY <2>1, <3>1, <3>3
    <3> QED
      BY <3>2, <3>3
  <2>2. CASE \E i \in 1..n : c[i] # 0 /\ \A j \in 1..(i - 1) : c[j] = 0
    BY <2>2
  <2> QED
    BY <1>2, <2>1, <2>2
<1>3. Nat \subseteq S
  <2> HIDE DEF S
  <2> QED
    BY <1>1, <1>2, SetInduction
<1>4. m \in S /\ m <= m
  BY <1>3
<1> QED
  BY <1>4

LEMMA PrefixEqual ==
    ASSUME NEW X, NEW a \in Seq(X), NEW b \in Seq(X), NEW n \in Nat, n <= Len(a), n <= Len(b)
    PROVE  SubSeq(a, 1, n) = SubSeq(b, 1, n) <=> \A j \in 1..n : a[j] = b[j]
<1>1. Len(a) \in Nat /\ Len(b) \in Nat
  BY LenProperties
<1> DEFINE s == SubSeq(a, 1, n)
           t == SubSeq(b, 1, n)
<1>2. n - 1 + 1 = n /\ (1 <= n \/ n = 0) /\ \A j \in 1..n : 1 + j - 1 = j
  OBVIOUS
<1>3. /\ s \in Seq(X) /\ Len(s) = IF 1 <= n THEN n - 1 + 1 ELSE 0
      /\ \A j \in 1..(n - 1 + 1) : s[j] = a[1 + j - 1]
  <2>1. \A j \in 1..n : a[j] \in X
    BY <1>1, ElementOfSeq
  <2> QED
    BY <2>1, SubSeqProperties
<1>4. /\ t \in Seq(X) /\ Len(t) = IF 1 <= n THEN n - 1 + 1 ELSE 0
      /\ \A j \in 1..(n - 1 + 1) : t[j] = b[1 + j - 1]
  <2>1. \A j \in 1..n : b[j] \in X
    BY <1>1, ElementOfSeq
  <2> QED
    BY <2>1, SubSeqProperties
<1> HIDE DEF s, t
<1>5. /\ Len(s) = n /\ \A j \in 1..n : s[j] = a[j]
      /\ Len(t) = n /\ \A j \in 1..n : t[j] = b[j]
  BY <1>2, <1>3, <1>4
<1>6. s = t <=> \A j \in 1..n : s[j] = t[j]
  BY <1>3, <1>4, <1>5, SeqEqual
<1> QED
  BY <1>5, <1>6 DEF s, t

\* One list comes before another: it is a proper part of it, or has the lower
\* element at the first difference.
Earlier(a, b, L) ==
    \/ V!IsStrictPrefix(a, b)
    \/ \E i \in 1..V!Min({Len(a), Len(b)}) :
          SubSeq(a, 1, i - 1) = SubSeq(b, 1, i - 1) /\ <<a[i], b[i]>> \in L

LEMMA LeastOfTwo ==
    ASSUME NEW i \in Nat, NEW j \in Nat
    PROVE  V!Min({i, j}) = IF i <= j THEN i ELSE j
<1> DEFINE S == {i, j}
           x == IF i <= j THEN i ELSE j
<1>1. S \in SUBSET Int /\ x \in S /\ \A y \in S : x <= y
  OBVIOUS
<1> HIDE DEF S, x
<1>2. V!Min(S) = x
  BY <1>1, LeastIs
<1> QED
  BY <1>2 DEF S, x

LEMMA PrefixOrder ==
    ASSUME NEW X, NEW a \in Seq(X), NEW b \in Seq(X)
    PROVE  V!IsStrictPrefix(a, b) <=> Len(a) < Len(b) /\ \A j \in 1..Len(a) : a[j] = b[j]
<1>1. Len(a) \in Nat /\ Len(b) \in Nat
  BY LenProperties
<1>2. Len(a) <= Len(b) => (SubSeq(a, 1, Len(a)) = SubSeq(b, 1, Len(a)) <=> \A j \in 1..Len(a) : a[j] = b[j])
  BY <1>1, PrefixEqual
<1>3. ASSUME Len(a) = Len(b), \A j \in 1..Len(a) : a[j] = b[j] PROVE a = b
  BY <1>3, SeqEqual
<1>4. V!IsPrefix(a, b) <=> Len(a) <= Len(b) /\ \A j \in 1..Len(a) : a[j] = b[j]
  BY <1>1, <1>2 DEF V!IsPrefix
<1>5. ASSUME Len(a) < Len(b) PROVE a # b /\ Len(a) <= Len(b)
  BY <1>1, <1>5
<1>6. ASSUME Len(a) <= Len(b), ~(Len(a) < Len(b)) PROVE Len(a) = Len(b)
  BY <1>1, <1>6
<1> QED
  BY <1>3, <1>4, <1>5, <1>6, Zenon DEF V!IsStrictPrefix

Shorter(a, b) == IF Len(a) <= Len(b) THEN Len(a) ELSE Len(b)

EarlierAt(a, b, L, m) ==
    \/ Len(a) < Len(b) /\ \A j \in 1..m : a[j] = b[j]
    \/ \E i \in 1..m : <<a[i], b[i]>> \in L /\ \A j \in 1..(i - 1) : a[j] = b[j]

LEMMA EarlierOrder ==
    ASSUME NEW X, NEW a \in Seq(X), NEW b \in Seq(X), NEW L,
           NEW m, m = Shorter(a, b)
    PROVE  EarlierAt(a, b, L, m) <=> Earlier(a, b, L)
<1> USE DEF Shorter
<1>1. m \in Nat /\ Len(a) \in Nat /\ Len(b) \in Nat
  BY LenProperties
<1>2. V!Min({Len(a), Len(b)}) = m
  BY <1>1, LeastOfTwo
<1>3. \A i \in 1..m : SubSeq(a, 1, i - 1) = SubSeq(b, 1, i - 1) <=> \A j \in 1..(i - 1) : a[j] = b[j]
  <2> SUFFICES ASSUME NEW i \in 1..m
               PROVE  SubSeq(a, 1, i - 1) = SubSeq(b, 1, i - 1) <=> \A j \in 1..(i - 1) : a[j] = b[j]
    OBVIOUS
  <2> DEFINE n == i - 1
  <2>1. n \in Nat /\ n <= Len(a) /\ n <= Len(b)
    BY <1>1
  <2> HIDE DEF n
  <2>2. SubSeq(a, 1, n) = SubSeq(b, 1, n) <=> \A j \in 1..n : a[j] = b[j]
    BY <2>1, PrefixEqual
  <2> QED
    BY <2>2 DEF n
<1>4. V!IsStrictPrefix(a, b) <=> Len(a) < Len(b) /\ \A j \in 1..Len(a) : a[j] = b[j]
  BY PrefixOrder
<1>5. Len(a) < Len(b) => m = Len(a)
  BY <1>1
<1> QED
  BY <1>2, <1>3, <1>4, <1>5, Zenon DEF Earlier, EarlierAt

\* What orders of the elements say of a and b, and what an order of the lists does.
Elementwise(c, a, b, L) ==
    \A i \in 1..Len(c) : /\ c[i] = -1 <=> <<a[i], b[i]>> \in L
                         /\ c[i] = 1 <=> <<b[i], a[i]>> \in L
                         /\ c[i] = 0 <=> a[i] = b[i]

Orderly(d, a, b, L) ==
    /\ d \in Orders
    /\ d = -1 <=> Earlier(a, b, L)
    /\ d = 1 <=> Earlier(b, a, L)
    /\ d = 0 <=> a = b

\* Orders of the elements, then of the lengths, order the lists.
LEMMA ListOrder ==
    ASSUME NEW X, NEW a \in Seq(X), NEW b \in Seq(X), NEW L, NEW c \in Seq(Orders),
           Len(c) = V!Min({Len(a), Len(b)}),
           Elementwise(c, a, b, L)
    PROVE  Orderly(V!FirstDecides(c \o <<V!Sign(Len(a) - Len(b))>>), a, b, L)
<1> DEFINE d == V!FirstDecides(c \o <<V!Sign(Len(a) - Len(b))>>)
           m == Len(c)
           x == V!Sign(Len(a) - Len(b))
<1>1. Len(a) \in Nat /\ Len(b) \in Nat /\ m \in Nat
  BY LenProperties
<1>2. m = Shorter(a, b)
  BY <1>1, LeastOfTwo DEF Shorter
<1>3. m = Shorter(b, a)
  BY <1>1, <1>2 DEF Shorter
<1>4. /\ x \in Orders
      /\ x = -1 <=> Len(a) < Len(b)
      /\ x = 1 <=> Len(b) < Len(a)
      /\ x = 0 <=> Len(a) = Len(b)
  <2> DEFINE k == Len(a) - Len(b)
  <2>1. k \in Int /\ (k < 0 <=> Len(a) < Len(b)) /\ (k > 0 <=> Len(b) < Len(a)) /\ (k = 0 <=> Len(a) = Len(b))
    BY <1>1
  <2> HIDE DEF k
  <2>2. /\ V!Sign(k) \in Orders
        /\ V!Sign(k) = -1 <=> k < 0
        /\ V!Sign(k) = 1 <=> k > 0
        /\ V!Sign(k) = 0 <=> k = 0
    BY <2>1, SignOf
  <2> QED
    BY <2>1, <2>2 DEF k
<1> HIDE DEF d, x, m
<1>5. (EarlierAt(a, b, L, m) <=> Earlier(a, b, L)) /\ (EarlierAt(b, a, L, m) <=> Earlier(b, a, L))
  BY <1>2, <1>3, EarlierOrder
<1>6. \A i \in 1..m : c[i] \in Orders
  BY ElementOfSeq DEF m
<1>7. /\ (\A i \in 1..m : c[i] = 0) => d = x
      /\ \A i \in 1..m : (c[i] # 0 /\ \A j \in 1..(i - 1) : c[j] = 0) => d = c[i]
  BY <1>4, Decided DEF d, m, x
<1>8. \A i \in 1..m : /\ c[i] = -1 <=> <<a[i], b[i]>> \in L
                      /\ c[i] = 1 <=> <<b[i], a[i]>> \in L
                      /\ c[i] = 0 <=> a[i] = b[i]
  BY DEF m, Elementwise
<1>9. a = b <=> Len(a) = Len(b) /\ \A i \in 1..m : a[i] = b[i]
  BY <1>1, <1>2, SeqEqual DEF Shorter
<1> SUFFICES Orderly(d, a, b, L)
  BY DEF d
<1> USE DEF Orderly
<1>10. CASE \A i \in 1..m : c[i] = 0
  <2>1. d = x /\ \A i \in 1..m : a[i] = b[i]
    BY <1>7, <1>8, <1>10
  <2>2. \A i \in 1..m : <<a[i], b[i]>> \notin L /\ <<b[i], a[i]>> \notin L
    <3> SUFFICES ASSUME NEW i \in 1..m PROVE <<a[i], b[i]>> \notin L /\ <<b[i], a[i]>> \notin L
      OBVIOUS
    <3>1. c[i] # -1 /\ c[i] # 1
      <4>1. c[i] = 0
        BY <1>10, Zenon
      <4>2. 0 # -1 /\ 0 # 1
        OBVIOUS
      <4> QED
        BY <4>1, <4>2, Zenon
    <3> QED
      BY <1>8, <3>1, Zenon
  <2>3. EarlierAt(a, b, L, m) <=> Len(a) < Len(b)
    BY <2>1, <2>2 DEF EarlierAt
  <2>4. EarlierAt(b, a, L, m) <=> Len(b) < Len(a)
    BY <2>1, <2>2 DEF EarlierAt
  <2>5. a = b <=> Len(a) = Len(b)
    BY <1>9, <2>1, Zenon
  <2>6. d = x
    BY <2>1
  <2> QED
    BY <1>4, <1>5, <2>3, <2>4, <2>5, <2>6
<1>11. ASSUME NEW i \in 1..m, c[i] # 0, \A j \in 1..(i - 1) : c[j] = 0
       PROVE  Orderly(d, a, b, L)
  <2>1. d = c[i] /\ d \in {-1, 1} /\ a[i] # b[i]
    BY <1>6, <1>7, <1>8, <1>11 DEF Orders
  <2>2. \A j \in 1..(i - 1) : a[j] = b[j] /\ j \in 1..m
    <3> SUFFICES ASSUME NEW j \in 1..(i - 1) PROVE a[j] = b[j] /\ j \in 1..m
      OBVIOUS
    <3>1. j \in 1..m
      BY <1>1
    <3>2. c[j] = 0
      BY <1>11
    <3> QED
      BY <1>8, <3>1, <3>2, Zenon
  <2>3. \A k \in 1..m : (\A j \in 1..(k - 1) : a[j] = b[j]) /\ a[k] # b[k] => k = i
    <3> SUFFICES ASSUME NEW k \in 1..m, \A j \in 1..(k - 1) : a[j] = b[j], a[k] # b[k] PROVE k = i
      OBVIOUS
    <3>1. ~(k < i) /\ ~(i < k)
      BY <1>1, <2>1, <2>2
    <3> QED
      BY <1>1, <3>1
  <2>4. \A k \in 1..m : <<a[k], b[k]>> \in L \/ <<b[k], a[k]>> \in L => a[k] # b[k]
    BY <1>8
  <2>5. Earlier(a, b, L) <=> <<a[i], b[i]>> \in L
    BY <1>5, <2>1, <2>2, <2>3, <2>4 DEF EarlierAt
  <2>6. Earlier(b, a, L) <=> <<b[i], a[i]>> \in L
    BY <1>5, <2>1, <2>2, <2>3, <2>4 DEF EarlierAt
  <2> QED
    BY <1>8, <2>1, <2>5, <2>6 DEF Orders
<1> QED
  BY <1>1, <1>10, <1>11, FirstDifference

-----------------------------------------------------------------------------
\* Functions on 1..n are sequences.
LEMMA SeqMade ==
    ASSUME NEW S, NEW n \in Nat, NEW f \in [1..n -> S]
    PROVE  f \in Seq(S) /\ Len(f) = n
<1>1. f \in Seq(S)
  BY SeqDef
<1>2. Len(f) \in Nat /\ DOMAIN f = 1..Len(f) /\ DOMAIN f = 1..n
  BY <1>1, LenProperties
<1> QED
  BY <1>1, <1>2

LEMMA Retyped ==
    ASSUME NEW S, NEW T, NEW s \in Seq(S), \A i \in 1..Len(s) : s[i] \in T
    PROVE  s \in Seq(T)
<1>1. Len(s) \in Nat /\ s \in [1..Len(s) -> S]
  BY LenProperties
<1>2. s \in [1..Len(s) -> T]
  BY <1>1
<1> QED
  BY <1>1, <1>2, SeqMade

-----------------------------------------------------------------------------
\* The tokens of a legal identifier.
Letters == ({"number"} \X (0..9)) \cup ({"word"} \X Nat) \cup {V!Dash}
Ids == Seq(Letters) \ {<<>>}

LEMMA LettersAre ==
    ASSUME NEW t \in Letters
    PROVE  \/ \E n \in 0..9 : t = <<"number", n>> /\ t[1] = "number" /\ t[2] = n
           \/ \E n \in Nat : t = <<"word", n>> /\ t[1] = "word" /\ t[2] = n
           \/ t = V!Dash /\ t[1] = "-"
BY DEF Letters, V!Dash

\* A legal identifier has no illegal token and no leading zeros.
LEMMA LegalLetters ==
    ASSUME NEW id \in Seq(Atoms \cup {V!Dash}), V!IsLegalIdentifier(id),
           Len(id) > 1 => \A i \in 1..Len(id) : id[i][1] # "zeros"
    PROVE  id \in Ids
<1>1. Len(id) \in Nat
  BY LenProperties
<1>2. ASSUME NEW i \in 1..Len(id) PROVE id[i] \in Letters
  <2>1. id[i] \in Atoms \cup {V!Dash} /\ id[i] # V!Illegal
    BY ElementOfSeq DEF V!IsLegalIdentifier
  <2>2. id[i][1] # "zeros"
    <3>1. CASE Len(id) > 1
      BY <3>1
    <3>2. CASE ~(Len(id) > 1)
      <4>1. \A n \in Nat : \A j \in 1..n : ~(n > 1) => n = 1 /\ j = 1
        OBVIOUS
      <4>2. Len(id) = 1 /\ i = 1
        BY <1>1, <3>2, <4>1, Zenon
      <4> QED
        BY <4>2 DEF V!IsLegalIdentifier
    <3> QED
      BY <3>1, <3>2
  <2>3. id[i] \in {"zeros"} \X (0..9) => id[i][1] = "zeros"
    OBVIOUS
  <2>4. {"number", "zeros"} \X (0..9) = ({"number"} \X (0..9)) \cup ({"zeros"} \X (0..9))
    OBVIOUS
  <2> QED
    BY <2>1, <2>2, <2>3, <2>4, Zenon DEF Atoms, Letters
<1>3. id \in Seq(Letters)
  BY <1>2, Retyped
<1> QED
  BY <1>3 DEF Ids, V!IsLegalIdentifier

\* Tokens of different rank are different.
LEMMA Ranks ==
    /\ \A t \in Letters : V!Rank(t) \in Int
    /\ \A s, t \in Letters : V!Rank(s) = V!Rank(t) => s = t
<1>1. ASSUME NEW n \in 0..9 PROVE V!Rank(<<"number", n>>) = n + 1
  BY DEF V!Rank
<1>2. ASSUME NEW n \in Nat PROVE V!Rank(<<"word", n>>) = 20 + n
  BY DEF V!Rank
<1>3. V!Rank(V!Dash) = 0
  BY DEF V!Rank, V!Dash
<1>4. ASSUME NEW t \in Letters
      PROVE  \/ \E n \in 0..9 : t = <<"number", n>> /\ V!Rank(t) = n + 1
             \/ \E n \in Nat : t = <<"word", n>> /\ V!Rank(t) = 20 + n
             \/ t = V!Dash /\ V!Rank(t) = 0
  BY <1>1, <1>2, <1>3, LettersAre, Zenon
<1>5. ASSUME NEW t \in Letters
      PROVE  /\ V!Rank(t) \in Int
             /\ \/ V!Rank(t) \in 1..10 /\ t = <<"number", V!Rank(t) - 1>>
                \/ V!Rank(t) >= 20 /\ t = <<"word", V!Rank(t) - 20>>
                \/ V!Rank(t) = 0 /\ t = V!Dash
  <2>1. CASE \E n \in 0..9 : t = <<"number", n>> /\ V!Rank(t) = n + 1
    BY <2>1
  <2>2. CASE \E n \in Nat : t = <<"word", n>> /\ V!Rank(t) = 20 + n
    BY <2>2
  <2> QED
    BY <1>4, <2>1, <2>2
<1> QED
  BY <1>5

ByRank == {p \in Letters \X Letters : V!Rank(p[1]) < V!Rank(p[2])}

LEMMA Lexical ==
    ASSUME NEW s \in Seq(Letters), NEW t \in Seq(Letters)
    PROVE  Orderly(V!Lexicographic(s, t), s, t, ByRank)
<1> DEFINE n == V!Min({Len(s), Len(t)})
           c == [i \in 1..n |-> V!Sign(V!Rank(s[i]) - V!Rank(t[i]))]
<1>1. Len(s) \in Nat /\ Len(t) \in Nat
  BY LenProperties
<1>2. n \in Nat /\ n <= Len(s) /\ n <= Len(t)
  BY <1>1, LeastOfTwo
<1> HIDE DEF n
<1>3. ASSUME NEW i \in 1..n
      PROVE  /\ s[i] \in Letters /\ t[i] \in Letters
             /\ V!Rank(s[i]) \in Int /\ V!Rank(t[i]) \in Int
             /\ c[i] = V!Sign(V!Rank(s[i]) - V!Rank(t[i]))
  <2>1. i \in 1..Len(s) /\ i \in 1..Len(t)
    BY <1>1, <1>2
  <2>2. s[i] \in Letters /\ t[i] \in Letters
    BY <2>1, ElementOfSeq
  <2> QED
    BY <2>2, Ranks
<1>4. c \in Seq(Orders) /\ Len(c) = n
  <2>1. c \in [1..n -> Orders]
    <3>1. ASSUME NEW i \in 1..n PROVE V!Sign(V!Rank(s[i]) - V!Rank(t[i])) \in Orders
      <4>1. V!Rank(s[i]) - V!Rank(t[i]) \in Int
        BY <1>3
      <4> QED
        BY <4>1, SignOf
    <3> QED
      BY <3>1
  <2> HIDE DEF c
  <2> QED
    BY <1>2, <2>1, SeqMade
<1> HIDE DEF c
<1>5. ASSUME NEW i \in 1..n
      PROVE  /\ c[i] = -1 <=> <<s[i], t[i]>> \in ByRank
             /\ c[i] = 1 <=> <<t[i], s[i]>> \in ByRank
             /\ c[i] = 0 <=> s[i] = t[i]
  <2> DEFINE x == V!Rank(s[i])
             y == V!Rank(t[i])
             k == x - y
  <2>1. /\ c[i] = V!Sign(k) /\ x \in Int /\ y \in Int
        /\ s[i] \in Letters /\ t[i] \in Letters
    BY <1>3
  <2>2. (<<s[i], t[i]>> \in ByRank <=> x < y) /\ (<<t[i], s[i]>> \in ByRank <=> y < x)
    BY <2>1 DEF ByRank
  <2>3. s[i] = t[i] <=> x = y
    BY <2>1, Ranks
  <2> HIDE DEF x, y
  <2>4. k \in Int /\ (k < 0 <=> x < y) /\ (k > 0 <=> y < x) /\ (k = 0 <=> x = y)
    BY <2>1
  <2> HIDE DEF k
  <2>5. /\ V!Sign(k) = -1 <=> k < 0
        /\ V!Sign(k) = 1 <=> k > 0
        /\ V!Sign(k) = 0 <=> k = 0
    BY <2>4, SignOf
  <2> QED
    BY <2>1, <2>2, <2>3, <2>4, <2>5, Zenon
<1>6. V!Lexicographic(s, t) = V!FirstDecides(c \o <<V!Sign(Len(s) - Len(t))>>)
  BY DEF V!Lexicographic, c, n
<1>7. Len(c) = V!Min({Len(s), Len(t)}) /\ Elementwise(c, s, t, ByRank)
  BY <1>4, <1>5 DEF n, Elementwise
<1> QED
  BY <1>4, <1>6, <1>7, ListOrder

\* The lexicographic order is the same from either side.
LEMMA LexicalTurned ==
    ASSUME NEW s \in Seq(Letters), NEW t \in Seq(Letters)
    PROVE  /\ V!Lexicographic(s, t) \in Orders
           /\ V!Lexicographic(s, t) = 1 <=> V!Lexicographic(t, s) = -1
           /\ V!Lexicographic(s, t) = 0 <=> s = t
<1>1. Orderly(V!Lexicographic(s, t), s, t, ByRank) /\ Orderly(V!Lexicographic(t, s), t, s, ByRank)
  BY Lexical
<1> QED
  BY <1>1 DEF Orderly

-----------------------------------------------------------------------------
\* Identifiers whose numbers fit are compared as SemVer 11.4 says.
FitsInt(id) == V!Digits(id) => id[1][2] <= MaxInt

LEMMA Identifiers ==
    ASSUME NEW a \in Ids, NEW b \in Ids, FitsInt(a), FitsInt(b), NEW c, c = V!CompareIdentifier(a, b)
    PROVE  /\ c \in Orders
           /\ c = -1 <=> LowerIdentifier(a, b)
           /\ c = 1 <=> LowerIdentifier(b, a)
           /\ c = 0 <=> a = b
<1>1. a \in Seq(Letters) /\ b \in Seq(Letters)
  BY DEF Ids
<1>2. ASSUME NEW id \in Ids, V!Digits(id), FitsInt(id)
      PROVE  /\ Len(id) = 1 /\ id[1] \in Letters
             /\ id[1] = <<"number", id[1][2]>> /\ id[1][2] \in Int /\ V!Value(id) = id[1][2]
  <2>1. Len(id) = 1 /\ id[1] \in Letters /\ id[1][1] \in {"number", "zeros"}
    BY <1>2, ElementOfSeq DEF Ids, V!Digits
  <2>2. \E n \in 0..9 : id[1] = <<"number", n>> /\ id[1][2] = n
    BY <2>1, LettersAre
  <2> QED
    BY <1>2, <2>1, <2>2 DEF FitsInt, V!Value
<1>3. CASE V!Digits(a) /\ V!Digits(b)
  <2> DEFINE x == a[1][2]
             y == b[1][2]
  <2>1. c = V!Sign(x - y) /\ x \in Int /\ y \in Int
    BY <1>2, <1>3 DEF V!CompareIdentifier
  <2>2. (LowerIdentifier(a, b) <=> x < y) /\ (LowerIdentifier(b, a) <=> y < x)
    BY <1>3 DEF LowerIdentifier
  <2>3. a = b <=> x = y
    <3> SUFFICES ASSUME x = y PROVE a = b
      OBVIOUS
    <3>1. Len(a) = Len(b) /\ a[1] = b[1] /\ Len(a) = 1
      BY <1>2, <1>3
    <3>2. \A i \in 1..Len(a) : a[i] = b[i]
      BY <3>1
    <3> QED
      BY <1>1, <3>1, <3>2, SeqEqual
  <2> HIDE DEF x, y
  <2> DEFINE k == x - y
  <2>4. k \in Int /\ (k < 0 <=> x < y) /\ (k > 0 <=> y < x) /\ (k = 0 <=> x = y)
    BY <2>1
  <2> HIDE DEF k
  <2>5. /\ V!Sign(k) \in Orders
        /\ V!Sign(k) = -1 <=> k < 0
        /\ V!Sign(k) = 1 <=> k > 0
        /\ V!Sign(k) = 0 <=> k = 0
    BY <2>4, SignOf
  <2> QED
    BY <2>1, <2>2, <2>3, <2>4, <2>5, Zenon DEF k
<1>4. CASE V!Digits(a) /\ ~V!Digits(b)
  <2>1. c = -1 /\ LowerIdentifier(a, b) /\ ~LowerIdentifier(b, a) /\ a # b
    BY <1>4 DEF V!CompareIdentifier, LowerIdentifier
  <2> QED
    BY <2>1 DEF Orders
<1>5. CASE ~V!Digits(a) /\ V!Digits(b)
  <2>1. c = 1 /\ ~LowerIdentifier(a, b) /\ LowerIdentifier(b, a) /\ a # b
    BY <1>5 DEF V!CompareIdentifier, LowerIdentifier
  <2> QED
    BY <2>1 DEF Orders
<1>6. CASE ~V!Digits(a) /\ ~V!Digits(b)
  <2>1. c = V!Lexicographic(a, b)
    BY <1>6 DEF V!CompareIdentifier, V!Digits
  <2>2. /\ LowerIdentifier(a, b) <=> V!Lexicographic(a, b) = -1
        /\ LowerIdentifier(b, a) <=> V!Lexicographic(b, a) = -1
    BY <1>6 DEF LowerIdentifier
  <2> QED
    BY <1>1, <2>1, <2>2, LexicalTurned
<1> QED
  BY <1>3, <1>4, <1>5, <1>6

-----------------------------------------------------------------------------
\* Lists of identifiers.
ByIdentifier == {p \in Ids \X Ids : LowerIdentifier(p[1], p[2])}

\* The order of two lists of identifiers.
LEMMA IdentifierLists ==
    ASSUME NEW l \in Seq(Ids), NEW r \in Seq(Ids),
           \A i \in 1..Len(l) : FitsInt(l[i]), \A i \in 1..Len(r) : FitsInt(r[i])
    PROVE  /\ [i \in 1..V!Min({Len(l), Len(r)}) |-> V!CompareIdentifier(l[i], r[i])] \in Seq(Orders)
           /\ Orderly(V!FirstDecides([i \in 1..V!Min({Len(l), Len(r)}) |-> V!CompareIdentifier(l[i], r[i])]
                                     \o <<V!Sign(Len(l) - Len(r))>>), l, r, ByIdentifier)
<1> DEFINE n == V!Min({Len(l), Len(r)})
           c == [i \in 1..n |-> V!CompareIdentifier(l[i], r[i])]
<1>1. Len(l) \in Nat /\ Len(r) \in Nat
  BY LenProperties
<1>2. n \in Nat /\ n <= Len(l) /\ n <= Len(r)
  BY <1>1, LeastOfTwo
<1> HIDE DEF n
<1>3. ASSUME NEW i \in 1..n
      PROVE  /\ l[i] \in Ids /\ r[i] \in Ids /\ FitsInt(l[i]) /\ FitsInt(r[i])
             /\ V!CompareIdentifier(l[i], r[i]) \in Orders
             /\ V!CompareIdentifier(l[i], r[i]) = -1 <=> <<l[i], r[i]>> \in ByIdentifier
             /\ V!CompareIdentifier(l[i], r[i]) = 1 <=> <<r[i], l[i]>> \in ByIdentifier
             /\ V!CompareIdentifier(l[i], r[i]) = 0 <=> l[i] = r[i]
  <2> DEFINE a == l[i]
             b == r[i]
  <2>1. i \in 1..Len(l) /\ i \in 1..Len(r)
    BY <1>1, <1>2
  <2>2. a \in Ids /\ b \in Ids /\ FitsInt(a) /\ FitsInt(b)
    BY <2>1, ElementOfSeq
  <2> HIDE DEF a, b
  <2>3. /\ V!CompareIdentifier(a, b) \in Orders
        /\ V!CompareIdentifier(a, b) = -1 <=> LowerIdentifier(a, b)
        /\ V!CompareIdentifier(a, b) = 1 <=> LowerIdentifier(b, a)
        /\ V!CompareIdentifier(a, b) = 0 <=> a = b
    BY <2>2, Identifiers
  <2>4. /\ <<a, b>> \in ByIdentifier <=> LowerIdentifier(a, b)
        /\ <<b, a>> \in ByIdentifier <=> LowerIdentifier(b, a)
    BY <2>2 DEF ByIdentifier
  <2> QED
    BY <2>2, <2>3, <2>4 DEF a, b
<1>4. c \in Seq(Orders) /\ Len(c) = n
  <2>1. c \in [1..n -> Orders]
    BY <1>3
  <2> HIDE DEF c
  <2> QED
    BY <1>2, <2>1, SeqMade
<1>5. \A i \in 1..n : c[i] = V!CompareIdentifier(l[i], r[i])
  OBVIOUS
<1> HIDE DEF c
<1>6. Elementwise(c, l, r, ByIdentifier)
  BY <1>3, <1>4, <1>5 DEF Elementwise
<1>7. Len(c) = V!Min({Len(l), Len(r)})
  BY <1>4 DEF n
<1>8. Orderly(V!FirstDecides(c \o <<V!Sign(Len(l) - Len(r))>>), l, r, ByIdentifier)
  BY <1>4, <1>6, <1>7, ListOrder
<1> QED
  BY <1>4, <1>8 DEF c, n

\* The order of the lists as the specification writes it.
LEMMA LowerLists ==
    ASSUME NEW l \in Seq(Ids), NEW r \in Seq(Ids)
    PROVE  LowerList(l, r, LowerIdentifier) <=> Earlier(l, r, ByIdentifier)
<1>1. Min({Len(l), Len(r)}) = V!Min({Len(l), Len(r)})
  BY DEF Min, V!Min
<1>2. IsStrictPrefix(l, r) <=> V!IsStrictPrefix(l, r)
  BY DEF IsStrictPrefix, V!IsStrictPrefix, IsPrefix, V!IsPrefix
<1>3. \A i \in 1..V!Min({Len(l), Len(r)}) : <<l[i], r[i]>> \in ByIdentifier <=> LowerIdentifier(l[i], r[i])
  <2>1. Len(l) \in Nat /\ Len(r) \in Nat
    BY LenProperties
  <2> SUFFICES ASSUME NEW i \in 1..V!Min({Len(l), Len(r)})
               PROVE  <<l[i], r[i]>> \in ByIdentifier <=> LowerIdentifier(l[i], r[i])
    OBVIOUS
  <2>2. i \in 1..Len(l) /\ i \in 1..Len(r)
    BY <2>1, LeastOfTwo
  <2>3. l[i] \in Ids /\ r[i] \in Ids
    BY <2>2, ElementOfSeq
  <2> QED
    BY <2>3 DEF ByIdentifier
<1> QED
  BY <1>1, <1>2, <1>3, Zenon DEF LowerList, Earlier

\* The same of lists of numbers.
LEMMA NumberLists ==
    ASSUME NEW a \in Seq(Int), NEW b \in Seq(Int)
    PROVE  LowerList(a, b, <) <=> Earlier(a, b, {p \in Int \X Int : p[1] < p[2]})
<1> DEFINE L == {p \in Int \X Int : p[1] < p[2]}
<1>1. Min({Len(a), Len(b)}) = V!Min({Len(a), Len(b)})
  BY DEF Min, V!Min
<1>2. IsStrictPrefix(a, b) <=> V!IsStrictPrefix(a, b)
  BY DEF IsStrictPrefix, V!IsStrictPrefix, IsPrefix, V!IsPrefix
<1>3. \A i \in 1..V!Min({Len(a), Len(b)}) : <<a[i], b[i]>> \in L <=> a[i] < b[i]
  <2>1. Len(a) \in Nat /\ Len(b) \in Nat
    BY LenProperties
  <2> SUFFICES ASSUME NEW i \in 1..V!Min({Len(a), Len(b)})
               PROVE  <<a[i], b[i]>> \in L <=> a[i] < b[i]
    OBVIOUS
  <2>2. i \in 1..Len(a) /\ i \in 1..Len(b)
    BY <2>1, LeastOfTwo
  <2>3. a[i] \in Int /\ b[i] \in Int
    BY <2>2, ElementOfSeq
  <2> QED
    BY <2>3
<1> HIDE DEF L
<1>4. LowerList(a, b, <) <=> Earlier(a, b, L)
  BY <1>1, <1>2, <1>3, Zenon DEF LowerList, Earlier
<1> QED
  BY <1>4 DEF L

-----------------------------------------------------------------------------
\* Prereleases, and versions without them.
LEMMA JoinedIds ==
    ASSUME NEW p \in Seq(Ids)
    PROVE  /\ Joined(p, V!Dot) = <<>> <=> p = <<>>
           /\ p # <<>> => V!Segments(Joined(p, V!Dot)) = p
<1>1. V!Dot \notin Letters
  BY DEF V!Dot, V!Dash, Letters
<1>2. p \in Seq(Seq(Letters))
  <2>1. Ids \subseteq Seq(Letters)
    BY DEF Ids
  <2> QED
    BY <2>1, SeqMonotonic
<1>3. p # <<>> => V!Segments(Joined(p, V!Dot)) = p
  BY <1>1, <1>2, SegmentsOfJoined
<1>4. ASSUME p # <<>>, Joined(p, V!Dot) = <<>> PROVE FALSE
  <2>1. p = <<<<>>>>
    BY <1>3, <1>4, SegmentsNothing, Zenon
  <2>2. p[1] \in Ids
    <3>1. Len(p) = 1
      BY <2>1
    <3> QED
      BY <3>1, ElementOfSeq
  <2> QED
    BY <2>1, <2>2 DEF Ids
<1>5. p = <<>> => Joined(p, V!Dot) = <<>>
  BY JoinedNothing, Zenon
<1> QED
  BY <1>3, <1>4, <1>5

LowerPre(l, r) ==
    \/ l # <<>> /\ r = <<>>
    \/ l # <<>> /\ r # <<>> /\ LowerList(l, r, LowerIdentifier)

\* A version without a prerelease comes last, others are ordered as lists.
LEMMA Prereleases ==
    ASSUME NEW l \in Seq(Ids), NEW r \in Seq(Ids),
           \A i \in 1..Len(l) : FitsInt(l[i]), \A i \in 1..Len(r) : FitsInt(r[i]),
           NEW c, c = V!ComparePrerelease(Joined(l, V!Dot), Joined(r, V!Dot))
    PROVE  /\ c \in Orders
           /\ c = -1 <=> LowerPre(l, r)
           /\ c = 1 <=> LowerPre(r, l)
           /\ c = 0 <=> l = r
<1> DEFINE a == Joined(l, V!Dot)
           b == Joined(r, V!Dot)
           n == V!Min({Len(l), Len(r)})
           d == V!FirstDecides([i \in 1..n |-> V!CompareIdentifier(l[i], r[i])]
                               \o <<V!Sign(Len(l) - Len(r))>>)
<1>1. /\ a = <<>> <=> l = <<>>
      /\ l # <<>> => V!Segments(a) = l
      /\ b = <<>> <=> r = <<>>
      /\ r # <<>> => V!Segments(b) = r
  BY JoinedIds
<1>2. a = b <=> l = r
  <2>1. CASE l = <<>> \/ r = <<>>
    BY <1>1, <2>1
  <2>2. CASE l # <<>> /\ r # <<>>
    BY <1>1, <2>2
  <2> QED
    BY <2>1, <2>2
<1>3. Orderly(d, l, r, ByIdentifier)
  BY IdentifierLists
<1>4. ASSUME l # <<>>, r # <<>>, l # r PROVE c = d
  <2>1. c = V!ComparePrerelease(a, b)
    OBVIOUS
  <2>2. a # <<>> /\ b # <<>> /\ a # b /\ V!Segments(a) = l /\ V!Segments(b) = r
    BY <1>1, <1>2, <1>4
  <2> HIDE DEF a, b
  <2> QED
    BY <2>1, <2>2 DEF V!ComparePrerelease
<1>5. ASSUME l = <<>> \/ r = <<>> \/ l = r
      PROVE  c = IF l = r THEN 0 ELSE IF l = <<>> THEN 1 ELSE -1
  <2>1. c = V!ComparePrerelease(a, b)
    OBVIOUS
  <2> HIDE DEF a, b
  <2> QED
    BY <1>1, <1>2, <1>5, <2>1 DEF V!ComparePrerelease
<1> HIDE DEF d
<1>6. (LowerList(l, r, LowerIdentifier) <=> Earlier(l, r, ByIdentifier))
      /\ (LowerList(r, l, LowerIdentifier) <=> Earlier(r, l, ByIdentifier))
  BY LowerLists
<1>7. /\ d \in Orders
      /\ d = -1 <=> LowerList(l, r, LowerIdentifier)
      /\ d = 1 <=> LowerList(r, l, LowerIdentifier)
      /\ d = 0 <=> l = r
  BY <1>3, <1>6 DEF Orderly
<1>8. CASE l # <<>> /\ r # <<>>
  <2>1. CASE l = r
    BY <1>5, <1>7, <1>8, <2>1 DEF Orders, LowerPre
  <2>2. CASE l # r
    BY <1>4, <1>7, <1>8, <2>2 DEF LowerPre
  <2> QED
    BY <2>1, <2>2
<1>9. CASE l = <<>> \/ r = <<>>
  BY <1>5, <1>9 DEF Orders, LowerPre
<1> QED
  BY <1>8, <1>9

\* What follows an order decides only where that order is equal.
LEMMA Continued ==
    ASSUME NEW c \in Seq(Orders), NEW x \in Orders
    PROVE  /\ V!FirstDecides(c \o <<0>>) \in Orders
           /\ V!FirstDecides(c \o <<x>>) =
                 IF V!FirstDecides(c \o <<0>>) = 0 THEN x ELSE V!FirstDecides(c \o <<0>>)
<1> DEFINE m == Len(c)
           y == V!FirstDecides(c \o <<x>>)
           z == V!FirstDecides(c \o <<0>>)
<1>1. m \in Nat /\ 0 \in Orders
  BY LenProperties DEF Orders
<1>2. /\ (\A i \in 1..m : c[i] = 0) => y = x
      /\ \A i \in 1..m : (c[i] # 0 /\ \A j \in 1..(i - 1) : c[j] = 0) => y = c[i]
  BY Decided
<1>3. /\ (\A i \in 1..m : c[i] = 0) => z = 0
      /\ \A i \in 1..m : (c[i] # 0 /\ \A j \in 1..(i - 1) : c[j] = 0) => z = c[i]
  BY <1>1, Decided
<1>4. \A i \in 1..m : c[i] \in Orders
  BY ElementOfSeq
<1> HIDE DEF m, y, z
<1>5. CASE \A i \in 1..m : c[i] = 0
  BY <1>1, <1>2, <1>3, <1>5 DEF y, z
<1>6. CASE \E i \in 1..m : c[i] # 0 /\ \A j \in 1..(i - 1) : c[j] = 0
  <2>1. PICK i \in 1..m : c[i] # 0 /\ \A j \in 1..(i - 1) : c[j] = 0
    BY <1>6
  <2>2. y = c[i] /\ z = c[i] /\ c[i] \in Orders
    BY <1>2, <1>3, <1>4, <2>1
  <2> QED
    BY <2>1, <2>2 DEF y, z
<1> QED
  BY <1>1, <1>5, <1>6, FirstDifference

ByNumber == {p \in Int \X Int : p[1] < p[2]}

\* The three numbers, compared one by one.
LEMMA Triplets ==
    ASSUME NEW a \in [1..3 -> Int], NEW b \in [1..3 -> Int]
    PROVE  /\ [k \in 1..3 |-> V!Sign(a[k] - b[k])] \in Seq(Orders)
           /\ Orderly(V!FirstDecides([k \in 1..3 |-> V!Sign(a[k] - b[k])] \o <<0>>), a, b, ByNumber)
           /\ a \in Seq(Int) /\ b \in Seq(Int)
<1> DEFINE c == [k \in 1..3 |-> V!Sign(a[k] - b[k])]
<1>1. a \in Seq(Int) /\ b \in Seq(Int) /\ Len(a) = 3 /\ Len(b) = 3
  BY SeqMade
<1>2. ASSUME NEW k \in 1..3
      PROVE  /\ V!Sign(a[k] - b[k]) \in Orders
             /\ V!Sign(a[k] - b[k]) = -1 <=> <<a[k], b[k]>> \in ByNumber
             /\ V!Sign(a[k] - b[k]) = 1 <=> <<b[k], a[k]>> \in ByNumber
             /\ V!Sign(a[k] - b[k]) = 0 <=> a[k] = b[k]
  <2> DEFINE x == a[k]
             y == b[k]
             g == x - y
  <2>1. x \in Int /\ y \in Int
    OBVIOUS
  <2>2. (<<x, y>> \in ByNumber <=> x < y) /\ (<<y, x>> \in ByNumber <=> y < x)
    BY <2>1 DEF ByNumber
  <2> HIDE DEF x, y
  <2>3. g \in Int /\ (g < 0 <=> x < y) /\ (g > 0 <=> y < x) /\ (g = 0 <=> x = y)
    BY <2>1
  <2> HIDE DEF g
  <2>4. /\ V!Sign(g) \in Orders
        /\ V!Sign(g) = -1 <=> g < 0
        /\ V!Sign(g) = 1 <=> g > 0
        /\ V!Sign(g) = 0 <=> g = 0
    BY <2>3, SignOf
  <2> QED
    BY <2>2, <2>3, <2>4, Zenon DEF x, y, g
<1>3. c \in Seq(Orders) /\ Len(c) = 3
  <2>1. c \in [1..3 -> Orders]
    BY <1>2
  <2> HIDE DEF c
  <2> QED
    BY <2>1, SeqMade
<1>4. \A k \in 1..3 : c[k] = V!Sign(a[k] - b[k])
  OBVIOUS
<1> HIDE DEF c
<1>5. Elementwise(c, a, b, ByNumber)
  BY <1>2, <1>3, <1>4 DEF Elementwise
<1>6. Len(c) = V!Min({Len(a), Len(b)})
  BY <1>1, <1>3, LeastOfTwo
<1>7. V!Sign(Len(a) - Len(b)) = 0
  BY <1>1 DEF V!Sign
<1>8. Orderly(V!FirstDecides(c \o <<V!Sign(Len(a) - Len(b))>>), a, b, ByNumber)
  BY <1>1, <1>3, <1>5, <1>6, ListOrder
<1> QED
  BY <1>1, <1>3, <1>7, <1>8 DEF c

-----------------------------------------------------------------------------
\* The pieces a version may be written from.
Written ==
    {p \in Seq(Seq(Atoms)) \X Seq(Seq(Atoms \cup {V!Dash})) :
        \A k \in 1..Len(p[2]) : Len(p[2][k]) > 1 => \A i \in 1..Len(p[2][k]) : p[2][k][i][1] # "zeros"}

Tokens == Atoms \cup {V!Dash, V!Dot, V!Plus, V!Vee}

LEMMA Separators ==
    /\ V!Dash \notin Atoms /\ V!Dot \notin Atoms /\ V!Plus \notin Atoms /\ V!Vee \notin Atoms
    /\ V!Dash # V!Dot /\ V!Dash # V!Plus /\ V!Dash # V!Vee
    /\ V!Dot # V!Plus /\ V!Dot # V!Vee /\ V!Plus # V!Vee
BY DEF Atoms, V!Dash, V!Dot, V!Plus, V!Vee, V!Illegal

LEMMA HeadOfConcat ==
    ASSUME NEW T, NEW h \in Seq(T), Len(h) = 1, NEW s \in Seq(T)
    PROVE  h \o s # <<>> /\ Head(h \o s) = h[1] /\ Tail(h \o s) = s
<1> DEFINE t == h \o s
<1>1. Len(h) = 1
  OBVIOUS
<1>2. Len(s) \in Nat
  BY LenProperties
<1>3. /\ t \in Seq(T) /\ Len(t) = 1 + Len(s)
      /\ \A i \in 1..(1 + Len(s)) : t[i] = IF i <= 1 THEN h[i] ELSE s[i - 1]
  <2>1. /\ t \in Seq(T) /\ Len(t) = Len(h) + Len(s)
        /\ \A i \in 1..(Len(h) + Len(s)) : t[i] = IF i <= Len(h) THEN h[i] ELSE s[i - Len(h)]
    BY ConcatProperties
  <2> QED
    BY <1>1, <2>1, Zenon
<1> HIDE DEF t
<1>4. t # <<>>
  BY <1>2, <1>3, EmptySeq
<1>5. Head(t) = h[1]
  <2>1. 1 \in 1..(1 + Len(s)) /\ 1 <= 1
    BY <1>2
  <2>2. t[1] = h[1]
    BY <1>3, <2>1
  <2>3. Head(t) = t[1]
    OBVIOUS
  <2> QED
    BY <1>1, <2>2, <2>3
<1>6. Tail(t) = s
  <2> DEFINE r == Tail(t)
  <2>1. /\ r \in Seq(T) /\ Len(r) = Len(t) - 1
        /\ \A i \in 1..Len(r) : r[i] = t[i + 1]
    BY <1>3, <1>4, HeadTailProperties
  <2> HIDE DEF r
  <2>2. Len(r) = Len(s)
    BY <1>2, <1>3, <2>1
  <2>3. \A i \in 1..Len(r) : r[i] = s[i]
    <3> SUFFICES ASSUME NEW i \in 1..Len(r) PROVE r[i] = s[i]
      OBVIOUS
    <3>1. i + 1 \in 1..(1 + Len(s)) /\ ~(i + 1 <= 1) /\ i + 1 - 1 = i
      BY <1>2, <2>2
    <3>2. t[i + 1] = s[i + 1 - 1]
      BY <1>3, <3>1
    <3> QED
      BY <2>1, <3>1, <3>2
  <2>4. r = s
    BY <2>1, <2>2, <2>3, SeqEqual
  <2> QED
    BY <2>4 DEF r
<1> QED
  BY <1>3, <1>4, <1>5, <1>6 DEF t

\* The text of a version without its prefix and build metadata.
Numerals(p) == Joined(p[1], V!Dot)
Marked(p) == IF p[2] = <<>> THEN <<>> ELSE <<V!Dash>> \o Joined(p[2], V!Dot)
Plain(p) == Numerals(p) \o Marked(p)

\* The tokens each part of a text is made of.
LEMMA Joins ==
    ASSUME NEW p \in Written
    PROVE  /\ p[1] \in Seq(Seq(Atoms)) /\ p[2] \in Seq(Seq(Atoms \cup {V!Dash}))
           /\ Numerals(p) \in Seq(Atoms \cup {V!Dot})
           /\ Joined(p[2], V!Dot) \in Seq(Atoms \cup {V!Dash, V!Dot})
           /\ Marked(p) \in Seq(Atoms \cup {V!Dash, V!Dot})
           /\ Plain(p) \in Seq(Atoms \cup {V!Dash, V!Dot})
<1>1. p[1] \in Seq(Seq(Atoms)) /\ p[2] \in Seq(Seq(Atoms \cup {V!Dash}))
  BY DEF Written
<1> DEFINE A == Atoms \cup {V!Dot}
           B == Atoms \cup {V!Dash, V!Dot}
<1>2. /\ Seq(Atoms) \subseteq Seq(A) /\ Seq(Atoms \cup {V!Dash}) \subseteq Seq(B)
      /\ Seq(A) \subseteq Seq(B) /\ V!Dot \in A /\ V!Dot \in B /\ V!Dash \in B
  BY SeqMonotonic
<1> HIDE DEF A, B
<1>3. p[1] \in Seq(Seq(A)) /\ p[2] \in Seq(Seq(B))
  BY <1>1, <1>2, SeqMonotonic
<1>4. Numerals(p) \in Seq(A) /\ Joined(p[2], V!Dot) \in Seq(B)
  BY <1>2, <1>3, JoinedType DEF Numerals
<1>5. Marked(p) \in Seq(B)
  <2> DEFINE j == Joined(p[2], V!Dot)
  <2>1. j \in Seq(B)
    BY <1>4
  <2> HIDE DEF j
  <2>2. <<V!Dash>> \o j \in Seq(B)
    <3>1. <<V!Dash>> \in Seq(B)
      BY <1>2
    <3> QED
      BY <2>1, <3>1, ConcatProperties
  <2>3. <<>> \in Seq(B)
    OBVIOUS
  <2> QED
    BY <2>2, <2>3 DEF Marked, j
<1>6. Plain(p) \in Seq(B)
  BY <1>2, <1>4, <1>5, ConcatProperties DEF Plain
<1> QED
  BY <1>1, <1>4, <1>5, <1>6 DEF A, B

\* Prefix and build metadata are dropped.
Bare(text) == IF text # <<>> /\ Head(text) = V!Vee THEN Tail(text) ELSE text

LEMMA Undressed ==
    ASSUME NEW p \in Written, NEW dressed \in BOOLEAN
    PROVE  V!Before(Bare(Spelled(p, dressed)), V!Plus) = Plain(p)
<1> DEFINE h == IF dressed THEN <<V!Vee>> ELSE <<>>
           m == IF dressed THEN <<V!Plus, V!Word(1), V!Dash, V!Word(2)>> ELSE <<>>
           w == <<V!Word(1), V!Dash, V!Word(2)>>
           n == Numerals(p)
           d == Marked(p)
           P == Plain(p)
<1>1. Spelled(p, dressed) = ((h \o n) \o d) \o m
  BY DEF Spelled, Numerals, Marked
<1>2. /\ V!Vee \in Tokens /\ V!Plus \in Tokens /\ V!Dash \in Tokens
      /\ V!Word(1) \in Tokens /\ V!Word(2) \in Tokens
  BY DEF Tokens, Atoms, V!Word
<1>3. <<V!Vee>> \in Seq(Tokens) /\ <<V!Plus>> \in Seq(Tokens) /\ w \in Seq(Tokens)
  BY <1>2
<1>4. /\ n \in Seq(Tokens) /\ d \in Seq(Tokens) /\ P \in Seq(Tokens)
      /\ P \in Seq(Tokens \ {V!Plus}) /\ P \in Seq(Tokens \ {V!Vee})
  <2>1. /\ Atoms \cup {V!Dot} \subseteq Tokens /\ Atoms \cup {V!Dash, V!Dot} \subseteq Tokens
        /\ Atoms \cup {V!Dash, V!Dot} \subseteq Tokens \ {V!Plus}
        /\ Atoms \cup {V!Dash, V!Dot} \subseteq Tokens \ {V!Vee}
    BY Separators DEF Tokens
  <2> QED
    BY <2>1, Joins, SeqMonotonic
<1>5. P = n \o d
  BY DEF Plain
<1> HIDE DEF w, n, d, P
<1>6. CASE ~dressed
  <2>1. h = <<>> /\ m = <<>>
    BY <1>6
  <2> HIDE DEF h, m
  <2>2. Spelled(p, dressed) = P
    BY <1>1, <1>4, <1>5, <2>1, ConcatEmptySeq, Zenon
  <2>3. P # <<>> => Head(P) # V!Vee
    BY <1>4, HeadTailProperties
  <2>4. Bare(P) = P
    BY <2>3 DEF Bare
  <2>5. V!Before(P, V!Plus) = P
    BY <1>4, CutNone
  <2> QED
    BY <2>2, <2>4, <2>5 DEF P
<1>7. CASE dressed
  <2>1. h = <<V!Vee>> /\ m = <<V!Plus>> \o w
    BY <1>7 DEF w
  <2> HIDE DEF h, m
  <2>2. h \in Seq(Tokens) /\ m \in Seq(Tokens)
    BY <1>2, <1>3, <2>1, ConcatProperties
  <2>3. (h \o n) \o d = h \o P
    BY <1>4, <1>5, <2>2, ConcatAssociative
  <2>4. (h \o P) \o m = h \o (P \o m)
    BY <1>4, <2>2, ConcatAssociative
  <2>5. P \o m \in Seq(Tokens)
    BY <1>4, <2>2, ConcatProperties
  <2>6. Spelled(p, dressed) = <<V!Vee>> \o (P \o m)
    BY <1>1, <2>1, <2>3, <2>4, Zenon
  <2>7. Bare(Spelled(p, dressed)) = P \o m
    <3> DEFINE t == P \o m
    <3>1. t \in Seq(Tokens) /\ Len(h) = 1 /\ h[1] = V!Vee
      BY <2>1, <2>5
    <3> HIDE DEF t
    <3>2. h \o t # <<>> /\ Head(h \o t) = h[1] /\ Tail(h \o t) = t
      BY <2>2, <3>1, HeadOfConcat
    <3>3. Bare(h \o t) = t
      BY <3>1, <3>2, Zenon DEF Bare
    <3> QED
      BY <2>1, <2>6, <3>3, Zenon DEF t
  <2>8. P \o m = (P \o <<V!Plus>>) \o w
    BY <1>3, <1>4, <2>1, ConcatAssociative
  <2>9. V!Before((P \o <<V!Plus>>) \o w, V!Plus) = P
    BY <1>2, <1>3, <1>4, CutAt
  <2> QED
    BY <2>7, <2>8, <2>9 DEF P
<1> QED
  BY <1>6, <1>7

\* The dash divides the rest.
LEMMA Divided ==
    ASSUME NEW p \in Written
    PROVE  /\ V!Before(Plain(p), V!Dash) = Numerals(p)
           /\ V!After(Plain(p), V!Dash) = Joined(p[2], V!Dot)
           /\ V!Contains(Plain(p), V!Dash) <=> p[2] # <<>>
<1> DEFINE n == Numerals(p)
           j == Joined(p[2], V!Dot)
           U == Atoms \cup {V!Dash, V!Dot}
<1>1. n \in Seq(U \ {V!Dash}) /\ n \in Seq(U) /\ j \in Seq(U) /\ V!Dash \in U
  <2>1. Atoms \cup {V!Dot} \subseteq U \ {V!Dash} /\ Atoms \cup {V!Dot} \subseteq U
    BY Separators
  <2> QED
    BY <2>1, Joins, SeqMonotonic
<1>2. Plain(p) = n \o (IF p[2] = <<>> THEN <<>> ELSE <<V!Dash>> \o j)
  BY DEF Plain, Marked
<1>3. p[2] = <<>> => j = <<>>
  BY JoinedNothing, Zenon
<1> HIDE DEF n, j, U
<1>4. CASE p[2] = <<>>
  <2>1. Plain(p) = n
    BY <1>1, <1>2, <1>4, ConcatEmptySeq, Zenon
  <2>2. V!Before(n, V!Dash) = n /\ V!After(n, V!Dash) = <<>> /\ ~V!Contains(n, V!Dash)
    BY <1>1, CutNone
  <2> QED
    BY <1>3, <1>4, <2>1, <2>2, Zenon DEF n, j
<1>5. CASE p[2] # <<>>
  <2>1. <<V!Dash>> \in Seq(U)
    BY <1>1
  <2>2. n \o (<<V!Dash>> \o j) = (n \o <<V!Dash>>) \o j
    BY <1>1, <2>1, ConcatAssociative
  <2>3. Plain(p) = (n \o <<V!Dash>>) \o j
    BY <1>2, <1>5, <2>2, Zenon
  <2>4. /\ V!Before((n \o <<V!Dash>>) \o j, V!Dash) = n
        /\ V!After((n \o <<V!Dash>>) \o j, V!Dash) = j
        /\ V!Contains((n \o <<V!Dash>>) \o j, V!Dash)
    BY <1>1, CutAt
  <2> QED
    BY <1>5, <2>3, <2>4, Zenon DEF n, j
<1> QED
  BY <1>4, <1>5

\* What is read is what was written, when the pieces are proper.
LEMMA Reading ==
    ASSUME NEW p \in Written, NEW dressed \in BOOLEAN
    PROVE  V!Parse(Spelled(p, dressed)) =
              IF Proper(p) THEN [triple |-> Numbers(p[1]), pre |-> Joined(p[2], V!Dot)] ELSE V!NoVersion
<1> DEFINE n == Numerals(p)
           j == Joined(p[2], V!Dot)
           good == /\ Len(V!Segments(n)) = 3
                   /\ \A k \in 1..3 : V!IsPart(V!Segments(n)[k])
                   /\ p[2] # <<>> => \A k \in 1..Len(V!Segments(j)) : V!IsLegalIdentifier(V!Segments(j)[k])
<1>1. V!Parse(Spelled(p, dressed)) =
         IF good THEN [triple |-> [k \in 1..3 |-> V!Segments(n)[k][1][2]], pre |-> j] ELSE V!NoVersion
  <2>1. /\ V!Before(Bare(Spelled(p, dressed)), V!Plus) = Plain(p)
        /\ V!Before(Plain(p), V!Dash) = n
        /\ V!After(Plain(p), V!Dash) = j
        /\ V!Contains(Plain(p), V!Dash) <=> p[2] # <<>>
    BY Undressed, Divided
  <2> HIDE DEF n, j
  <2> DEFINE text == Spelled(p, dressed)
  <2> HIDE DEF text
  <2>2. V!Before(IF text # <<>> /\ Head(text) = V!Vee THEN Tail(text) ELSE text, V!Plus) = Plain(p)
    BY <2>1 DEF Bare, text
  <2>3. V!Parse(text) =
           IF good THEN [triple |-> [k \in 1..3 |-> V!Segments(n)[k][1][2]], pre |-> j] ELSE V!NoVersion
    BY <2>1, <2>2, Zenon DEF V!Parse
  <2> QED
    BY <2>3 DEF text
<1>2. p[1] # <<>> => V!Segments(n) = p[1]
  BY Joins, Separators, SegmentsOfJoined DEF Numerals
<1>3. p[2] # <<>> => V!Segments(j) = p[2]
  <2>1. V!Dot \notin Atoms \cup {V!Dash} /\ p[2] \in Seq(Seq(Atoms \cup {V!Dash}))
    BY Joins, Separators
  <2> QED
    BY <2>1, SegmentsOfJoined
<1>4. p[1] = <<>> => V!Segments(n) = <<<<>>>>
  BY JoinedNothing, SegmentsNothing, Zenon DEF Numerals
<1> HIDE DEF n, j
<1>5. good <=> Proper(p)
  <2>1. CASE p[1] = <<>>
    <3>1. Len(V!Segments(n)) = 1 /\ Len(p[1]) = 0
      BY <1>4, <2>1
    <3> QED
      BY <3>1 DEF Proper
  <2>2. CASE p[1] # <<>>
    <3>1. p[2] = <<>> => 1..Len(p[2]) = {}
      OBVIOUS
    <3> QED
      BY <1>2, <1>3, <2>2, <3>1 DEF Proper
  <2> QED
    BY <2>1, <2>2
<1>6. Proper(p) => V!Segments(n) = p[1]
  <2>1. Proper(p) => p[1] # <<>>
    BY DEF Proper
  <2> QED
    BY <1>2, <2>1
<1> QED
  BY <1>1, <1>5, <1>6 DEF Numbers, j

\* Proper pieces are three numbers and legal identifiers.
LEMMA ProperIds ==
    ASSUME NEW p \in Written, Proper(p)
    PROVE  p[2] \in Seq(Ids) /\ Numbers(p[1]) \in [1..3 -> Int]
<1>1. p[1] \in Seq(Seq(Atoms)) /\ p[2] \in Seq(Seq(Atoms \cup {V!Dash}))
  BY Joins
<1>2. ASSUME NEW k \in 1..Len(p[2]) PROVE p[2][k] \in Ids
  <2> DEFINE id == p[2][k]
  <2>1. /\ id \in Seq(Atoms \cup {V!Dash}) /\ V!IsLegalIdentifier(id)
        /\ Len(id) > 1 => \A i \in 1..Len(id) : id[i][1] # "zeros"
    BY <1>1, ElementOfSeq DEF Proper, Written
  <2> HIDE DEF id
  <2>2. id \in Ids
    BY <2>1, LegalLetters
  <2> QED
    BY <2>2 DEF id
<1>3. p[2] \in Seq(Ids)
  BY <1>1, <1>2, Retyped
<1>4. ASSUME NEW k \in 1..3 PROVE p[1][k][1][2] \in Int
  <2> DEFINE t == p[1][k][1]
  <2>1. k \in 1..Len(p[1]) /\ V!IsPart(p[1][k])
    BY DEF Proper
  <2>2. p[1][k] \in Seq(Atoms)
    BY <1>1, <2>1, ElementOfSeq
  <2>3. Len(p[1][k]) = 1 /\ t[1] \in {"number", "zeros"}
    BY <2>1 DEF V!IsPart, V!Digits
  <2>4. t \in Atoms
    BY <2>2, <2>3, ElementOfSeq
  <2>5. t \in Int \X Int \/ \E x : \E n \in Nat : t = <<x, n>>
    BY <2>4 DEF Atoms, V!Illegal
  <2> HIDE DEF t
  <2>6. t[2] \in Int
    BY <2>5
  <2> QED
    BY <2>6 DEF t
<1>5. Numbers(p[1]) \in [1..3 -> Int]
  BY <1>4 DEF Numbers
<1> QED
  BY <1>3, <1>5

\* The order of what was read.
LEMMA Comparing ==
    ASSUME NEW p \in Written, NEW q \in Written, Proper(p), Proper(q), Fits(p), Fits(q),
           NEW v, v = [triple |-> Numbers(p[1]), pre |-> Joined(p[2], V!Dot)],
           NEW w, w = [triple |-> Numbers(q[1]), pre |-> Joined(q[2], V!Dot)]
    PROVE  /\ V!Compare(v, w) = -1 <=> Precedes(p, q)
           /\ V!Compare(v, w) = 1 <=> Precedes(q, p)
           /\ V!Compare(v, w) = 0 <=> v = w
<1> DEFINE a == Numbers(p[1])
           b == Numbers(q[1])
           l == p[2]
           r == q[2]
           c == [k \in 1..3 |-> V!Sign(a[k] - b[k])]
           x == V!ComparePrerelease(Joined(l, V!Dot), Joined(r, V!Dot))
           d == V!FirstDecides(c \o <<0>>)
           e == V!FirstDecides(c \o <<x>>)
<1>1. /\ a \in [1..3 -> Int] /\ b \in [1..3 -> Int] /\ l \in Seq(Ids) /\ r \in Seq(Ids)
      /\ \A i \in 1..Len(l) : FitsInt(l[i])
      /\ \A i \in 1..Len(r) : FitsInt(r[i])
  BY ProperIds DEF Fits, FitsInt
<1>2. V!Compare(v, w) = e
  <2>1. v.triple = a /\ w.triple = b /\ v.pre = Joined(l, V!Dot) /\ w.pre = Joined(r, V!Dot)
    OBVIOUS
  <2> HIDE DEF a, b, l, r
  <2> QED
    BY <2>1, Zenon DEF V!Compare
<1>3. /\ Precedes(p, q) <=> LowerList(a, b, <) \/ (a = b /\ LowerPre(l, r))
      /\ Precedes(q, p) <=> LowerList(b, a, <) \/ (b = a /\ LowerPre(r, l))
  BY Zenon DEF Precedes, LowerPre
<1>4. v = w <=> a = b /\ Joined(l, V!Dot) = Joined(r, V!Dot)
  <2>1. v.triple = a /\ w.triple = b /\ v.pre = Joined(l, V!Dot) /\ w.pre = Joined(r, V!Dot)
    OBVIOUS
  <2> QED
    BY <2>1
<1> HIDE DEF a, b, l, r
<1>5. Joined(l, V!Dot) = Joined(r, V!Dot) <=> l = r
  <2>1. /\ Joined(l, V!Dot) = <<>> <=> l = <<>>
        /\ l # <<>> => V!Segments(Joined(l, V!Dot)) = l
        /\ Joined(r, V!Dot) = <<>> <=> r = <<>>
        /\ r # <<>> => V!Segments(Joined(r, V!Dot)) = r
    BY <1>1, JoinedIds
  <2> QED
    BY <2>1, Zenon
<1>6. /\ x \in Orders
      /\ x = -1 <=> LowerPre(l, r)
      /\ x = 1 <=> LowerPre(r, l)
      /\ x = 0 <=> l = r
  BY <1>1, Prereleases
<1> HIDE DEF x
<1>7. c \in Seq(Orders) /\ Orderly(d, a, b, ByNumber) /\ a \in Seq(Int) /\ b \in Seq(Int)
  BY <1>1, Triplets
<1> HIDE DEF c
<1>8. (LowerList(a, b, <) <=> Earlier(a, b, ByNumber)) /\ (LowerList(b, a, <) <=> Earlier(b, a, ByNumber))
  BY <1>7, NumberLists DEF ByNumber
<1>9. e = IF d = 0 THEN x ELSE d
  BY <1>6, <1>7, Continued
<1> HIDE DEF d, e
<1>10. /\ d \in Orders
       /\ d = -1 <=> LowerList(a, b, <)
       /\ d = 1 <=> LowerList(b, a, <)
       /\ d = 0 <=> a = b
  BY <1>7, <1>8, Zenon DEF Orderly
<1>11. e = -1 <=> Precedes(p, q)
  <2>1. CASE d = 0
    <3>1. e = x /\ d # -1 /\ d # 1
      BY <1>9, <2>1
    <3>2. a = b /\ ~LowerList(a, b, <) /\ ~LowerList(b, a, <)
      BY <1>10, <2>1, <3>1, Zenon
    <3> QED
      BY <1>3, <1>6, <3>1, <3>2, Zenon
  <2>2. CASE d # 0
    BY <1>3, <1>9, <1>10, <2>2
  <2> QED
    BY <2>1, <2>2
<1>12. e = 1 <=> Precedes(q, p)
  <2>1. CASE d = 0
    <3>1. e = x /\ d # -1 /\ d # 1
      BY <1>9, <2>1
    <3>2. a = b /\ ~LowerList(a, b, <) /\ ~LowerList(b, a, <)
      BY <1>10, <2>1, <3>1, Zenon
    <3> QED
      BY <1>3, <1>6, <3>1, <3>2, Zenon
  <2>2. CASE d # 0
    BY <1>3, <1>9, <1>10, <2>2
  <2> QED
    BY <2>1, <2>2
<1>13. e = 0 <=> v = w
  BY <1>4, <1>5, <1>6, <1>9, <1>10
<1> QED
  BY <1>2, <1>11, <1>12, <1>13

\* Whatever pieces two versions are written from, VersionsAreSemVer.
THEOREM VersionsOrdered == VersionsSpec => []VersionsAreSemVer
<1> DEFINE Typed == versions \in Versions \cup {NoVersions}
<1>1. VersionsInit => Typed
  BY DEF VersionsInit
<1>2. Typed /\ [UNCHANGED versions]_versions => Typed'
  BY DEF Versions, NoVersions
<1>3. ASSUME Typed PROVE VersionsAreSemVer
  <2> SUFFICES ASSUME versions.given PROVE VersionsAreSemVer
    BY DEF VersionsAreSemVer
  <2>1. versions \in Versions
    BY <1>3 DEF NoVersions
  <2> DEFINE p == versions.left
             q == versions.right
             g == versions.dressed
  <2>2. g \in BOOLEAN /\ p \in Triples \X Pres /\ q \in Others \X Pres
    BY <2>1 DEF Versions
  <2>3. p \in Written /\ q \in Written
    BY <2>2, PiecesAssumption DEF Written
  <2> DEFINE left == V!Parse(Spelled(p, g))
             right == V!Parse(Spelled(q, FALSE))
  <2>4. left = IF Proper(p) THEN [triple |-> Numbers(p[1]), pre |-> Joined(p[2], V!Dot)] ELSE V!NoVersion
    BY <2>2, <2>3, Reading
  <2>5. right = IF Proper(q) THEN [triple |-> Numbers(q[1]), pre |-> Joined(q[2], V!Dot)] ELSE V!NoVersion
    BY <2>3, Reading
  <2> HIDE DEF left, right, p, q, g
  <2>6. left = V!NoVersion <=> ~Proper(p)
    <3> SUFFICES ASSUME Proper(p) PROVE left # V!NoVersion
      BY <2>4
    <3>1. left.triple = Numbers(p[1]) /\ V!NoVersion.triple = <<>>
      BY <2>4 DEF V!NoVersion
    <3>2. Numbers(p[1]) # <<>>
      <4>1. DOMAIN Numbers(p[1]) = 1..3 /\ DOMAIN <<>> = {} /\ 1 \in 1..3
        BY DEF Numbers
      <4> QED
        BY <4>1, Zenon
    <3> QED
      BY <3>1, <3>2, Zenon
  <2>7. ASSUME Proper(p), Proper(q), Fits(p), Fits(q)
        PROVE  /\ V!Compare(left, right) = -1 <=> Precedes(p, q)
               /\ V!Compare(left, right) = 1 <=> Precedes(q, p)
               /\ V!Compare(left, right) = 0 <=> left = right
    BY <2>3, <2>4, <2>5, <2>7, Comparing
  <2> QED
    BY <2>6, <2>7, Zenon DEF VersionsAreSemVer, left, right, p, q, g
<1> QED
  BY <1>1, <1>2, <1>3, PTL DEF VersionsSpec
=============================================================================
