-------------------------- MODULE SessionsProofs --------------------------
(***************************************************************************)
(* What TLAPS proves of Sessions for every set of servers, families and    *)
(* processes and every bound on rotations.                                 *)
(***************************************************************************)
EXTENDS Sessions, TLAPS

LEMMA SuccessorIsToken ==
    ASSUME NEW t \in Token
    PROVE  Successor(t) \in Token /\ Successor(t).family = t.family
BY DEF Successor, Token

LEMMA TolerantRootIsRoot == StoreTypeOK => TolerantRoot \in Root
BY DEF StoreTypeOK, TolerantRoot, Readable, EmptyRoot, Root, MaybeToken

-----------------------------------------------------------------------------
(***************************************************************************)
(* Type correctness                                                        *)
(***************************************************************************)

LEMMA NoUrlIsUrl == NoUrl \in Url
BY UrlAssumption DEF NoUrl

LEMMA InitTypeOK == Init => TypeOK
BY NoUrlIsUrl DEF Init, ServerInit, StoreInit, TypeOK, ServerTypeOK, StoreTypeOK,
    EmptyRoot, Root, MaybeToken, Phase, Idle, Storing, Command, Session, NoCommand

\* The process layer of a step keeps its type.
LEMMA StartsType ==
    ASSUME TypeOK, NEW p \in Proc, NEW phase \in Phase, NEW c \in Command,
           NEW u \in Url, NEW t \in MaybeToken, Starts(p, phase, c, u, t)
    PROVE  /\ pc' \in [Proc -> Phase]
           /\ cmd' \in [Proc -> Command]
           /\ at' \in [Proc -> Url]
           /\ mem' \in [Proc -> MaybeToken]
BY DEF TypeOK, Starts

LEMMA GoesType ==
    ASSUME TypeOK, NEW p \in Proc, NEW phase \in Phase, NEW t \in MaybeToken,
           Goes(p, phase) \/ GoesHolding(p, phase, t)
    PROVE  /\ pc' \in [Proc -> Phase]
           /\ cmd' \in [Proc -> Command]
           /\ at' \in [Proc -> Url]
           /\ mem' \in [Proc -> MaybeToken]
BY DEF TypeOK, Goes, GoesHolding

LEMMA ExitsType ==
    ASSUME TypeOK, NEW p \in Proc, Exits(p) \/ NetworkError(p)
    PROVE  /\ pc' \in [Proc -> Phase]
           /\ cmd' \in [Proc -> Command]
           /\ at' \in [Proc -> Url]
           /\ mem' \in [Proc -> MaybeToken]
<1>1. Idle \in Phase /\ "ready" \in Phase /\ NoCommand \in Command /\ NoToken \in MaybeToken
  BY DEF Phase, Idle, NoCommand, Command, Session, MaybeToken
<1>2. CASE Exits(p)
  BY <1>1, <1>2, NoUrlIsUrl, StartsType DEF Exits
<1>3. CASE Goes(p, "ready")
  BY <1>1, <1>3, GoesType
<1> QED
  BY <1>2, <1>3 DEF NetworkError

\* What a step of a process does to the variables outside procVars.
LEMMA ServerStepType ==
    ASSUME TypeOK, NEW t \in Token, NEW f \in Family,
           Rotates(t) \/ Rejects(t) \/ Issues(f) \/ EndsFamily(f) \/ UNCHANGED serverVars
    PROVE  ServerTypeOK'
<1> USE DEF TypeOK, ServerTypeOK, Token
<1>1. CASE Rotates(t)
  BY <1>1 DEF Rotates
<1>2. CASE Rejects(t)
  BY <1>2 DEF Rejects, Revokes
<1>3. CASE Issues(f)
  BY <1>3 DEF Issues
<1>4. CASE EndsFamily(f)
  BY <1>4 DEF EndsFamily, Revokes
<1>5. CASE UNCHANGED serverVars
  BY <1>5 DEF serverVars
<1> QED
  BY <1>1, <1>2, <1>3, <1>4, <1>5

LEMMA StoreStepType ==
    ASSUME TypeOK, NEW p \in Proc, NEW u \in Url, NEW t \in MaybeToken,
           \/ WritesTemp(p, u, t)
           \/ pc[p] = "rename" /\ Complete(p) /\ temp[p] # NoTemp /\ RenamesTemp(p)
           \/ AbandonsTemp(p)
           \/ UNCHANGED storeVars
    PROVE  StoreTypeOK'
<1> USE DEF TypeOK, StoreTypeOK
<1>1. CASE WritesTemp(p, u, t)
  <2>1. [TolerantRoot EXCEPT ![u] = t] \in Root
    BY TolerantRootIsRoot DEF Root
  <2> QED
    BY <1>1, <2>1 DEF WritesTemp
<1>2. CASE pc[p] = "rename" /\ Complete(p) /\ temp[p] # NoTemp /\ RenamesTemp(p)
  BY <1>2 DEF RenamesTemp, Complete
<1>3. CASE AbandonsTemp(p)
  BY <1>3 DEF AbandonsTemp
<1>4. CASE UNCHANGED storeVars
  BY <1>4 DEF storeVars
<1> QED
  BY <1>1, <1>2, <1>3, <1>4

\* What a phase says about the rest of its process.
Shape(p) ==
    /\ pc[p] = Idle => mem[p] = NoToken
    /\ pc[p] \in {"ready", "refresh", "recall"} =>
           cmd[p] \in Session /\ mem[p] # NoToken
    /\ pc[p] = "revoke" => cmd[p] = "logout" /\ mem[p] # NoToken
    /\ pc[p] \in Storing =>
           (cmd[p] = "login" => mem[p] # NoToken) /\ (cmd[p] = "logout" => mem[p] = NoToken)
    /\ pc[p] = "rename" => temp[p] # NoTemp

TypeInv == TypeOK /\ \A p \in Proc : Shape(p)

LEMMA StepTypeInv ==
    ASSUME TypeInv, NEW p \in Proc, Step(p)
    PROVE  TypeInv'
<1> USE DEF TypeInv
<1>0. mem[p] # NoToken => mem[p] \in Token
  BY DEF TypeOK, MaybeToken
<1> DEFINE ProcPart ==
            /\ pc' \in [Proc -> Phase]
            /\ cmd' \in [Proc -> Command]
            /\ at' \in [Proc -> Url]
            /\ mem' \in [Proc -> MaybeToken]
<1>ph. {"ready", "refresh", "recall", "revoke", "store", "rename", Idle} \subseteq Phase
  BY DEF Phase, Storing
<1>mt. NoToken \in MaybeToken /\ Token \subseteq MaybeToken
  BY DEF MaybeToken
<1>1. ASSUME NEW u \in Url, NEW c \in Session \cup {"logout"}, Load(p, u, c)
      PROVE  TypeInv'
  <2>1. Stored(u) \in MaybeToken /\ Stored(u) \in Token
    BY <1>1 DEF Load, TypeOK, StoreTypeOK, Readable, Stored, Root, MaybeToken
  <2>2. ProcPart
    BY <1>1, <2>1, <1>ph, StartsType DEF Load, Command
  <2>3. contested' \subseteq Family
    BY <1>1, <2>1 DEF Load, TypeOK, Token
  <2>4. TypeOK'
    BY <1>1, <2>2, <2>3 DEF Load, TypeOK, serverVars, storeVars, ServerTypeOK, StoreTypeOK
  <2>5. \A q \in Proc : Shape(q)'
    BY <1>1, <1>mt, <2>1, <2>4, NoTokenAssumption DEF Load, Starts, Shape, TypeOK, storeVars, Idle,
       Storing, Session
  <2> QED
    BY <2>4, <2>5
<1>2. ASSUME NEW f \in Family, LoginApproved(p, f)
      PROVE  TypeInv'
  <2>1. [family |-> f, gen |-> 0] \in Token /\ Home[f] \in Url
    BY HomeAssumption DEF Token
  <2>2. ProcPart
    BY <1>2, <2>1, <1>ph, <1>mt, StartsType DEF LoginApproved, Command
  <2>3. ServerTypeOK'
    BY <1>2, <2>1, ServerStepType DEF LoginApproved
  <2>4. TypeOK'
    BY <1>2, <2>2, <2>3 DEF LoginApproved, TypeOK, storeVars, StoreTypeOK
  <2>5. \A q \in Proc : Shape(q)'
    BY <1>2, <2>1, <2>4, NoTokenAssumption DEF LoginApproved, Starts, Shape, TypeOK,
       storeVars, Idle, Storing, Session
  <2> QED
    BY <2>4, <2>5
<1>3. CASE Finish(p) \/ RecallRejected(p) \/ RecallLost(p) \/ RefreshUnserved(p)
  <2>1. ProcPart
    BY <1>3, ExitsType DEF Finish, RecallRejected, RecallLost, RefreshUnserved
  <2>2. TypeOK'
    BY <1>3, <2>1 DEF Finish, RecallRejected, RecallLost, RefreshUnserved, TypeOK,
       serverVars, storeVars, StoreTypeOK, ServerTypeOK
  <2>3. \A q \in Proc : Shape(q)'
    BY <1>3, <2>2 DEF Finish, RecallRejected, RecallLost, RefreshUnserved, Exits, Starts,
       NetworkError, Goes, Shape, TypeOK, storeVars, Idle, Storing, Session
  <2> QED
    BY <2>2, <2>3
<1>4. CASE CallRejected(p) \/ RecallAnswered(p)
  <2>1. ProcPart
    BY <1>4, <1>ph, <1>mt, GoesType DEF CallRejected, RecallAnswered
  <2>2. TypeOK'
    BY <1>4, <2>1 DEF CallRejected, RecallAnswered, TypeOK,
       serverVars, storeVars, StoreTypeOK, ServerTypeOK
  <2>3. \A q \in Proc : Shape(q)'
    BY <1>4, <2>2 DEF CallRejected, RecallAnswered, Goes, Shape, TypeOK, storeVars, Idle,
       Storing, Session
  <2> QED
    BY <2>2, <2>3
<1>5. CASE RefreshRotated(p) \/ RefreshRejected(p)
  <2>1. mem[p] \in Token /\ Successor(mem[p]) \in Token
    BY <1>5, <1>0, SuccessorIsToken DEF RefreshRotated, RefreshRejected, Shape
  <2>2. ProcPart
    BY <1>5, <2>1, <1>ph, <1>mt, GoesType DEF RefreshRotated, RefreshRejected
  <2>3. ServerTypeOK'
    BY <1>5, <2>1, ServerStepType DEF RefreshRotated, RefreshRejected, Token
  <2>4. TypeOK'
    BY <1>5, <2>2, <2>3 DEF RefreshRotated, RefreshRejected, TypeOK, storeVars, StoreTypeOK
  <2>5. \A q \in Proc : Shape(q)'
    BY <1>5, <2>1, <2>4, NoTokenAssumption DEF RefreshRotated, RefreshRejected, GoesHolding,
       Shape, TypeOK, storeVars, Idle, Storing, Session
  <2> QED
    BY <2>4, <2>5
<1>6. CASE RefreshReplyLost(p) \/ RefreshGarbled(p) \/ RejectionLost(p)
  <2>1. mem[p] \in Token
    BY <1>6, <1>0 DEF RefreshReplyLost, RefreshGarbled, RejectionLost, Shape
  <2>2. ProcPart
    BY <1>6, ExitsType DEF RefreshReplyLost, RefreshGarbled, RejectionLost
  <2>3. ServerTypeOK'
    BY <1>6, <2>1, ServerStepType DEF RefreshReplyLost, RefreshGarbled, RejectionLost, Token
  <2>4. TypeOK'
    BY <1>6, <2>1, <2>2, <2>3 DEF RefreshReplyLost, RefreshGarbled, RejectionLost, TypeOK,
       storeVars, StoreTypeOK, Token
  <2>5. \A q \in Proc : Shape(q)'
    BY <1>6, <2>4 DEF RefreshReplyLost, RefreshGarbled, RejectionLost, Exits, Starts,
       NetworkError, Goes, Shape, TypeOK, storeVars, Idle, Storing, Session
  <2> QED
    BY <2>4, <2>5
<1>7. CASE LogoutServed(p) \/ LogoutUnserved(p)
  <2>1. mem[p] \in Token
    BY <1>7, <1>0 DEF LogoutServed, LogoutUnserved, Shape
  <2>2. ProcPart
    BY <1>7, <1>ph, <1>mt, GoesType DEF LogoutServed, LogoutUnserved
  <2>3. ServerTypeOK'
    BY <1>7, <2>1, ServerStepType DEF LogoutServed, LogoutUnserved, Token
  <2>4. TypeOK'
    BY <1>7, <2>2, <2>3 DEF LogoutServed, LogoutUnserved, TypeOK, storeVars, StoreTypeOK
  <2>5. \A q \in Proc : Shape(q)'
    BY <1>7, <2>4 DEF LogoutServed, LogoutUnserved, GoesHolding, Shape, TypeOK, storeVars, Idle,
       Storing, Session
  <2> QED
    BY <2>4, <2>5
<1>8. CASE StoreWritten(p)
  <2>1. at[p] \in Url /\ mem[p] \in MaybeToken
    BY DEF TypeOK
  <2>2. ProcPart
    BY <1>8, <1>ph, <1>mt, GoesType DEF StoreWritten
  <2>3. StoreTypeOK'
    BY <1>8, <2>1, StoreStepType DEF StoreWritten
  <2>4. TypeOK'
    BY <1>8, <2>2, <2>3 DEF StoreWritten, TypeOK, serverVars, ServerTypeOK
  <2>5. temp'[p] # NoTemp
    <3>1. [TolerantRoot EXCEPT ![at[p]] = mem[p]] \in Root
      BY <2>1, TolerantRootIsRoot DEF Root, TypeOK
    <3> QED
      BY <1>8, <3>1, ContentsAssumption DEF StoreWritten, WritesTemp, TypeOK, StoreTypeOK
  <2>6. \A q \in Proc : Shape(q)'
    BY <1>8, <2>4, <2>5 DEF StoreWritten, WritesTemp, Goes, Shape, TypeOK, StoreTypeOK, Idle,
       Storing, Session
  <2> QED
    BY <2>4, <2>6
<1>9. CASE StoreRenamed(p)
  <2>1. NoToken \in MaybeToken /\ NoUrl \in Url
    BY <1>mt, NoUrlIsUrl
  <2>2. ProcPart
    BY <1>9, <1>ph, <1>mt, GoesType, ExitsType DEF StoreRenamed
  <2>3. StoreTypeOK'
    BY <1>9, <2>1, StoreStepType DEF StoreRenamed, Shape
  <2>4. TypeOK'
    BY <1>9, <2>2, <2>3 DEF StoreRenamed, TypeOK, serverVars, ServerTypeOK, PutBack
  <2>5. \A q \in Proc : Shape(q)'
    BY <1>9, <2>4 DEF StoreRenamed, RenamesTemp, Goes, Exits, Starts, Unsaved, Shape, TypeOK,
       StoreTypeOK, Idle, Storing, Session
  <2> QED
    BY <2>4, <2>5
<1>10. CASE StoreFailed(p) \/ Crash(p)
  <2>1. ProcPart
    BY <1>10, ExitsType DEF StoreFailed, Crash
  <2>2. StoreTypeOK'
    BY <1>10, <1>mt, NoUrlIsUrl, StoreStepType DEF StoreFailed, Crash
  <2>3. TypeOK'
    BY <1>0, <1>10, <2>1, <2>2 DEF StoreFailed, Crash, TypeOK, serverVars, ServerTypeOK,
       LosesUnsaved, Unsaved, Token
  <2>4. \A q \in Proc : Shape(q)'
    BY <1>10, <2>3 DEF StoreFailed, Crash, AbandonsTemp, Exits, Starts, Shape, TypeOK,
       StoreTypeOK, Idle, Storing, Session
  <2> QED
    BY <2>3, <2>4
<1> QED
  BY <1>1, <1>2, <1>3, <1>4, <1>5, <1>6, <1>7, <1>8, <1>9, <1>10 DEF Step, Refresh

LEMMA NextTypeInv == TypeInv /\ [Next]_vars => TypeInv'
<1> SUFFICES ASSUME TypeInv, [Next]_vars
             PROVE  TypeInv'
  OBVIOUS
<1>1. CASE \E p \in Proc : Step(p)
  BY <1>1, StepTypeInv
<1>2. ASSUME NEW f \in Family, RevokeFamily(f)
      PROVE  TypeInv'
  <2>1. ServerTypeOK'
    BY <1>2 DEF RevokeFamily, EndsFamily, Revokes, TypeInv, TypeOK, ServerTypeOK
  <2> QED
    BY <1>2, <2>1 DEF RevokeFamily, TypeInv, TypeOK, Shape, storeVars, procVars, StoreTypeOK
<1>3. CASE UNCHANGED vars
  BY <1>3 DEF vars, serverVars, storeVars, procVars, TypeInv, TypeOK, Shape, ServerTypeOK,
     StoreTypeOK
<1> QED
  BY <1>1, <1>2, <1>3 DEF Next

LEMMA InitTypeInv == Init => TypeInv
<1> SUFFICES ASSUME Init
             PROVE  TypeInv
  OBVIOUS
<1>1. TypeOK
  BY InitTypeOK
<1> QED
  BY <1>1 DEF Init, StoreInit, TypeInv, Shape, Idle, Storing

\* Every value stays in its type: in particular no process ever holds or
\* stores anything but a pair some server issued, or nothing.
THEOREM TypeCorrect == Spec => []TypeOK
<1>1. Spec => []TypeInv
  BY InitTypeInv, NextTypeInv, PTL DEF Spec
<1> QED
  BY <1>1, PTL DEF TypeInv

\* Only a rename changes the file, and it installs a complete root.
LEMMA FileChanges ==
    ASSUME TypeInv, Next
    PROVE  file' = file \/ file' \in Root
<1>1. ASSUME NEW p \in Proc, Step(p), ~StoreRenamed(p) PROVE file' = file
  BY <1>1 DEF Step, Refresh, Load, LoginApproved, Finish, CallRejected, RefreshRotated,
     RefreshReplyLost, RefreshGarbled, RefreshRejected, RejectionLost, RefreshUnserved,
     RecallAnswered, RecallRejected, RecallLost, LogoutServed, LogoutUnserved, StoreWritten,
     StoreFailed, Crash, WritesTemp, AbandonsTemp, storeVars
<1>2. ASSUME NEW p \in Proc, StoreRenamed(p) PROVE file' \in Root
  BY <1>2 DEF StoreRenamed, RenamesTemp, Complete, TypeInv, Shape, TypeOK, StoreTypeOK
<1>3. ASSUME NEW f \in Family, RevokeFamily(f) PROVE file' = file
  BY <1>3 DEF RevokeFamily, storeVars
<1> QED
  BY <1>1, <1>2, <1>3 DEF Next

\* However many processes write, fail and crash, a file that could be read
\* never becomes one that cannot (writeFileAtomic in platform/atomic_file.cpp).
THEOREM StaysReadable == Spec => NeverTorn
<1>1. TypeInv /\ [Next]_vars => [file # Malformed => file' # Malformed]_file
  BY FileChanges, ContentsAssumption DEF vars, storeVars
<1>2. Spec => []TypeInv
  BY InitTypeInv, NextTypeInv, PTL DEF Spec
<1> QED
  BY <1>1, <1>2, PTL DEF Spec, NeverTorn

-----------------------------------------------------------------------------
(***************************************************************************)
(* Every replay has a cause, whatever the interleaving                     *)
(***************************************************************************)

Excused(f) == f \in lost \cup contested

\* The token a root keeps for u, if any, satisfies P's family test.
IssuedAtHome(t, u) == t # NoToken => t.family \in issued /\ Home[t.family] = u

\* Pairs in memory, in the file and in a temporary file come from a server
\* the pair is filed under; unissued families have not rotated.
Provenance ==
    /\ \A p \in Proc : IssuedAtHome(mem[p], at[p])
    /\ file # Malformed => \A u \in Url : IssuedAtHome(file[u], u)
    /\ \A p \in Proc : pc[p] = "rename" /\ Complete(p) =>
            /\ temp[p] \in Root
            /\ \A u \in Url : IssuedAtHome(temp[p][u], u)
            /\ temp[p][at[p]] = mem[p]
    /\ \A f \in Family \ issued : current[f] = 0

\* Two processes hold one family only if it is contested.
SharedIsContested ==
    \A p, q \in Proc :
        p # q /\ mem[p] # NoToken /\ mem[q] # NoToken /\ mem[p].family = mem[q].family
            => mem[p].family \in contested

\* A process holds a spent pair only with a cause.
HeldPairUsable ==
    \A p \in Proc : mem[p] # NoToken /\ Spent(mem[p]) => Excused(mem[p].family)

CauseInv ==
    /\ Provenance
    /\ SharedIsContested
    /\ HeldPairUsable
    /\ StoredPairUsable
    /\ ReplayHasCause

\* Steps of p that only move it to another phase, keep what it holds, and
\* leave the server, the file and the history alone.
Moves(p) ==
    /\ \E phase \in {"ready", "refresh"} : Goes(p, phase) /\ pc[p] # "idle" /\ pc[p] \notin Storing
    /\ UNCHANGED <<serverVars, storeVars, lost, contested>>

\* Steps that end p without touching the server or the file.
Ends(p) ==
    /\ pc[p] \notin Storing
    /\ Exits(p)
    /\ UNCHANGED <<serverVars, storeVars, lost, contested>>

LEMMA QuietSteps ==
    ASSUME NEW p \in Proc,
           \/ Finish(p) \/ CallRejected(p) \/ RecallAnswered(p) \/ RecallRejected(p)
           \/ RecallLost(p) \/ RefreshUnserved(p)
    PROVE  Moves(p) \/ Ends(p)
BY DEF Finish, CallRejected, RecallAnswered, RecallRejected, RecallLost, RefreshUnserved,
       NetworkError, Moves, Ends, Storing

LEMMA StepProvenance ==
    ASSUME TypeInv, Provenance, NEW p \in Proc, Step(p)
    PROVE  Provenance'
<1> USE DEF Provenance, IssuedAtHome, Complete
<1>0. TypeOK /\ Shape(p)
  BY DEF TypeInv
<1>1. CASE Moves(p) \/ Ends(p)
  BY <1>0, <1>1 DEF Moves, Ends, Goes, Exits, Starts, serverVars, storeVars, TypeOK, Idle, Storing
<1>2. ASSUME NEW u \in Url, NEW c \in Session \cup {"logout"}, Load(p, u, c)
      PROVE  Provenance'
  BY <1>0, <1>2 DEF Load, Readable, Stored, Starts, serverVars, storeVars, TypeOK, Idle, Storing
<1>3. ASSUME NEW f \in Family, LoginApproved(p, f)
      PROVE  Provenance'
  BY <1>0, <1>3 DEF LoginApproved, Issues, Starts, storeVars, TypeOK, Idle, Storing, ServerTypeOK
<1>4. CASE RefreshRotated(p)
  BY <1>0, <1>4 DEF RefreshRotated, Rotates, GoesHolding, Successor, storeVars, TypeOK, Shape,
     ServerTypeOK, Idle, Storing, Token, MaybeToken
<1>5. CASE RefreshReplyLost(p) \/ RefreshGarbled(p)
  BY <1>0, <1>5 DEF RefreshReplyLost, RefreshGarbled, Rotates, NetworkError, Goes, Exits, Starts,
     storeVars, TypeOK, Shape, ServerTypeOK, Idle, Storing, Token, MaybeToken
<1>6. CASE RefreshRejected(p) \/ RejectionLost(p)
  BY <1>0, <1>6 DEF RefreshRejected, RejectionLost, Rejects, Revokes, NetworkError, Goes, GoesHolding,
     Exits, Starts, storeVars, TypeOK, Shape, Idle, Storing
<1>7. CASE LogoutServed(p) \/ LogoutUnserved(p)
  BY <1>0, <1>7 DEF LogoutServed, LogoutUnserved, EndsFamily, Revokes, GoesHolding, serverVars,
     storeVars, TypeOK, Shape, Idle, Storing
<1>8. CASE StoreWritten(p)
  <2>1. \A u \in Url : IssuedAtHome(TolerantRoot[u], u)
    BY <1>0 DEF TolerantRoot, Readable, EmptyRoot
  <2>2. TolerantRoot \in Root /\ [TolerantRoot EXCEPT ![at[p]] = mem[p]] \in Root
    BY <1>0, TolerantRootIsRoot DEF TypeOK, Root
  <2>3. /\ pc'[p] = "rename"
        /\ \A q \in Proc \ {p} : pc'[q] = pc[q] /\ temp'[q] = temp[q]
        /\ temp'[p] # Malformed => temp'[p] = [TolerantRoot EXCEPT ![at[p]] = mem[p]]
        /\ UNCHANGED <<file, cmd, at, mem, issued, current>>
    BY <1>0, <1>8 DEF StoreWritten, WritesTemp, Goes, TypeOK, StoreTypeOK, serverVars
  <2>4. ASSUME temp'[p] # Malformed
        PROVE  /\ temp'[p] \in Root
               /\ \A u \in Url : IssuedAtHome(temp'[p][u], u)
               /\ temp'[p][at[p]] = mem[p]
    <3>1. temp'[p] = [TolerantRoot EXCEPT ![at[p]] = mem[p]]
      BY <2>3, <2>4
    <3>2. \A u \in Url : temp'[p][u] = IF u = at[p] THEN mem[p] ELSE TolerantRoot[u]
      BY <2>2, <3>1 DEF Root
    <3>3. at[p] \in Url /\ IssuedAtHome(mem[p], at[p])
      BY <1>0 DEF TypeOK
    <3>4. temp'[p] \in Root
      BY <2>2, <3>1
    <3>5. \A u \in Url : IssuedAtHome(temp'[p][u], u)
      BY <2>1, <3>2, <3>3
    <3> QED
      BY <3>2, <3>3, <3>4, <3>5
  <2> QED
    BY <2>3, <2>4
<1>9. CASE StoreRenamed(p)
  BY <1>0, <1>9 DEF StoreRenamed, RenamesTemp, Goes, Exits, Starts, serverVars, TypeOK, StoreTypeOK,
     Idle, Storing
<1>10. CASE StoreFailed(p) \/ Crash(p)
  BY <1>0, <1>10 DEF StoreFailed, Crash, AbandonsTemp, Exits, Starts, serverVars, TypeOK,
     StoreTypeOK, Idle, Storing
<1> QED
  BY <1>1, <1>2, <1>3, <1>4, <1>5, <1>6, <1>7, <1>8, <1>9, <1>10, QuietSteps DEF Step, Refresh

LEMMA StepShared ==
    ASSUME TypeInv, Provenance, SharedIsContested, NEW p \in Proc, Step(p)
    PROVE  SharedIsContested'
<1>0. TypeOK /\ Shape(p)
  BY DEF TypeInv
<1>s. \A q, r \in Proc :
          q # r /\ mem[q] # NoToken /\ mem[r] # NoToken /\ mem[q].family = mem[r].family
              => mem[q].family \in contested
  BY DEF SharedIsContested
\* It is enough that the others keep their pairs, contested only grows, and
\* a family p takes up is contested when another process holds it.
<1>g. ASSUME contested \subseteq contested',
             \A q \in Proc \ {p} : mem'[q] = mem[q],
             mem'[p] # NoToken =>
                 \/ mem[p] # NoToken /\ mem'[p].family = mem[p].family
                 \/ \A q \in Proc \ {p} :
                        mem[q] # NoToken /\ mem[q].family = mem'[p].family
                            => mem'[p].family \in contested'
      PROVE  SharedIsContested'
  BY <1>g, <1>s DEF SharedIsContested
<1>1. CASE Moves(p) \/ Ends(p)
  BY <1>0, <1>1, <1>g DEF Moves, Ends, Goes, Exits, Starts, TypeOK
<1>2. ASSUME NEW u \in Url, NEW c \in Session \cup {"logout"}, Load(p, u, c)
      PROVE  SharedIsContested'
  <2>1. Stored(u) \in Token
    BY <1>0, <1>2 DEF Load, TypeOK, StoreTypeOK, Readable, Stored, Root, MaybeToken
  <2>2. mem'[p] = Stored(u) /\ \A q \in Proc \ {p} : mem'[q] = mem[q]
    BY <1>0, <1>2 DEF Load, Starts, TypeOK
  <2>3. \A q \in Proc \ {p} : mem[q] # NoToken /\ mem[q].family = Stored(u).family
            => Stored(u).family \in contested'
    BY <1>2, <2>1 DEF Load, HeldByOthers, Token
  <2> QED
    BY <1>2, <1>g, <2>2, <2>3 DEF Load
<1>3. ASSUME NEW f \in Family, LoginApproved(p, f)
      PROVE  SharedIsContested'
  <2>1. mem'[p].family = f /\ \A q \in Proc \ {p} : mem'[q] = mem[q]
    BY <1>0, <1>3 DEF LoginApproved, Starts, TypeOK
  <2>2. \A q \in Proc : mem[q] # NoToken => mem[q].family # f
    BY <1>3 DEF LoginApproved, Issues, Provenance, IssuedAtHome
  <2> QED
    BY <1>3, <1>g, <2>1, <2>2 DEF LoginApproved
<1>4. CASE RefreshRotated(p)
  <2>1. mem[p] \in Token /\ Successor(mem[p]).family = mem[p].family
    BY <1>0, <1>4, SuccessorIsToken DEF RefreshRotated, Shape, TypeOK, MaybeToken
  <2> QED
    BY <1>0, <1>4, <1>g, <2>1 DEF RefreshRotated, GoesHolding, TypeOK, Shape
<1>5. CASE RefreshReplyLost(p) \/ RefreshGarbled(p) \/ RefreshRejected(p) \/ RejectionLost(p)
  BY <1>0, <1>5, <1>g DEF RefreshReplyLost, RefreshGarbled, RefreshRejected, RejectionLost,
     NetworkError, Goes, GoesHolding, Exits, Starts, TypeOK
<1>6. CASE LogoutServed(p) \/ LogoutUnserved(p)
  BY <1>0, <1>6, <1>g DEF LogoutServed, LogoutUnserved, GoesHolding, TypeOK
<1>7. CASE StoreWritten(p) \/ StoreRenamed(p) \/ StoreFailed(p) \/ Crash(p)
  BY <1>0, <1>7, <1>g DEF StoreWritten, StoreRenamed, StoreFailed, Crash, Goes, Exits, Starts, TypeOK
<1> QED
  BY <1>1, <1>2, <1>3, <1>4, <1>5, <1>6, <1>7, QuietSteps DEF Step, Refresh

LEMMA StepHeld ==
    ASSUME TypeInv, Provenance, SharedIsContested, HeldPairUsable, StoredPairUsable,
           NEW p \in Proc, Step(p)
    PROVE  HeldPairUsable'
<1> USE DEF HeldPairUsable, Excused, Spent
<1>0. TypeOK /\ Shape(p)
  BY DEF TypeInv
<1>1. CASE Moves(p) \/ Ends(p)
  BY <1>0, <1>1 DEF Moves, Ends, Goes, Exits, Starts, serverVars, TypeOK
<1>2. ASSUME NEW u \in Url, NEW c \in Session \cup {"logout"}, Load(p, u, c)
      PROVE  HeldPairUsable'
  <2>1. Stored(u) \in Token
    BY <1>0, <1>2 DEF Load, TypeOK, StoreTypeOK, Readable, Stored, Root, MaybeToken
  <2>2. mem' = [mem EXCEPT ![p] = Stored(u)] /\ UNCHANGED <<current, lost>>
    BY <1>2 DEF Load, Starts, serverVars
  <2>3. contested \subseteq contested'
    BY <1>2 DEF Load
  <2>4. Spent(Stored(u)) => Stored(u).family \in lost \cup contested'
    <3>1. SUFFICES ASSUME NEW q \in Proc, Unsaved(q), mem[q].family = Stored(u).family
                   PROVE  Stored(u).family \in contested'
      BY <1>2, <2>3 DEF StoredPairUsable, Load
    <3>2. q # p /\ mem[q] # NoToken
      BY <1>2, <3>1 DEF Load, MayStart, Active, Unsaved, Idle, Storing
    <3>3. Stored(u).family \in HeldByOthers(p)
      BY <2>1, <3>1, <3>2 DEF HeldByOthers, Token
    <3> QED
      BY <1>2, <3>3 DEF Load
  <2> QED
    BY <1>0, <2>2, <2>3, <2>4 DEF TypeOK
<1>3. ASSUME NEW f \in Family, LoginApproved(p, f)
      PROVE  HeldPairUsable'
  <2>1. current[f] = 0 /\ UNCHANGED <<current, lost, contested>>
    BY <1>3 DEF LoginApproved, Issues, Provenance
  <2> QED
    BY <1>0, <1>3, <2>1 DEF LoginApproved, Starts, TypeOK
<1>4. CASE RefreshRotated(p)
  <2>1. mem[p] \in Token
    BY <1>0, <1>4 DEF RefreshRotated, Shape, TypeOK, MaybeToken
  <2>2. /\ current' = [current EXCEPT ![mem[p].family] = mem[p].gen + 1]
        /\ mem' = [mem EXCEPT ![p] = Successor(mem[p])]
        /\ UNCHANGED <<lost, contested>>
    BY <1>4 DEF RefreshRotated, Rotates, GoesHolding
  <2>3. \A q \in Proc \ {p} : mem[q] # NoToken /\ mem[q].family = mem[p].family
            => mem[q].family \in contested
    BY <1>0, <1>4 DEF SharedIsContested, RefreshRotated, Shape
  <2> QED
    BY <1>0, <2>1, <2>2, <2>3 DEF TypeOK, ServerTypeOK, Successor, Token, MaybeToken
<1>5. CASE RefreshReplyLost(p) \/ RefreshGarbled(p)
  <2>1. mem[p] \in Token
    BY <1>0, <1>5 DEF RefreshReplyLost, RefreshGarbled, Shape, TypeOK, MaybeToken
  <2>2. /\ current' = [current EXCEPT ![mem[p].family] = mem[p].gen + 1]
        /\ \A q \in Proc : mem'[q] \in {mem[q], NoToken}
        /\ lost' = lost \cup {mem[p].family}
        /\ UNCHANGED contested
    BY <1>0, <1>5 DEF RefreshReplyLost, RefreshGarbled, Rotates, NetworkError, Goes, Exits, Starts,
       TypeOK
  <2> QED
    BY <1>0, <2>1, <2>2 DEF TypeOK, ServerTypeOK, Token, MaybeToken
<1>6. CASE RefreshRejected(p) \/ RejectionLost(p) \/ LogoutServed(p) \/ LogoutUnserved(p)
  <2>1. /\ \A q \in Proc : mem'[q] \in {mem[q], NoToken}
        /\ UNCHANGED <<current, lost, contested>>
    BY <1>0, <1>6 DEF RefreshRejected, RejectionLost, LogoutServed, LogoutUnserved, Rejects, Revokes,
       EndsFamily, NetworkError, Goes, GoesHolding, Exits, Starts, serverVars, TypeOK
  <2> QED
    BY <2>1
<1>7. CASE StoreWritten(p) \/ StoreRenamed(p) \/ StoreFailed(p) \/ Crash(p)
  <2>1. /\ \A q \in Proc : mem'[q] \in {mem[q], NoToken}
        /\ UNCHANGED current
        /\ lost \subseteq lost'
        /\ contested \subseteq contested'
    BY <1>0, <1>7 DEF StoreWritten, StoreRenamed, StoreFailed, Crash, Goes, Exits, Starts,
       LosesUnsaved, serverVars, TypeOK
  <2> QED
    BY <2>1
<1> QED
  BY <1>1, <1>2, <1>3, <1>4, <1>5, <1>6, <1>7, QuietSteps DEF Step, Refresh

\* What a step may do to the history and to the server's revocations.
LEMMA StepReplay ==
    ASSUME TypeInv, HeldPairUsable, ReplayHasCause, NEW p \in Proc, Step(p)
    PROVE  ReplayHasCause'
<1> USE DEF ReplayHasCause
<1>0. TypeOK /\ Shape(p)
  BY DEF TypeInv
<1>1. CASE RefreshRejected(p) \/ RejectionLost(p)
  <2>1. mem[p] # NoToken
    BY <1>0, <1>1 DEF RefreshRejected, RejectionLost, Shape
  <2>2. Spent(mem[p]) => mem[p].family \in lost \cup contested
    BY <2>1 DEF HeldPairUsable, Excused
  <2>3. Rejects(mem[p]) /\ UNCHANGED <<lost, contested>>
    BY <1>1 DEF RefreshRejected, RejectionLost
  <2> QED
    BY <2>2, <2>3 DEF Rejects
<1>2. CASE ~(RefreshRejected(p) \/ RejectionLost(p))
  <2>1. UNCHANGED replayed /\ lost \subseteq lost' /\ contested \subseteq contested'
    BY <1>2 DEF Step, Refresh, Load, LoginApproved, Finish, CallRejected, RefreshRotated,
       RefreshReplyLost, RefreshGarbled, RefreshUnserved, RecallAnswered, RecallRejected,
       RecallLost, LogoutServed, LogoutUnserved, StoreWritten, StoreRenamed, StoreFailed, Crash,
       Issues, Rotates, EndsFamily, LosesUnsaved, serverVars
  <2> QED
    BY <2>1
<1> QED
  BY <1>1, <1>2

LEMMA StepStored ==
    ASSUME TypeInv, Provenance, HeldPairUsable, StoredPairUsable, NEW p \in Proc, Step(p)
    PROVE  StoredPairUsable'
<1> USE DEF StoredPairUsable, Spent, Readable, Stored
<1>0. TypeOK /\ Shape(p)
  BY DEF TypeInv
\* A step that leaves the file and the generations alone, keeps causes, and
\* stops nobody from saving without a cause.
<1>g. ASSUME UNCHANGED <<file, current>>, lost \subseteq lost', contested \subseteq contested',
             \A q \in Proc \ {p} : Unsaved(q) => Unsaved(q)' /\ mem'[q] = mem[q],
             Unsaved(p) => \/ Unsaved(p)' /\ mem'[p] = mem[p]
                           \/ mem[p].family \in lost'
      PROVE  StoredPairUsable'
  BY <1>g
<1>1. CASE Moves(p) \/ Ends(p)
  BY <1>0, <1>1, <1>g DEF Moves, Ends, Goes, Exits, Starts, serverVars, storeVars, TypeOK, Unsaved
<1>2. ASSUME NEW u \in Url, NEW c \in Session \cup {"logout"}, Load(p, u, c)
      PROVE  StoredPairUsable'
  BY <1>0, <1>2, <1>g DEF Load, MayStart, Active, Starts, serverVars, storeVars, TypeOK, Unsaved,
     Idle, Storing
<1>3. ASSUME NEW f \in Family, LoginApproved(p, f)
      PROVE  StoredPairUsable'
  BY <1>0, <1>3, <1>g DEF LoginApproved, MayStart, Active, Issues, Starts, storeVars, TypeOK, Unsaved,
     Idle, Storing
<1>4. CASE RefreshRotated(p)
  <2>1. mem[p] \in Token /\ cmd[p] \in Session
    BY <1>0, <1>4 DEF RefreshRotated, Shape, TypeOK, MaybeToken
  <2>2. Unsaved(p)' /\ mem'[p].family = mem[p].family
    BY <1>0, <1>4, <2>1, SuccessorIsToken, NoTokenAssumption
       DEF RefreshRotated, GoesHolding, TypeOK, Unsaved, Storing
  <2>3. /\ current' = [current EXCEPT ![mem[p].family] = mem[p].gen + 1]
        /\ \A q \in Proc \ {p} : Unsaved(q) => Unsaved(q)' /\ mem'[q] = mem[q]
        /\ ~Unsaved(p)
        /\ UNCHANGED <<file, lost, contested>>
    BY <1>0, <1>4 DEF RefreshRotated, Rotates, GoesHolding, storeVars, TypeOK, Unsaved, Storing
  <2>4. ASSUME file # Malformed, NEW u \in Url, file[u] # NoToken,
               file[u].gen < current'[file[u].family]
        PROVE  \/ file[u].family \in lost \cup contested
               \/ \E q \in Proc : Unsaved(q)' /\ mem'[q].family = file[u].family
    <3>1. CASE file[u].family = mem[p].family
      BY <2>2, <3>1
    <3>2. CASE file[u].family # mem[p].family
      <4>1. file[u] \in Token
        BY <1>0, <2>4 DEF TypeOK, StoreTypeOK, Root, MaybeToken
      <4>2. current'[file[u].family] = current[file[u].family]
        BY <1>0, <2>3, <3>2, <4>1 DEF TypeOK, ServerTypeOK, Token
      <4> QED
        BY <2>3, <2>4, <4>2
    <3> QED
      BY <3>1, <3>2
  <2> QED
    BY <2>3, <2>4
<1>5. CASE RefreshReplyLost(p) \/ RefreshGarbled(p)
  <2>1. mem[p] \in Token
    BY <1>0, <1>5 DEF RefreshReplyLost, RefreshGarbled, Shape, TypeOK, MaybeToken
  <2>2. /\ current' = [current EXCEPT ![mem[p].family] = mem[p].gen + 1]
        /\ \A q \in Proc \ {p} : Unsaved(q) => Unsaved(q)' /\ mem'[q] = mem[q]
        /\ ~Unsaved(p)
        /\ lost' = lost \cup {mem[p].family}
        /\ UNCHANGED <<file, contested>>
    BY <1>0, <1>5 DEF RefreshReplyLost, RefreshGarbled, Rotates, NetworkError, Goes, Exits, Starts,
       storeVars, TypeOK, Unsaved, Storing
  <2>3. ASSUME file # Malformed, NEW u \in Url, file[u] # NoToken,
               file[u].gen < current'[file[u].family]
        PROVE  \/ file[u].family \in lost' \cup contested
               \/ \E q \in Proc : Unsaved(q)' /\ mem'[q].family = file[u].family
    <3>1. CASE file[u].family = mem[p].family
      BY <2>2, <3>1
    <3>2. CASE file[u].family # mem[p].family
      <4>1. file[u] \in Token
        BY <1>0, <2>3 DEF TypeOK, StoreTypeOK, Root, MaybeToken
      <4>2. current'[file[u].family] = current[file[u].family]
        BY <1>0, <2>2, <3>2, <4>1 DEF TypeOK, ServerTypeOK, Token
      <4> QED
        BY <2>2, <2>3, <4>2
    <3> QED
      BY <3>1, <3>2
  <2> QED
    BY <2>2, <2>3
<1>6. CASE RefreshRejected(p) \/ RejectionLost(p) \/ LogoutServed(p) \/ LogoutUnserved(p)
  BY <1>0, <1>6, <1>g DEF RefreshRejected, RejectionLost, LogoutServed, LogoutUnserved, Rejects,
     Revokes, EndsFamily, NetworkError, Goes, GoesHolding, Exits, Starts, serverVars, storeVars,
     TypeOK, Unsaved, Storing
<1>7. CASE StoreWritten(p)
  BY <1>0, <1>7, <1>g DEF StoreWritten, WritesTemp, Goes, serverVars, TypeOK, Unsaved, Storing
<1>8. CASE StoreFailed(p) \/ Crash(p)
  BY <1>0, <1>8, <1>g DEF StoreFailed, Crash, AbandonsTemp, LosesUnsaved, Exits, Starts, serverVars,
     TypeOK, Unsaved, Storing
<1>9. CASE StoreRenamed(p)
  <2>1. /\ temp[p] \in Root
        /\ \A u \in Url : IssuedAtHome(temp[p][u], u)
        /\ temp[p][at[p]] = mem[p]
        /\ at[p] \in Url /\ IssuedAtHome(mem[p], at[p])
    BY <1>0, <1>9 DEF StoreRenamed, Provenance, TypeOK
  <2>2. /\ file' = temp[p]
        /\ contested' = contested \cup PutBack(p)
        /\ \A q \in Proc \ {p} : Unsaved(q) => Unsaved(q)' /\ mem'[q] = mem[q]
        /\ UNCHANGED <<current, lost>>
    BY <1>0, <1>9 DEF StoreRenamed, RenamesTemp, Goes, Exits, Starts, serverVars, TypeOK, Unsaved
  <2>3. ASSUME NEW u \in Url, temp[p][u] # NoToken,
               temp[p][u].gen < current[temp[p][u].family]
        PROVE  \/ temp[p][u].family \in lost \cup contested'
               \/ \E q \in Proc : Unsaved(q)' /\ mem'[q].family = temp[p][u].family
    <3>1. temp[p][u] \in Token
      BY <2>1, <2>3 DEF Root, MaybeToken
    <3>2. CASE file # Malformed => temp[p][u] # file[u]
      <4>1. temp[p][u].family \in PutBack(p)
        BY <2>3, <3>1, <3>2 DEF PutBack, Token
      <4> QED
        BY <2>2, <4>1
    <3>3. CASE file # Malformed /\ temp[p][u] = file[u]
      <4>1. \/ temp[p][u].family \in lost \cup contested
            \/ \E q \in Proc : Unsaved(q) /\ mem[q].family = temp[p][u].family
        BY <2>3, <3>3
      <4>2. CASE Unsaved(p) /\ mem[p].family = temp[p][u].family
        <5>1. u = at[p] /\ mem[p] = temp[p][u]
          BY <2>1, <2>3, <4>2 DEF IssuedAtHome, Unsaved
        <5> QED
          BY <2>2, <2>3, <5>1 DEF HeldPairUsable, Excused
      <4> QED
        BY <2>2, <4>1, <4>2
    <3> QED
      BY <3>2, <3>3
  <2> QED
    BY <2>2, <2>3
<1> QED
  BY <1>1, <1>2, <1>3, <1>4, <1>5, <1>6, <1>7, <1>8, <1>9, QuietSteps DEF Step, Refresh

LEMMA InitCauseInv == Init => CauseInv
<1> SUFFICES ASSUME Init
             PROVE  CauseInv
  OBVIOUS
<1>1. \A p \in Proc : mem[p] = NoToken /\ pc[p] # "rename"
  BY DEF Init, Idle
<1>2. file # Malformed => \A u \in Url : file[u] = NoToken
  BY DEF Init, StoreInit, EmptyRoot
<1>3. replayed = {} /\ \A f \in Family : current[f] = 0
  BY DEF Init, ServerInit
<1> QED
  BY <1>1, <1>2, <1>3 DEF CauseInv, Provenance, IssuedAtHome, SharedIsContested, HeldPairUsable,
     StoredPairUsable, Readable, Stored, ReplayHasCause

LEMMA NextCauseInv == TypeInv /\ CauseInv /\ [Next]_vars => CauseInv'
<1> SUFFICES ASSUME TypeInv, CauseInv, [Next]_vars
             PROVE  CauseInv'
  OBVIOUS
<1>1. CASE \E p \in Proc : Step(p)
  BY <1>1, StepProvenance, StepShared, StepHeld, StepStored, StepReplay DEF CauseInv
<1>2. CASE (\E f \in Family : RevokeFamily(f)) \/ UNCHANGED vars
  <2>1. UNCHANGED <<issued, current, replayed, storeVars, procVars, lost, contested>>
    BY <1>2 DEF RevokeFamily, EndsFamily, Revokes, vars, serverVars
  <2> QED
    BY <2>1 DEF storeVars, procVars, CauseInv, Provenance, IssuedAtHome, Complete,
       SharedIsContested, HeldPairUsable, Excused, StoredPairUsable, Readable, Stored, Spent,
       Unsaved, ReplayHasCause
<1> QED
  BY <1>1, <1>2 DEF Next

LEMMA CauseInvariant == Spec => []CauseInv
<1>1. Spec => []TypeInv
  BY InitTypeInv, NextTypeInv, PTL DEF Spec
<1> QED
  BY <1>1, InitCauseInv, NextCauseInv, PTL DEF Spec

\* Under every interleaving of any number of processes, crashes and lost
\* messages, a family is revoked for a replay only if its last rotation was
\* lost on the way to the file, two processes held it at once, or an older
\* pair was written back over a newer one.
THEOREM ReplayCause == Spec => []ReplayHasCause
BY CauseInvariant, PTL DEF CauseInv

\* The pair the file holds can be refreshed, with the same three exceptions
\* and while its successor is being saved.
THEOREM StoredPairs == Spec => []StoredPairUsable
BY CauseInvariant, PTL DEF CauseInv

\* No interleaving of whole-file rewrites files a pair under a server that
\* did not issue it, or has a process present it to another one.
THEOREM Isolation == Spec => []TokenAtHome
<1>1. CauseInv => TokenAtHome
  BY DEF CauseInv, Provenance, IssuedAtHome, TokenAtHome, Readable, Stored
<1> QED
  BY <1>1, CauseInvariant, PTL

-----------------------------------------------------------------------------
(***************************************************************************)
(* Commands that do not overlap: the credentials file implements one       *)
(* register per server (SessionRegister).  Crashes, lost messages and      *)
(* failed writes remain.                                                   *)
(***************************************************************************)

\* One process is active at most, so what it loaded is still what the file
\* has, until the rename of the root it computed from that file.
Alone ==
    \A p, q \in Proc : p # q => pc[p] = Idle \/ pc[q] = Idle

InStep(p) ==
    pc[p] \in {"ready", "refresh", "recall", "revoke"} => Readable /\ Stored(at[p]) = mem[p]

Pending(p) ==
    pc[p] \in Storing =>
        /\ cmd[p] = "login" => mem[p].gen = 0
        /\ cmd[p] \in Session /\ mem[p] # NoToken =>
               /\ Readable
               /\ Stored(at[p]) # NoToken
               /\ mem[p] = Successor(Stored(at[p]))
        /\ cmd[p] \in Session /\ mem[p] = NoToken /\ Readable /\ Stored(at[p]) # NoToken =>
               Stored(at[p]).family \in revoked

Snapshot(p) ==
    pc[p] = "rename" /\ Complete(p) => temp[p] = [TolerantRoot EXCEPT ![at[p]] = mem[p]]

ExclusiveInv ==
    /\ Alone
    /\ \A p \in Proc : InStep(p) /\ Pending(p) /\ Snapshot(p)

\* A step of p is a step of one process among idle ones.
LEMMA StepAlone ==
    ASSUME ~Overlap, TypeInv, Alone, NEW p \in Proc, Step(p)
    PROVE  /\ \A q \in Proc \ {p} : pc[q] = Idle /\ pc'[q] = Idle
           /\ Alone'
<1>1. \A q \in Proc \ {p} : pc[q] = Idle
  <2>1. MayStart(p) \/ pc[p] # Idle
    BY DEF Step, Refresh, Load, LoginApproved, Finish, CallRejected, RefreshRotated,
       RefreshReplyLost, RefreshGarbled, RefreshRejected, RejectionLost, RefreshUnserved,
       RecallAnswered, RecallRejected, RecallLost, LogoutServed, LogoutUnserved, StoreWritten,
       StoreRenamed, StoreFailed, Crash, Active, Idle, Storing
  <2> QED
    BY <2>1 DEF MayStart, Active, Alone
<1>2. \A q \in Proc \ {p} : pc'[q] = pc[q]
  BY DEF TypeInv, TypeOK, Step, Refresh, Load, LoginApproved, Finish, CallRejected, RefreshRotated,
     RefreshReplyLost, RefreshGarbled, RefreshRejected, RejectionLost, RefreshUnserved,
     RecallAnswered, RecallRejected, RecallLost, LogoutServed, LogoutUnserved, StoreWritten,
     StoreRenamed, StoreFailed, Crash, NetworkError, Goes, GoesHolding, Exits, Starts
<1> QED
  BY <1>1, <1>2 DEF Alone

LEMMA StepExclusive ==
    ASSUME ~Overlap, TypeInv, Provenance, ExclusiveInv, NEW p \in Proc, Step(p)
    PROVE  ExclusiveInv'
<1> USE DEF InStep, Pending, Snapshot, Readable, Stored, Complete
<1>0. TypeOK /\ Shape(p) /\ InStep(p) /\ Pending(p) /\ Snapshot(p)
  BY DEF TypeInv, ExclusiveInv
<1>a. (\A q \in Proc \ {p} : pc[q] = Idle /\ pc'[q] = Idle) /\ Alone'
  BY StepAlone DEF ExclusiveInv
\* Idle processes are in step trivially, so p's own part is what remains.
<1>g. ASSUME InStep(p)', Pending(p)', Snapshot(p)'
      PROVE  ExclusiveInv'
  BY <1>a, <1>g DEF ExclusiveInv, Idle, Storing
<1>1. CASE Moves(p) \/ Ends(p)
  <2>1. CASE Moves(p)
    <3>1. /\ pc'[p] \in {"ready", "refresh"} /\ pc'[p] \notin Storing
          /\ UNCHANGED <<file, temp, at, mem, cmd>>
      BY <1>0, <2>1 DEF Moves, Goes, storeVars, TypeOK, Storing
    <3>2. pc[p] \in {"ready", "refresh", "recall", "revoke"}
      BY <1>0, <2>1 DEF Moves, TypeOK, Phase, Idle
    <3>3. InStep(p)'
      BY <1>0, <3>1, <3>2
    <3> QED
      BY <1>g, <3>1, <3>3 DEF Storing
  <2>2. CASE Ends(p)
    BY <1>0, <2>2, <1>g DEF Ends, Exits, Starts, TypeOK, Idle, Storing
  <2> QED
    BY <1>1, <2>1, <2>2
<1>2. ASSUME NEW u \in Url, NEW c \in Session \cup {"logout"}, Load(p, u, c)
      PROVE  ExclusiveInv'
  BY <1>0, <1>2, <1>g DEF Load, Starts, storeVars, TypeOK, Idle, Storing
<1>3. ASSUME NEW f \in Family, LoginApproved(p, f)
      PROVE  ExclusiveInv'
  BY <1>0, <1>3, <1>g DEF LoginApproved, Starts, storeVars, TypeOK, Idle, Storing, Session
<1>4. CASE RefreshRotated(p) \/ RefreshRejected(p)
  <2>1. mem[p] \in Token /\ cmd[p] \in Session
    BY <1>0, <1>4 DEF RefreshRotated, RefreshRejected, Shape, TypeOK, MaybeToken
  <2>2. pc'[p] = "store" /\ UNCHANGED <<file, temp, cmd, at>>
    BY <1>0, <1>4 DEF RefreshRotated, RefreshRejected, GoesHolding, storeVars, TypeOK
  <2>3. file # Malformed /\ file[at[p]] = mem[p] /\ cmd[p] # "login"
    BY <1>0, <1>4, <2>1 DEF RefreshRotated, RefreshRejected, Session
  <2>4. \/ mem'[p] = Successor(mem[p])
        \/ mem'[p] = NoToken /\ mem[p].family \in revoked'
    BY <1>0, <1>4 DEF RefreshRotated, RefreshRejected, Rejects, Revokes, GoesHolding, TypeOK
  <2>5. Successor(mem[p]) # NoToken /\ mem[p] # NoToken
    BY <2>1, SuccessorIsToken, NoTokenAssumption
  <2> QED
    BY <1>g, <2>1, <2>2, <2>3, <2>4, <2>5 DEF Storing
<1>5. CASE RefreshReplyLost(p) \/ RefreshGarbled(p) \/ RejectionLost(p)
  BY <1>0, <1>5, <1>g DEF RefreshReplyLost, RefreshGarbled, RejectionLost, NetworkError, Goes, Exits,
     Starts, storeVars, TypeOK, Idle, Storing
<1>6. CASE LogoutServed(p) \/ LogoutUnserved(p)
  BY <1>0, <1>6, <1>g DEF LogoutServed, LogoutUnserved, GoesHolding, storeVars, TypeOK, Shape,
     Storing, Session
<1>7. CASE StoreWritten(p)
  BY <1>0, <1>7, <1>g DEF StoreWritten, WritesTemp, Goes, TolerantRoot, serverVars, TypeOK,
     StoreTypeOK, Storing
<1>8. CASE StoreRenamed(p)
  <2>1. CASE Unsaved(p)
    <3>1. /\ pc'[p] = "recall"
          /\ file' = temp[p]
          /\ UNCHANGED <<at, mem>>
      BY <1>0, <1>8, <2>1 DEF StoreRenamed, RenamesTemp, Goes, TypeOK
    <3>2. temp[p][at[p]] = mem[p] /\ temp[p] # Malformed
      BY <1>8 DEF StoreRenamed, Provenance
    <3> QED
      BY <1>g, <3>1, <3>2 DEF Storing
  <2>2. CASE ~Unsaved(p)
    BY <1>0, <1>8, <1>g, <2>2 DEF StoreRenamed, Exits, Starts, TypeOK, Idle, Storing
  <2> QED
    BY <2>1, <2>2
<1>9. CASE StoreFailed(p) \/ Crash(p)
  BY <1>0, <1>9, <1>g DEF StoreFailed, Crash, Exits, Starts, TypeOK, Idle, Storing
<1> QED
  BY <1>1, <1>2, <1>3, <1>4, <1>5, <1>6, <1>7, <1>8, <1>9, QuietSteps DEF Step, Refresh

LEMMA NextExclusive ==
    ~Overlap /\ TypeInv /\ Provenance /\ ExclusiveInv /\ [Next]_vars => ExclusiveInv'
<1> SUFFICES ASSUME ~Overlap, TypeInv, Provenance, ExclusiveInv, [Next]_vars
             PROVE  ExclusiveInv'
  OBVIOUS
<1>1. CASE \E p \in Proc : Step(p)
  BY <1>1, StepExclusive
<1>2. CASE (\E f \in Family : RevokeFamily(f)) \/ UNCHANGED vars
  <2>1. UNCHANGED <<storeVars, procVars>> /\ revoked \subseteq revoked'
    BY <1>2 DEF RevokeFamily, EndsFamily, Revokes, vars, serverVars
  <2> QED
    BY <2>1 DEF storeVars, procVars, ExclusiveInv, Alone, InStep, Pending, Snapshot, Readable,
       Stored, Complete, TolerantRoot
<1> QED
  BY <1>1, <1>2 DEF Next

LEMMA ExclusiveInvariant ==
    ASSUME ~Overlap
    PROVE  Spec => [](TypeInv /\ Provenance /\ ExclusiveInv)
<1>1. Init => ExclusiveInv
  BY DEF Init, ExclusiveInv, Alone, InStep, Pending, Snapshot, Idle, Storing
<1>2. Spec => []TypeInv
  BY InitTypeInv, NextTypeInv, PTL DEF Spec
<1>3. Spec => []Provenance
  BY CauseInvariant, PTL DEF CauseInv
<1>4. TypeInv /\ Provenance /\ ExclusiveInv /\ [Next]_vars => ExclusiveInv'
  BY NextExclusive
<1> QED
  BY <1>1, <1>2, <1>3, <1>4, PTL DEF Spec

\* Commands that do not overlap never erase a session that still works: a
\* rejected refresh erases a pair of a revoked family.
THEOREM ErasesTheDead ==
    ASSUME ~Overlap
    PROVE  Spec => []ErasedPairIsDead
<1>1. ExclusiveInv => ErasedPairIsDead
  BY DEF ExclusiveInv, Pending, ErasedPairIsDead
<1> QED
  BY <1>1, ExclusiveInvariant, PTL

\* The call is replayed only after its pair is in the file.
THEOREM PersistsFirst ==
    ASSUME ~Overlap
    PROVE  Spec => []PersistedBeforeReplay
<1>1. ExclusiveInv => PersistedBeforeReplay
  BY DEF ExclusiveInv, InStep, PersistedBeforeReplay
<1> QED
  BY <1>1, ExclusiveInvariant, PTL

-----------------------------------------------------------------------------
(***************************************************************************)
(* Refinement                                                              *)
(***************************************************************************)

\* Only the rename changes the file.
LEMMA StepFile ==
    ASSUME NEW p \in Proc, Step(p), ~StoreRenamed(p)
    PROVE  UNCHANGED file
BY DEF Step, Refresh, Load, LoginApproved, Finish, CallRejected, RefreshRotated,
   RefreshReplyLost, RefreshGarbled, RefreshRejected, RejectionLost, RefreshUnserved,
   RecallAnswered, RecallRejected, RecallLost, LogoutServed, LogoutUnserved, StoreWritten,
   StoreFailed, Crash, WritesTemp, AbandonsTemp, storeVars

\* Each step is a step of the register or leaves it alone.
LEMMA StepRegister ==
    ASSUME TypeInv, Provenance, ExclusiveInv, [Next]_vars
    PROVE  [Register!Next]_TolerantRoot
<1>1. CASE UNCHANGED file
  BY <1>1 DEF TolerantRoot, Readable
<1>2. ASSUME NEW p \in Proc, StoreRenamed(p)
      PROVE  Register!Next
  <2> DEFINE u == at[p]
  <2>1. /\ TypeOK /\ Shape(p) /\ Pending(p) /\ u \in Url
        /\ pc[p] = "rename" /\ Complete(p)
        /\ temp[p] \in Root
        /\ IssuedAtHome(mem[p], u)
        /\ temp[p] = [TolerantRoot EXCEPT ![u] = mem[p]]
    BY <1>2 DEF TypeInv, TypeOK, ExclusiveInv, Snapshot, Provenance, StoreRenamed
  <2>2. TolerantRoot' = [TolerantRoot EXCEPT ![u] = mem[p]]
    BY <1>2, <2>1, ContentsAssumption DEF StoreRenamed, RenamesTemp, TolerantRoot, Readable
  <2>3. CASE mem[p] = NoToken
    BY <2>1, <2>2, <2>3 DEF Register!Next, Register!Drop
  <2>4. CASE mem[p] # NoToken /\ cmd[p] = "login"
    <3>1. mem[p] \in Token /\ Home[mem[p].family] = u
      BY <2>1, <2>4 DEF TypeOK, MaybeToken, IssuedAtHome
    <3>2. mem[p] = [family |-> mem[p].family, gen |-> 0] /\ mem[p].family \in Family
      BY <2>1, <2>4, <3>1 DEF Pending, Storing, Token
    <3>3. Register!Login(u)
      BY <2>2, <3>1, <3>2 DEF Register!Login
    <3> QED
      BY <2>1, <3>3 DEF Register!Next
  <2>5. CASE mem[p] # NoToken /\ cmd[p] # "login"
    <3>1. cmd[p] \in Session
      BY <2>1, <2>5 DEF Shape, TypeOK, Command, Storing
    <3>2. /\ Readable /\ Stored(u) # NoToken
          /\ mem[p] = Successor(Stored(u))
      BY <2>1, <2>5, <3>1 DEF Pending, Storing
    <3>3. TolerantRoot[u] # NoToken /\ mem[p] = Successor(TolerantRoot[u])
      BY <3>2 DEF TolerantRoot, Stored
    <3>4. Register!Rotate(u)
      BY <2>2, <3>3 DEF Register!Rotate, Register!Successor, Successor
    <3> QED
      BY <2>1, <3>4 DEF Register!Next
  <2> QED
    BY <2>3, <2>4, <2>5
<1>3. CASE ~UNCHANGED file
  <2>1. \E p \in Proc : Step(p)
    BY <1>3 DEF Next, RevokeFamily, vars, storeVars
  <2> QED
    BY <1>2, <1>3, <2>1, StepFile
<1> QED
  BY <1>1, <1>3

\* Without overlap the credentials file is one independent register per
\* server, through crashes, failed writes and lost replies.
THEOREM FileIsRegister ==
    ASSUME ~Overlap
    PROVE  Spec => RegisterSpec
<1>1. Init => Register!Init
  BY DEF Init, StoreInit, Register!Init, TolerantRoot, Readable, EmptyRoot
<1>2. TypeInv /\ Provenance /\ ExclusiveInv /\ [Next]_vars => [Register!Next]_TolerantRoot
  BY StepRegister
<1> QED
  BY <1>1, <1>2, ExclusiveInvariant, PTL DEF Spec, RegisterSpec, Register!Spec
=============================================================================
