------------------------- MODULE DocumentsProofs -------------------------
(***************************************************************************)
(* What TLAPS proves of Documents, for any clients, actors, contents and   *)
(* bounds: the four properties of the commands, from one inductive         *)
(* invariant about what a client is about to send and what the server      *)
(* remembers.                                                              *)
(***************************************************************************)
EXTENDS Documents, TLAPS

\* A pinned request carries its pin.  A default one carries the revision it
\* fetched, or base 0 if what it fetched was not live, and the gate let it
\* through; as long as the document has not moved, it is live accordingly.
Aimed(c) ==
    /\ pc[c] = "fetch" => job[c].pin = NoPin
    /\ pc[c] = "send" =>
        /\ job[c].pin # NoPin => base[c] = job[c].pin
        /\ job[c].pin = NoPin =>
            /\ base[c].rev # 0 => base[c].rev = saw[c]
            /\ job[c].op = "delete" => base[c].rev # 0
            /\ job[c].op = "push" /\ saw[c] = Revision => (base[c].rev # 0 <=> Live)
            /\ job[c].op = "push" /\ ~job[c].force /\ base[c].rev # 0 =>
                   base[c].hash \in {job[c].content, Empty}

\* A push the server remembers for a pin to revision r made revision r + 1.
Restored ==
    \A r \in replays :
        r[2][2] # NoPin /\ r[2][2].rev > 0 =>
            /\ Len(versions) > r[2][2].rev
            /\ versions[r[2][2].rev + 1] = [content |-> r[2][1], deleted |-> FALSE]

\* The server remembers exactly the commands that took effect.
Remembered == done = replays

Inv ==
    /\ TypeOK
    /\ \A c \in Client : Aimed(c)
    /\ Restored
    /\ Remembered

-----------------------------------------------------------------------------
LEMMA InitInv == Init => Inv
BY DocumentAssumption DEF Init, Inv, TypeOK, Aimed, Restored, Remembered, Job, Base, NoBase,
   NoJob, Phase, Version, Revision

\* The chain of versions only grows, one revision at a time.
Grows == versions' = versions \/ \E v \in Version : versions' = Append(versions, v)

LEMMA Chain ==
    ASSUME TypeOK, Grows
    PROVE  /\ versions' \in Seq(Version)
           /\ Len(versions) \in Nat
           /\ Len(versions') \in {Len(versions), Len(versions) + 1}
           /\ Len(versions') = Len(versions) => versions' = versions
           /\ \A r \in 1..Len(versions) : versions'[r] = versions[r]
<1>1. versions \in Seq(Version) /\ Len(versions) \in Nat
  BY DEF TypeOK
<1>2. CASE versions' = versions
  BY <1>1, <1>2
<1>3. ASSUME NEW v \in Version, versions' = Append(versions, v)
      PROVE  /\ versions' \in Seq(Version)
             /\ Len(versions') = Len(versions) + 1
             /\ \A r \in 1..Len(versions) : versions'[r] = versions[r]
  BY <1>1, <1>3
<1> QED
  BY <1>1, <1>2, <1>3 DEF Grows

\* What a client does to the shared state and to the other clients.
LEMMA StepEffect ==
    ASSUME TypeOK, NEW c \in Client, Step(c)
    PROVE  /\ Grows
           /\ conflicts' \in 0..MaxConflicts
           /\ pc' \in [Client -> Phase] /\ job' \in [Client -> Job]
           /\ base' \in [Client -> Base] /\ saw' \in [Client -> Nat]
           /\ saw'[c] <= Len(versions) /\ base'[c].rev <= Len(versions)
           /\ \A q \in Client \ {c} :
                /\ pc'[q] = pc[q] /\ job'[q] = job[q]
                /\ base'[q] = base[q] /\ saw'[q] = saw[q]
           /\ PushAccepted(c) \/ UNCHANGED <<replays, done>>
<1> USE DEF TypeOK, Grows
<1>0. Revision \in Nat /\ (Live => Row \in Version)
  BY DEF Live, Exists, Row, Revision
<1>s. ASSUME NEW j \in Job, Start(c, j), j.pin # NoPin => j.pin.rev <= Revision
      PROVE  /\ UNCHANGED <<versions, conflicts, replays, done, saw>>
             /\ pc' \in [Client -> Phase] /\ job' \in [Client -> Job]
             /\ base' \in [Client -> Base] /\ base'[c].rev <= Revision
             /\ \A q \in Client \ {c} :
                  pc'[q] = pc[q] /\ job'[q] = job[q] /\ base'[q] = base[q]
  <2>1. job' \in [Client -> Job] /\ \A q \in Client \ {c} : job'[q] = job[q]
    BY <1>s DEF Start
  <2>2. CASE j.pin = NoPin
    BY <1>s, <2>1, <2>2 DEF Start, Goes, Phase, serverVars, Revision
  <2>3. CASE j.pin # NoPin
    <3>1. j.pin \in Base
      BY <2>3 DEF Job
    <3> QED
      BY <1>s, <2>1, <2>3, <3>1 DEF Start, Goes, Phase, serverVars, Revision
  <2> QED
    BY <2>2, <2>3
<1>1. CASE StartPush(c)
  <2>1. PICK content \in Content, pin \in Pins \cup {NoPin}, force \in BOOLEAN :
            Start(c, [op |-> "push", content |-> content, pin |-> pin, force |-> force])
    BY <1>1 DEF StartPush
  <2>2. pin # NoPin => pin \in Base /\ pin.rev <= Revision
    BY <1>0, DocumentAssumption DEF Pins, Base, NoBase
  <2>3. [op |-> "push", content |-> content, pin |-> pin, force |-> force] \in Job
    BY <2>2 DEF Job
  <2> QED
    BY <2>1, <2>2, <2>3, <1>s DEF Revision
<1>2. CASE StartDelete(c)
  <2>1. PICK pin \in [rev : 0..Revision, hash : {Empty}] \cup {NoPin} :
            Start(c, [op |-> "delete", content |-> Empty, pin |-> pin, force |-> FALSE])
    BY <1>2 DEF StartDelete
  <2>2. pin # NoPin => pin \in Base /\ pin.rev <= Revision
    BY <1>0, DocumentAssumption DEF Base
  <2>3. [op |-> "delete", content |-> Empty, pin |-> pin, force |-> FALSE] \in Job
    BY <2>2, DocumentAssumption DEF Job
  <2> QED
    BY <2>1, <2>2, <2>3, <1>s DEF Revision
<1>e. NoJob \in Job /\ NoBase \in Base /\ NoBase.rev = 0
  BY DocumentAssumption DEF NoJob, Job, NoBase, Base
<1>f. ASSUME Ends(c)
      PROVE  /\ pc' \in [Client -> Phase] /\ job' \in [Client -> Job]
             /\ base' \in [Client -> Base] /\ saw' \in [Client -> Nat]
             /\ saw'[c] = 0 /\ base'[c].rev = 0
             /\ \A q \in Client \ {c} :
                  /\ pc'[q] = pc[q] /\ job'[q] = job[q]
                  /\ base'[q] = base[q] /\ saw'[q] = saw[q]
  BY <1>e, <1>f DEF Ends, Goes, Phase
<1>3. CASE FetchForPush(c)
  <2>1. CASE Ends(c)
    BY <1>3, <1>f, <1>0, <2>1 DEF FetchForPush, serverVars, Revision
  <2>2. PushBase \in Base /\ PushBase.rev <= Revision
    BY <1>0, <1>e DEF PushBase, Base, Version
  <2>3. CASE ~Ends(c)
    <3>1. /\ pc' = [pc EXCEPT ![c] = "send"] /\ base' = [base EXCEPT ![c] = PushBase]
          /\ saw' = [saw EXCEPT ![c] = Revision] /\ UNCHANGED <<job, serverVars, done>>
      BY <1>3, <2>3 DEF FetchForPush, Goes
    <3> QED
      BY <3>1, <1>0, <2>2 DEF Phase, serverVars, Revision
  <2> QED
    BY <2>1, <2>3
<1>4. CASE FetchForDelete(c)
  <2>1. CASE Ends(c)
    BY <1>4, <1>f, <1>0, <2>1 DEF FetchForDelete, serverVars, Revision
  <2>2. DeleteBase \in Base /\ DeleteBase.rev <= Revision
    BY <1>0, DocumentAssumption DEF DeleteBase, Base
  <2>3. CASE ~Ends(c)
    <3>1. /\ pc' = [pc EXCEPT ![c] = "send"] /\ base' = [base EXCEPT ![c] = DeleteBase]
          /\ saw' = [saw EXCEPT ![c] = Revision] /\ UNCHANGED <<job, serverVars, done>>
      BY <1>4, <2>3 DEF FetchForDelete, Goes
    <3> QED
      BY <3>1, <1>0, <2>2 DEF Phase, serverVars, Revision
  <2> QED
    BY <2>1, <2>3
<1>5. CASE PushReplayed(c) \/ PushRefused(c) \/ DeleteRepeated(c) \/ Fails(c)
  BY <1>5, <1>0, <1>f DEF PushReplayed, PushRefused, DeleteRepeated, Fails, serverVars, Revision
<1>6. CASE PushAccepted(c)
  <2>1. [content |-> job[c].content, deleted |-> FALSE] \in Version
    BY DEF Job, Version
  <2> QED
    BY <1>6, <1>0, <1>f, <2>1 DEF PushAccepted, Supersedes, Revision
<1>7. CASE PushConflicts(c) \/ DeleteConflicts(c)
  BY <1>7, <1>0, <1>f, DocumentAssumption DEF PushConflicts, DeleteConflicts, LeavesArtifact, Revision
<1>8. CASE DeleteAccepted(c)
  <2>1. [content |-> Row.content, deleted |-> TRUE] \in Version
    BY <1>0, <1>8 DEF DeleteAccepted, Version
  <2> QED
    BY <1>8, <1>0, <1>f, <2>1 DEF DeleteAccepted, Supersedes, Revision
<1>9. CASE Resolve(c)
  <2>1. Live => [content |-> Row.content, deleted |-> TRUE] \in Version
    BY <1>0 DEF Version
  <2>2. \A content \in Content : [content |-> content, deleted |-> FALSE] \in Version
    BY DEF Version
  <2>3. Grows
    BY <1>9, <2>1, <2>2 DEF Resolve
  <2> QED
    BY <1>9, <1>0, <2>3, DocumentAssumption DEF Resolve, clientVars, Revision
<1> QED
  BY <1>1, <1>2, <1>3, <1>4, <1>5, <1>6, <1>7, <1>8, <1>9 DEF Step

\* Both ways to start a command.
LEMMA StartsAJob ==
    ASSUME NEW c \in Client, StartPush(c) \/ StartDelete(c)
    PROVE  \E j : Start(c, j)
BY DEF StartPush, StartDelete

LEMMA StepInv ==
    ASSUME Inv, NEW c \in Client, Step(c)
    PROVE  Inv'
<1>0. TypeOK /\ Restored /\ Remembered /\ Aimed(c)
  BY DEF Inv
<1>1. /\ Grows
      /\ conflicts' \in 0..MaxConflicts
      /\ pc' \in [Client -> Phase] /\ job' \in [Client -> Job]
      /\ base' \in [Client -> Base] /\ saw' \in [Client -> Nat]
      /\ saw'[c] <= Len(versions) /\ base'[c].rev <= Len(versions)
      /\ \A q \in Client \ {c} :
           /\ pc'[q] = pc[q] /\ job'[q] = job[q]
           /\ base'[q] = base[q] /\ saw'[q] = saw[q]
      /\ PushAccepted(c) \/ UNCHANGED <<replays, done>>
  BY <1>0, StepEffect
<1>2. /\ versions' \in Seq(Version)
      /\ Len(versions) \in Nat
      /\ Len(versions') \in {Len(versions), Len(versions) + 1}
      /\ Len(versions') = Len(versions) => versions' = versions
      /\ \A r \in 1..Len(versions) : versions'[r] = versions[r]
  BY <1>0, <1>1, Chain
<1>k. ASSUME PushAccepted(c)
      PROVE  /\ <<ActorOf[c], KeySource(job[c], base[c])>>
                    \in Actor \X (Content \X (Base \cup {NoPin}))
             /\ Command(job[c]) = KeySource(job[c], base[c])
             /\ KeySource(job[c], base[c]) =
                    <<job[c].content, IF job[c].pin = NoPin THEN NoPin ELSE base[c]>>
  BY <1>0, <1>k, DocumentAssumption DEF TypeOK, Aimed, PushAccepted, Sends, Command, KeySource, Job
<1>3. TypeOK'
  <2>1. replays' \subseteq Actor \X (Content \X (Base \cup {NoPin}))
    BY <1>0, <1>1, <1>k DEF TypeOK, PushAccepted
  <2>2. \A q \in Client : saw'[q] <= Len(versions') /\ base'[q].rev <= Len(versions')
    <3>1. \A q \in Client : saw'[q] \in Nat /\ base'[q].rev \in Nat
      BY <1>1 DEF Base
    <3>2. \A q \in Client : saw'[q] <= Len(versions) /\ base'[q].rev <= Len(versions)
      BY <1>0, <1>1 DEF TypeOK
    <3> QED
      BY <1>2, <3>1, <3>2
  <2> QED
    BY <1>1, <1>2, <2>1, <2>2 DEF TypeOK
<1>4. ASSUME NEW q \in Client \ {c}
      PROVE  Aimed(q)'
  <2>1. saw[q] = Len(versions') => versions' = versions
    BY <1>0, <1>2 DEF TypeOK
  <2>2. Aimed(q)
    BY DEF Inv
  <2> QED
    BY <1>1, <2>1, <2>2 DEF Aimed, Live, Exists, Row, Revision
<1>5. Aimed(c)'
  <2>1. ASSUME NEW j, Start(c, j)
        PROVE  Aimed(c)'
    BY <2>1, <1>0 DEF Start, Goes, Aimed, TypeOK
  <2>2. CASE FetchForPush(c)
    <3>1. CASE Ends(c)
      BY <3>1, <1>0 DEF Ends, Goes, Aimed, TypeOK
    <3>2. CASE ~Ends(c)
      <4>1. /\ ~Gated(job[c], PushBase)
            /\ pc' = [pc EXCEPT ![c] = "send"] /\ UNCHANGED <<job, versions>>
            /\ base'[c] = PushBase /\ saw'[c] = Revision
        BY <2>2, <3>2, <1>0 DEF FetchForPush, Goes, TypeOK, serverVars
      <4>2. job[c].pin = NoPin /\ job[c].op = "push" /\ pc'[c] = "send"
        BY <2>2, <4>1, <1>0 DEF FetchForPush, Aimed, TypeOK
      <4>3. CASE Live
        <5>1. /\ base'[c].rev = Revision /\ base'[c].hash = Row.content /\ base'[c].rev > 0
              /\ Live' = Live
          BY <4>1, <4>3, <1>2 DEF PushBase, Live, Exists, Row, Revision
        <5>2. ~job[c].force => Row.content \in {job[c].content, Empty}
          BY <4>1, <4>3, <5>1 DEF Gated
        <5> QED
          BY <4>1, <4>2, <4>3, <5>1, <5>2, <1>2 DEF Aimed, Revision
      <4>4. CASE ~Live
        <5>1. base'[c].rev = 0 /\ Live' = Live
          BY <4>1, <4>4 DEF PushBase, NoBase, Live, Exists, Row, Revision
        <5> QED
          BY <4>1, <4>2, <4>4, <5>1 DEF Aimed
      <4> QED
        BY <4>3, <4>4
    <3> QED
      BY <3>1, <3>2
  <2>3. CASE FetchForDelete(c)
    <3>1. CASE Ends(c)
      BY <3>1, <1>0 DEF Ends, Goes, Aimed, TypeOK
    <3>2. CASE ~Ends(c)
      BY <2>3, <3>2, <1>0, <1>2 DEF FetchForDelete, Goes, TypeOK, Aimed, DeleteBase, Exists, Revision
    <3> QED
      BY <3>1, <3>2
  <2>4. CASE Ends(c)
    BY <2>4, <1>0 DEF Ends, Goes, Aimed, TypeOK
  <2>5. CASE Resolve(c)
    BY <2>5, <1>0 DEF Resolve, Rests, clientVars, Aimed
  <2> QED
    BY <2>1, <2>2, <2>3, <2>4, <2>5, StartsAJob DEF Step, PushReplayed, PushAccepted, PushConflicts,
       PushRefused, DeleteAccepted, DeleteRepeated, DeleteConflicts, Fails
<1>6. Restored'
  <2>1. ASSUME NEW r \in replays, r[2][2] # NoPin, r[2][2].rev > 0
        PROVE  /\ Len(versions') > r[2][2].rev
               /\ versions'[r[2][2].rev + 1] = [content |-> r[2][1], deleted |-> FALSE]
    <3>1. r[2][2].rev \in Nat
      BY <1>0, <2>1 DEF TypeOK, Base
    <3>2. /\ Len(versions) > r[2][2].rev
          /\ versions[r[2][2].rev + 1] = [content |-> r[2][1], deleted |-> FALSE]
      BY <1>0, <2>1 DEF Restored
    <3> QED
      BY <1>2, <3>1, <3>2
  <2>2. CASE PushAccepted(c)
    <3> DEFINE new == <<ActorOf[c], KeySource(job[c], base[c])>>
    <3>1. ASSUME new[2][2] # NoPin, new[2][2].rev > 0
          PROVE  /\ Len(versions') > new[2][2].rev
                 /\ versions'[new[2][2].rev + 1] = [content |-> new[2][1], deleted |-> FALSE]
      <4>1. new[2][1] = job[c].content /\ new[2][2] = base[c]
        BY <1>k, <2>2, <3>1
      <4>2. base[c].rev = Len(versions)
        BY <2>2, <3>1, <4>1 DEF PushAccepted, Matches, Revision
      <4>3. versions' = Append(versions, [content |-> job[c].content, deleted |-> FALSE])
        BY <2>2 DEF PushAccepted, Supersedes
      <4>4. /\ Len(versions') = Len(versions) + 1
            /\ versions'[Len(versions) + 1] = [content |-> job[c].content, deleted |-> FALSE]
        BY <1>0, <4>3 DEF TypeOK
      <4>5. /\ Len(versions') > base[c].rev
            /\ versions'[base[c].rev + 1] = [content |-> job[c].content, deleted |-> FALSE]
        BY <1>2, <4>2, <4>4
      <4> HIDE DEF new
      <4> QED
        BY <4>1, <4>5
    <3>2. replays' = replays \cup {new}
      BY <2>2 DEF PushAccepted
    <3> QED
      BY <2>1, <3>1, <3>2 DEF Restored
  <2>3. CASE UNCHANGED replays
    BY <2>1, <2>3 DEF Restored
  <2> QED
    BY <1>1, <2>2, <2>3
<1>7. Remembered'
  BY <1>0, <1>1, <1>k DEF Remembered, PushAccepted
<1> QED
  BY <1>3, <1>4, <1>5, <1>6, <1>7 DEF Inv

LEMMA NextInv == Inv /\ [Next]_vars => Inv'
<1> SUFFICES ASSUME Inv, [Next]_vars PROVE Inv'
  OBVIOUS
<1>1. CASE \E c \in Client : Step(c)
  BY <1>1, StepInv
<1>2. CASE Forget
  BY <1>2 DEF Forget, clientVars, Inv, TypeOK, Aimed, Live, Exists, Row, Revision, Restored, Remembered
<1>3. CASE UNCHANGED vars
  BY <1>3 DEF vars, serverVars, clientVars, Inv, TypeOK, Aimed, Live, Exists, Row, Revision,
     Restored, Remembered
<1> QED
  BY <1>1, <1>2, <1>3 DEF Next

LEMMA Invariant == Spec => []Inv
BY InitInv, NextInv, PTL DEF Spec

-----------------------------------------------------------------------------
(***************************************************************************)
(* The theorems                                                            *)
(***************************************************************************)

\* Every variable has its type, and no client is ahead of the document.
THEOREM TypeCorrect == Spec => []TypeOK
<1>1. Inv => TypeOK
  BY DEF Inv
<1> QED
  BY <1>1, Invariant, PTL

\* The other clients' steps leave c's request unsent.
LEMMA OwnStep ==
    ASSUME TypeOK, NEW c \in Client, [Next]_vars, Sent(c)
    PROVE  Step(c)
<1>1. CASE \E q \in Client : Step(q)
  BY <1>1, StepEffect DEF Sent
<1>2. CASE Forget \/ UNCHANGED vars
  BY <1>2 DEF Forget, vars, clientVars, Sent
<1> QED
  BY <1>1, <1>2 DEF Next

\* What a sent request is, and what it does to the document.
LEMMA SentStep ==
    ASSUME NEW c \in Client, Step(c), Sent(c)
    PROVE  \/ PushAccepted(c)
           \/ DeleteAccepted(c)
           \/ (PushConflicts(c) \/ DeleteConflicts(c)) /\ UNCHANGED versions
           \/ UNCHANGED <<versions, conflicts>>
BY DEF Step, Sent, StartPush, StartDelete, Start, Rests, FetchForPush, FetchForDelete,
   PushReplayed, PushConflicts, PushRefused, DeleteRepeated, DeleteConflicts, Resolve, Fails,
   LeavesArtifact, serverVars

\* A push or delete without a pin replaces the live version it fetched or
\* none: the gate's judgement still holds when the server acts.
THEOREM ReplacesSeen == Spec => ReplacesOnlyWhatItSaw
<1>1. ASSUME Inv, [Next]_vars, NEW c \in Client,
             Sent(c), job[c].pin = NoPin, versions' # versions, Live
      PROVE  /\ saw[c] = Revision
             /\ job[c].op = "push" /\ ~job[c].force => Row.content \in {Empty, job[c].content}
  <2>1. PushAccepted(c) \/ DeleteAccepted(c)
    BY <1>1, OwnStep, SentStep DEF Inv
  <2>2. Aimed(c) /\ pc[c] = "send"
    BY <1>1 DEF Inv, Sent
  <2>3. CASE PushAccepted(c)
    <3>1. base[c].rev # 0 /\ base[c].rev = Revision /\ base[c].hash = Row.content
      BY <1>1, <2>3 DEF PushAccepted, Matches, HashDiffers
    <3> QED
      BY <1>1, <2>2, <2>3, <3>1 DEF Aimed
  <2>4. CASE DeleteAccepted(c)
    BY <1>1, <2>2, <2>4 DEF DeleteAccepted, Sends, Aimed
  <2> QED
    BY <2>1, <2>3, <2>4
<1>2. Inv /\ [Next]_vars =>
        [\A c \in Client :
            Sent(c) /\ job[c].pin = NoPin /\ versions' # versions /\ Live =>
                /\ saw[c] = Revision
                /\ job[c].op = "push" /\ ~job[c].force =>
                       Row.content \in {Empty, job[c].content}]_vars
  BY <1>1
<1> QED
  BY <1>2, Invariant, PTL DEF Spec, ReplacesOnlyWhatItSaw

\* An artifact without a pin needs somebody else's change in between.
THEOREM NoPhantom == Spec => NoPhantomConflict
<1>1. ASSUME Inv, [Next]_vars, NEW c \in Client,
             Sent(c), job[c].pin = NoPin, conflicts' # conflicts
      PROVE  saw[c] # Revision
  <2>1. PushConflicts(c) \/ DeleteConflicts(c)
    BY <1>1, OwnStep, SentStep DEF Inv, PushAccepted, DeleteAccepted, Supersedes
  <2>2. Aimed(c) /\ pc[c] = "send" /\ TypeOK
    BY <1>1 DEF Inv, Sent
  <2>3. CASE PushConflicts(c)
    <3>1. CASE base[c].rev = 0
      BY <1>1, <2>2, <2>3, <3>1 DEF PushConflicts, Sends, Matches, Aimed
    <3>2. CASE base[c].rev # 0 /\ base[c].rev # Revision
      BY <1>1, <2>2, <3>2 DEF Aimed
    <3>3. CASE base[c].rev # 0 /\ ~Live
      BY <1>1, <2>2, <2>3, <3>3 DEF Aimed, PushConflicts, Sends
    <3> QED
      BY <2>3, <3>1, <3>2, <3>3 DEF PushConflicts, Matches
  <2>4. CASE DeleteConflicts(c)
    BY <1>1, <2>2, <2>4 DEF DeleteConflicts, Sends, Aimed
  <2> QED
    BY <2>1, <2>3, <2>4
<1>2. Inv /\ [Next]_vars =>
        [\A c \in Client :
            Sent(c) /\ job[c].pin = NoPin /\ conflicts' # conflicts => saw[c] # Revision]_vars
  BY <1>1
<1> QED
  BY <1>2, Invariant, PTL DEF Spec, NoPhantomConflict

\* A push that took effect is replayed, whatever its base would be now.
THEOREM Rerun == Spec => RerunChangesNothing
<1>1. ASSUME Inv, [Next]_vars, NEW c \in Client,
             Sent(c), job[c].op = "push", <<ActorOf[c], Command(job[c])>> \in done
      PROVE  UNCHANGED <<versions, conflicts>>
  <2>1. Aimed(c) /\ pc[c] = "send" /\ TypeOK
    BY <1>1 DEF Inv, Sent
  <2>2. Command(job[c]) = KeySource(job[c], base[c])
    BY <2>1 DEF Aimed, Command, KeySource
  <2>3. Replayed(c)
    BY <1>1, <2>2 DEF Inv, Remembered, Replayed
  <2> QED
    BY <1>1, <2>1, <2>3, OwnStep, SentStep
       DEF PushAccepted, PushConflicts, DeleteAccepted, DeleteConflicts, Sends
<1>2. Inv /\ [Next]_vars =>
        [\A c \in Client :
            Sent(c) /\ job[c].op = "push" /\ <<ActorOf[c], Command(job[c])>> \in done =>
                UNCHANGED <<versions, conflicts>>]_vars
  BY <1>1
<1> QED
  BY <1>2, Invariant, PTL DEF Spec, RerunChangesNothing

\* A pinned push that reports success made the revision after its pin.
THEOREM PinnedTakes == Spec => PinnedPushTakes
<1>1. ASSUME Inv, [Next]_vars, NEW c \in Client,
             Pushed(c), job[c].pin # NoPin, job[c].pin.rev > 0
      PROVE  /\ Len(versions') > job[c].pin.rev
             /\ versions'[job[c].pin.rev + 1] = [content |-> job[c].content, deleted |-> FALSE]
  <2>1. pc[c] = "send" /\ base[c] = job[c].pin
    BY <1>1 DEF Inv, Aimed, Pushed, PushReplayed, PushAccepted, Sends
  <2>2. KeySource(job[c], base[c]) = <<job[c].content, job[c].pin>>
    BY <1>1, <2>1 DEF KeySource
  <2> DEFINE new == <<ActorOf[c], <<job[c].content, job[c].pin>>>>
  <2>3. new \in replays'
    BY <1>1, <2>2 DEF Pushed, PushReplayed, PushAccepted, Replayed, serverVars
  <2>4. Restored'
    BY <1>1, NextInv DEF Inv
  <2> QED
    BY <1>1, <2>3, <2>4 DEF Restored
<1>2. Inv /\ [Next]_vars =>
        [\A c \in Client :
            LET j == job[c]
            IN  Pushed(c) /\ j.pin # NoPin /\ j.pin.rev > 0 =>
                    /\ Len(versions') > j.pin.rev
                    /\ versions'[j.pin.rev + 1] = [content |-> j.content, deleted |-> FALSE]]_vars
  BY <1>1
<1> QED
  BY <1>2, Invariant, PTL DEF Spec, PinnedPushTakes
=============================================================================
