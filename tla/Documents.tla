---------------------------- MODULE Documents ----------------------------
(***************************************************************************)
(* astral document push, delete and conflicts resolve                      *)
(* (commands/document_cmd.cpp) on one path: a default push or delete reads *)
(* the row and then writes against the revision it read, and a push        *)
(* carries an Idempotency-Key derived from its command line.  Clients of   *)
(* several actors run at once, replies get lost, users run a command again.*)
(*                                                                         *)
(* The server is another program: its transactions follow the documents,   *)
(* documents_delete, conflicts, document_versions and idempotency entries  *)
(* of protocol/snapshots/v2/MANIFEST.json.  A content stands for its own   *)
(* sha256, and a key for its own FNV-1a hash.                              *)
(***************************************************************************)
EXTENDS Integers, Sequences

CONSTANTS
    Client,         \* processes
    Actor,
    ActorOf,        \* ActorOf[c]: whose credentials c uses
    Content,
    Empty,          \* the empty content
    NoPin,          \* no --base-revision
    MaxRevision,    \* bound: revisions of the document
    MaxConflicts    \* bound: open artifacts

ASSUME DocumentAssumption ==
    /\ ActorOf \in [Client -> Actor]
    /\ Empty \in Content
    /\ MaxRevision \in Nat /\ MaxConflicts \in Nat

Base == [rev : Nat, hash : Content]
ASSUME NoPinAssumption == NoPin \notin Base

VARIABLES
    versions,   \* versions[r] is revision r; the last one is the row, the
                \* ones before it are the history
    conflicts,  \* number of open artifacts: what they hold decides nothing
    replays,    \* <<actor, key>> of the 2xx answers the server remembers
    pc,         \* "idle", "fetch", "send"
    job,        \* the command line
    base,       \* BasePointer
    saw,        \* history: the newest revision when the client fetched
    done        \* history: <<actor, command>> whose push took effect, as
                \* long as the server can remember it

serverVars == <<versions, conflicts, replays>>
clientVars == <<pc, job, base, saw>>
vars == <<serverVars, clientVars, done>>

Version == [content : Content, deleted : BOOLEAN]
Job == [op : {"push", "delete"}, content : Content, pin : Base \cup {NoPin}, force : BOOLEAN]
NoBase == [rev |-> 0, hash |-> Empty]
NoJob == [op |-> "push", content |-> Empty, pin |-> NoPin, force |-> FALSE]

Phase == {"idle", "fetch", "send"}

TypeOK ==
    /\ versions \in Seq(Version)
    /\ conflicts \in 0..MaxConflicts
    /\ replays \subseteq Actor \X (Content \X (Base \cup {NoPin}))
    /\ pc \in [Client -> Phase]
    /\ job \in [Client -> Job]
    /\ base \in [Client -> Base]
    /\ saw \in [Client -> Nat]
    /\ \A c \in Client : saw[c] <= Len(versions) /\ base[c].rev <= Len(versions)

Init ==
    /\ versions = <<>>
    /\ conflicts = 0
    /\ replays = {} /\ done = {}
    /\ pc = [c \in Client |-> "idle"]
    /\ job = [c \in Client |-> NoJob]
    /\ base = [c \in Client |-> NoBase]
    /\ saw = [c \in Client |-> 0]

-----------------------------------------------------------------------------
(***************************************************************************)
(* The server                                                              *)
(***************************************************************************)

Revision == Len(versions)
Exists == Revision > 0
Row == versions[Revision]
Live == Exists /\ ~Row.deleted

\* A new revision; the row it supersedes is history from now on.
Supersedes(content, deleted) ==
    /\ Revision < MaxRevision
    /\ versions' = Append(versions, [content |-> content, deleted |-> deleted])
    /\ UNCHANGED conflicts

\* 409 DOCUMENT_CONFLICT: what the client sent becomes an artifact.
LeavesArtifact ==
    /\ conflicts < MaxConflicts
    /\ conflicts' = conflicts + 1
    /\ UNCHANGED versions

\* Base 0 is for a path without a live document, any other base for the live
\* revision it names.
Matches(b) == IF b.rev = 0 THEN ~Live ELSE Live /\ b.rev = Revision

\* 400: the revision is right and the hash is not.
HashDiffers(b) == b.rev # 0 /\ Matches(b) /\ b.hash # Row.content

-----------------------------------------------------------------------------
(***************************************************************************)
(* A command starts                                                        *)
(***************************************************************************)

Rests(c) == pc[c] = "idle"

Goes(c, phase) == pc' = [pc EXCEPT ![c] = phase]

\* The process is over, whatever it reports; its locals are gone.
Ends(c) ==
    /\ Goes(c, "idle")
    /\ job' = [job EXCEPT ![c] = NoJob]
    /\ base' = [base EXCEPT ![c] = NoBase]
    /\ saw' = [saw EXCEPT ![c] = 0]

\* Base 0, or a revision with its hash or a wrong one.
Pins == {NoBase} \cup
    {b \in [rev : 1..Revision, hash : Content] : b.hash \in {versions[b.rev].content, Empty}}

\* --base-revision decides whether the row is fetched at all; with it,
\* --force means nothing.
Start(c, j) ==
    /\ Rests(c)
    /\ job' = [job EXCEPT ![c] = j]
    /\ IF j.pin = NoPin
       THEN Goes(c, "fetch") /\ UNCHANGED base
       ELSE Goes(c, "send") /\ base' = [base EXCEPT ![c] = j.pin]
    /\ UNCHANGED <<serverVars, saw, done>>

StartPush(c) ==
    \E content \in Content, pin \in Pins \cup {NoPin}, force \in BOOLEAN :
        /\ force => pin = NoPin
        /\ Start(c, [op |-> "push", content |-> content, pin |-> pin, force |-> force])

\* A pinned delete sends the revision only.
StartDelete(c) ==
    \E pin \in [rev : 0..Revision, hash : {Empty}] \cup {NoPin} :
        Start(c, [op |-> "delete", content |-> Empty, pin |-> pin, force |-> FALSE])

-----------------------------------------------------------------------------
(***************************************************************************)
(* The row is fetched                                                      *)
(***************************************************************************)

\* Mutant: a tombstone is a base like any other.
TombstoneBase ==
    IF Exists THEN [rev |-> Revision, hash |-> Row.content] ELSE NoBase

\* resolveBasePointer without a pin.
PushBase == IF Live THEN [rev |-> Revision, hash |-> Row.content] ELSE NoBase

DeleteBase == [rev |-> Revision, hash |-> Empty]

\* Mutant: the gate opens at revision 1.
GateOffByOne(j, b) == ~j.force /\ b.rev > 1 /\ b.hash \notin {j.content, Empty}

\* The guard against blind pushes.
Gated(j, b) == ~j.force /\ b.rev > 0 /\ b.hash \notin {j.content, Empty}

FetchForPush(c) ==
    /\ pc[c] = "fetch" /\ job[c].op = "push"
    /\ IF Gated(job[c], PushBase)
       THEN Ends(c)
       ELSE /\ Goes(c, "send")
            /\ base' = [base EXCEPT ![c] = PushBase]
            /\ saw' = [saw EXCEPT ![c] = Revision]
            /\ UNCHANGED job
    /\ UNCHANGED <<serverVars, done>>

\* A tombstone has a row, and its revision is the base; 404 is NOT_FOUND.
FetchForDelete(c) ==
    /\ pc[c] = "fetch" /\ job[c].op = "delete"
    /\ IF Exists
       THEN /\ Goes(c, "send")
            /\ base' = [base EXCEPT ![c] = DeleteBase]
            /\ saw' = [saw EXCEPT ![c] = Revision]
            /\ UNCHANGED job
       ELSE Ends(c)
    /\ UNCHANGED <<serverVars, done>>

-----------------------------------------------------------------------------
(***************************************************************************)
(* PUT                                                                     *)
(***************************************************************************)

\* Mutant: the fetched base is part of the key.
KeyOfFetchedBase(j, b) == <<j.content, b>>

\* Mutant: a pinned base is not.
KeyOfContent(j, b) == <<j.content, NoPin>>

\* What the Idempotency-Key is derived from: the command line only.
KeySource(j, b) == <<j.content, IF j.pin = NoPin THEN NoPin ELSE b>>

Replayed(c) == <<ActorOf[c], KeySource(job[c], base[c])>> \in replays

\* The command as the user would run it again.
Command(j) == <<j.content, j.pin>>

Sends(c, op) == pc[c] = "send" /\ job[c].op = op

\* 2xx replayed by the idempotency middleware: nothing happens again.
PushReplayed(c) ==
    /\ Sends(c, "push") /\ Replayed(c)
    /\ Ends(c)
    /\ UNCHANGED <<serverVars, done>>

PushAccepted(c) ==
    /\ Sends(c, "push") /\ ~Replayed(c)
    /\ Matches(base[c]) /\ ~HashDiffers(base[c])
    /\ Supersedes(job[c].content, FALSE)
    /\ replays' = replays \cup {<<ActorOf[c], KeySource(job[c], base[c])>>}
    /\ done' = done \cup {<<ActorOf[c], Command(job[c])>>}
    /\ Ends(c)

PushConflicts(c) ==
    /\ Sends(c, "push") /\ ~Replayed(c)
    /\ ~Matches(base[c])
    /\ LeavesArtifact
    /\ Ends(c)
    /\ UNCHANGED <<replays, done>>

PushRefused(c) ==
    /\ Sends(c, "push") /\ ~Replayed(c)
    /\ HashDiffers(base[c])
    /\ Ends(c)
    /\ UNCHANGED <<serverVars, done>>

-----------------------------------------------------------------------------
(***************************************************************************)
(* DELETE (no key) and conflict resolution                                 *)
(***************************************************************************)

DeleteAccepted(c) ==
    /\ Sends(c, "delete")
    /\ Live /\ base[c].rev = Revision
    /\ Supersedes(Row.content, TRUE)
    /\ Ends(c)
    /\ UNCHANGED <<replays, done>>

\* Already deleted at this revision: 204 again.
DeleteRepeated(c) ==
    /\ Sends(c, "delete")
    /\ Exists /\ Row.deleted /\ base[c].rev = Revision
    /\ Ends(c)
    /\ UNCHANGED <<serverVars, done>>

DeleteConflicts(c) ==
    /\ Sends(c, "delete")
    /\ Exists /\ base[c].rev # Revision
    /\ LeavesArtifact
    /\ Ends(c)
    /\ UNCHANGED <<replays, done>>

\* POST .../resolve needs no base: "theirs" closes the artifact, the other
\* resolutions also make a revision of what it holds or of a content sent.
Resolve(c) ==
    /\ Rests(c)
    /\ conflicts > 0
    /\ conflicts' = conflicts - 1
    /\ \/ UNCHANGED versions
       \/ /\ Revision < MaxRevision
          /\ \E content \in Content :
                versions' = Append(versions, [content |-> content, deleted |-> FALSE])
       \/ /\ Live /\ Revision < MaxRevision
          /\ versions' = Append(versions, [content |-> Row.content, deleted |-> TRUE])
    /\ UNCHANGED <<replays, clientVars, done>>

-----------------------------------------------------------------------------
\* A request that does not arrive, any other status, Ctrl+C.
Fails(c) ==
    /\ pc[c] \in {"fetch", "send"}
    /\ Ends(c)
    /\ UNCHANGED <<serverVars, done>>

\* 24 hours later.
Forget ==
    /\ replays # {}
    /\ replays' = {} /\ done' = {}
    /\ UNCHANGED <<versions, conflicts, clientVars>>

Step(c) ==
    \/ StartPush(c)
    \/ StartDelete(c)
    \/ FetchForPush(c)
    \/ FetchForDelete(c)
    \/ PushReplayed(c)
    \/ PushAccepted(c)
    \/ PushConflicts(c)
    \/ PushRefused(c)
    \/ DeleteAccepted(c)
    \/ DeleteRepeated(c)
    \/ DeleteConflicts(c)
    \/ Resolve(c)
    \/ Fails(c)

Next == Forget \/ \E c \in Client : Step(c)

Spec == Init /\ [][Next]_vars

-----------------------------------------------------------------------------
(***************************************************************************)
(* Properties                                                              *)
(***************************************************************************)

\* c's request was handled in this step, or failed on the way.
Sent(c) == pc[c] = "send" /\ pc'[c] # "send"

\* c's push was answered 2xx: it reports "Pushed" unless the answer is lost.
Pushed(c) == PushReplayed(c) \/ PushAccepted(c)

\* A default push or delete replaces no live version but the one it fetched,
\* and without --force a push replaces nothing but the empty document or its
\* own content: what the gate judged is what the server compares.
ReplacesOnlyWhatItSaw ==
    [][\A c \in Client :
        Sent(c) /\ job[c].pin = NoPin /\ versions' # versions /\ Live =>
            /\ saw[c] = Revision
            /\ job[c].op = "push" /\ ~job[c].force => Row.content \in {Empty, job[c].content}]_vars

\* A push or delete without a pin leaves a conflict artifact only if the
\* document changed after the client fetched it.
NoPhantomConflict ==
    [][\A c \in Client :
        Sent(c) /\ job[c].pin = NoPin /\ conflicts' # conflicts => saw[c] # Revision]_vars

\* Running a push again after it took effect (its answer lost or not)
\* makes neither a second revision nor an artifact, within 24 hours.
RerunChangesNothing ==
    [][\A c \in Client :
        Sent(c) /\ job[c].op = "push" /\ <<ActorOf[c], Command(job[c])>> \in done =>
            UNCHANGED <<versions, conflicts>>]_vars

\* "Pushed" after a push pinned to revision r > 0 is true: revision r + 1
\* has the content pushed (this is how a history version is restored).
PinnedPushTakes ==
    [][\A c \in Client :
        LET j == job[c]
        IN  Pushed(c) /\ j.pin # NoPin /\ j.pin.rev > 0 =>
                /\ Len(versions') > j.pin.rev
                /\ versions'[j.pin.rev + 1] = [content |-> j.content, deleted |-> FALSE]]_vars
=============================================================================
