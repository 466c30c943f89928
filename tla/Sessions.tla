---------------------------- MODULE Sessions ----------------------------
(***************************************************************************)
(* The human session of the CLI: several processes of one user share the   *)
(* credentials file, each holds a copy of one server's pair in memory, and *)
(* withLazyRefresh (auth/session.cpp) rotates that pair when a call is     *)
(* answered 401.  A process runs one command:                              *)
(*                                                                         *)
(*   "call"    whoami and the business commands: any number of requests,   *)
(*             the first failure ends the command                          *)
(*   "listen"  event listen: one request per connection attempt, network   *)
(*             failures lead to another attempt with the same session      *)
(*   "login"   an approved device flow followed by saveSession             *)
(*   "logout"  POST /auth/logout, then eraseSession whatever it answered   *)
(*                                                                         *)
(* A request and the handling of its answer are one step: the server acts  *)
(* at one instant and the client does nothing while it waits, so what      *)
(* other processes do meanwhile is an interleaving before or after.        *)
(* Commands whose answer changes nothing (a 2xx, a business rejection, a   *)
(* load that throws CREDENTIAL_STORE_ERROR or AUTH_REQUIRED) are stutters. *)
(***************************************************************************)
EXTENDS TokenServer, CredentialFile

CONSTANT Overlap    \* may a command start while another one runs?

ASSUME OverlapAssumption == Overlap \in BOOLEAN

VARIABLES
    pc,         \* where each process is
    cmd,        \* its command
    at,         \* the URL it works on
    mem,        \* the pair in memory; NoToken while erasing
    lost,       \* history: families whose latest rotation never reached
                \* the file (reply, write or process lost on the way)
    contested   \* history: families held by two processes at once, or whose
                \* older pair a whole-file write put back

procVars == <<pc, cmd, at, mem>>
vars == <<serverVars, storeVars, procVars, lost, contested>>

Idle == "idle"
Storing == {"store", "rename"}
Phase == {Idle, "ready", "refresh", "recall", "revoke"} \cup Storing
Session == {"call", "listen"}
Command == Session \cup {"login", "logout"}

TypeOK ==
    /\ ServerTypeOK
    /\ StoreTypeOK
    /\ pc \in [Proc -> Phase]
    /\ cmd \in [Proc -> Command]
    /\ at \in [Proc -> Url]
    /\ mem \in [Proc -> MaybeToken]
    /\ lost \subseteq Family
    /\ contested \subseteq Family

\* The values of cmd and at mean nothing while a process is idle.
NoCommand == "call"
NoUrl == CHOOSE u \in Url : TRUE

Init ==
    /\ ServerInit
    /\ StoreInit
    /\ pc = [p \in Proc |-> Idle]
    /\ cmd = [p \in Proc |-> NoCommand]
    /\ at = [p \in Proc |-> NoUrl]
    /\ mem = [p \in Proc |-> NoToken]
    /\ lost = {}
    /\ contested = {}

-----------------------------------------------------------------------------
(***************************************************************************)
(* Control shared by the actions                                           *)
(***************************************************************************)

Active(p) == pc[p] # Idle

MayStart(p) == /\ ~Active(p)
               /\ Overlap \/ \A q \in Proc : ~Active(q)

Goes(p, phase) ==
    /\ pc' = [pc EXCEPT ![p] = phase]
    /\ UNCHANGED <<cmd, at, mem>>

GoesHolding(p, phase, t) ==
    /\ pc' = [pc EXCEPT ![p] = phase]
    /\ mem' = [mem EXCEPT ![p] = t]
    /\ UNCHANGED <<cmd, at>>

Starts(p, phase, c, u, t) ==
    /\ pc' = [pc EXCEPT ![p] = phase]
    /\ cmd' = [cmd EXCEPT ![p] = c]
    /\ at' = [at EXCEPT ![p] = u]
    /\ mem' = [mem EXCEPT ![p] = t]

\* The process ends, normally or by an error it reports.
Exits(p) == Starts(p, Idle, NoCommand, NoUrl, NoToken)

\* NETWORK_ERROR or TIMEOUT: fatal, except that runListenLoop catches it and
\* connects again with the session it has.
NetworkError(p) ==
    IF cmd[p] = "listen" THEN Goes(p, "ready") ELSE Exits(p)

\* p has a rotated pair that the file does not have yet.
Unsaved(p) == pc[p] \in Storing /\ cmd[p] \in Session /\ mem[p] # NoToken

\* The rotation p has in flight, if any, will not reach the file.
LosesUnsaved(p) ==
    lost' = IF Unsaved(p) THEN lost \cup {mem[p].family} ELSE lost

\* Families some other process holds a pair of.
HeldByOthers(p) ==
    {f \in Family : \E q \in Proc \ {p} : mem[q] # NoToken /\ mem[q].family = f}

\* Families whose spent pair p's snapshot brings back into the file.
PutBack(p) ==
    {f \in Family : \E u \in Url :
        /\ temp[p][u] # NoToken
        /\ temp[p][u].family = f
        /\ Spent(temp[p][u])
        /\ file # Malformed => temp[p][u] # file[u]}

-----------------------------------------------------------------------------
(***************************************************************************)
(* Starting a command                                                      *)
(***************************************************************************)

\* requireSession for a call or a listener, loadSession for a logout.
Load(p, u, c) ==
    /\ MayStart(p)
    /\ Readable
    /\ Stored(u) # NoToken
    /\ Starts(p, IF c = "logout" THEN "revoke" ELSE "ready", c, u, Stored(u))
    /\ contested' = contested \cup ({Stored(u).family} \cap HeldByOthers(p))
    /\ UNCHANGED <<serverVars, storeVars, lost>>

\* Mutant: the session is filed under the default server.
LoginMisfiled(p, f) ==
    /\ MayStart(p)
    /\ Issues(f)
    /\ Starts(p, "store", "login", NoUrl, [family |-> f, gen |-> 0])
    /\ UNCHANGED <<storeVars, lost, contested>>

\* runDeviceFlow returned a session of a new family; saveSession follows.
LoginApproved(p, f) ==
    /\ MayStart(p)
    /\ Issues(f)
    /\ Starts(p, "store", "login", Home[f], [family |-> f, gen |-> 0])
    /\ UNCHANGED <<storeVars, lost, contested>>

\* The command has made its last request (or was interrupted between two).
Finish(p) ==
    /\ pc[p] = "ready"
    /\ Exits(p)
    /\ UNCHANGED <<serverVars, storeVars, lost, contested>>

-----------------------------------------------------------------------------
(***************************************************************************)
(* withLazyRefresh                                                         *)
(***************************************************************************)

\* The first call is answered 401.
CallRejected(p) ==
    /\ pc[p] = "ready"
    /\ Goes(p, "refresh")
    /\ UNCHANGED <<serverVars, storeVars, lost, contested>>

\* Mutant: the call is replayed without saving the pair.
ReplayUnsaved(p) ==
    /\ pc[p] = "refresh"
    /\ Rotates(mem[p])
    /\ GoesHolding(p, "recall", Successor(mem[p]))
    /\ UNCHANGED <<storeVars, lost, contested>>

\* Mutant: only the access token is taken from the answer.
KeepRefreshToken(p) ==
    /\ pc[p] = "refresh"
    /\ Rotates(mem[p])
    /\ GoesHolding(p, "store", mem[p])
    /\ UNCHANGED <<storeVars, lost, contested>>

\* 200 with a usable pair: the session in memory takes it.
RefreshRotated(p) ==
    /\ pc[p] = "refresh"
    /\ Rotates(mem[p])
    /\ GoesHolding(p, "store", Successor(mem[p]))
    /\ UNCHANGED <<storeVars, lost, contested>>

\* The server rotated, the reply did not arrive.
RefreshReplyLost(p) ==
    /\ pc[p] = "refresh"
    /\ Rotates(mem[p])
    /\ NetworkError(p)
    /\ lost' = lost \cup {mem[p].family}
    /\ UNCHANGED <<storeVars, contested>>

\* 200 without usable JSON or without both fields: PROTOCOL_INCOMPATIBLE.
RefreshGarbled(p) ==
    /\ pc[p] = "refresh"
    /\ Rotates(mem[p])
    /\ Exits(p)
    /\ lost' = lost \cup {mem[p].family}
    /\ UNCHANGED <<storeVars, contested>>

\* 401: the local pair is given up, eraseSession follows.
RefreshRejected(p) ==
    /\ pc[p] = "refresh"
    /\ Rejects(mem[p])
    /\ GoesHolding(p, "store", NoToken)
    /\ UNCHANGED <<storeVars, lost, contested>>

\* The server rejected, the reply did not arrive.
RejectionLost(p) ==
    /\ pc[p] = "refresh"
    /\ Rejects(mem[p])
    /\ NetworkError(p)
    /\ UNCHANGED <<storeVars, lost, contested>>

\* Mutant: every failed refresh counts as a dead session.
UnservedErases(p) ==
    /\ pc[p] = "refresh"
    /\ GoesHolding(p, "store", NoToken)
    /\ UNCHANGED <<serverVars, storeVars, lost, contested>>

\* The request did not arrive, or any status but 200 and 401.
RefreshUnserved(p) ==
    /\ pc[p] = "refresh"
    /\ NetworkError(p)
    /\ UNCHANGED <<serverVars, storeVars, lost, contested>>

\* The replay with the new pair is answered; anything but a 401 lets the
\* command go on.
RecallAnswered(p) ==
    /\ pc[p] = "recall"
    /\ MayAccept(mem[p])
    /\ Goes(p, "ready")
    /\ UNCHANGED <<serverVars, storeVars, lost, contested>>

\* A second 401 is returned to the caller, which throws.
RecallRejected(p) ==
    /\ pc[p] = "recall"
    /\ Exits(p)
    /\ UNCHANGED <<serverVars, storeVars, lost, contested>>

RecallLost(p) ==
    /\ pc[p] = "recall"
    /\ NetworkError(p)
    /\ UNCHANGED <<serverVars, storeVars, lost, contested>>

-----------------------------------------------------------------------------
(***************************************************************************)
(* Logout                                                                  *)
(***************************************************************************)

\* The server ends the family; eraseSession follows.
LogoutServed(p) ==
    /\ pc[p] = "revoke"
    /\ EndsFamily(mem[p].family)
    /\ GoesHolding(p, "store", NoToken)
    /\ UNCHANGED <<storeVars, lost, contested>>

\* The request failed or was refused: a warning at most, and eraseSession.
LogoutUnserved(p) ==
    /\ pc[p] = "revoke"
    /\ GoesHolding(p, "store", NoToken)
    /\ UNCHANGED <<serverVars, storeVars, lost, contested>>

-----------------------------------------------------------------------------
(***************************************************************************)
(* saveSession (mem[p] a pair) and eraseSession (mem[p] = NoToken)         *)
(***************************************************************************)

StoreWritten(p) ==
    /\ pc[p] = "store"
    /\ WritesTemp(p, at[p], mem[p])
    /\ Goes(p, "rename")
    /\ UNCHANGED <<serverVars, lost, contested>>

\* After a refresh the call is replayed; every other writer is done.
StoreRenamed(p) ==
    /\ pc[p] = "rename"
    /\ Complete(p)
    /\ RenamesTemp(p)
    /\ IF Unsaved(p) THEN Goes(p, "recall") ELSE Exits(p)
    /\ contested' = contested \cup PutBack(p)
    /\ UNCHANGED <<serverVars, lost>>

\* Mutant: a failed save is ignored and the call replayed.
FailureIgnored(p) ==
    /\ pc[p] \in Storing
    /\ AbandonsTemp(p)
    /\ IF Unsaved(p) THEN Goes(p, "recall") ELSE Exits(p)
    /\ UNCHANGED <<serverVars, lost, contested>>

\* No directory, no space, no permission: CREDENTIAL_STORE_ERROR, which no
\* caller catches.
StoreFailed(p) ==
    /\ pc[p] \in Storing
    /\ AbandonsTemp(p)
    /\ LosesUnsaved(p)
    /\ Exits(p)
    /\ UNCHANGED <<serverVars, contested>>

-----------------------------------------------------------------------------
(***************************************************************************)
(* Crash (or Ctrl+C), and what servers do on their own                     *)
(***************************************************************************)

Crash(p) ==
    /\ Active(p)
    /\ AbandonsTemp(p)
    /\ LosesUnsaved(p)
    /\ Exits(p)
    /\ UNCHANGED <<serverVars, contested>>

RevokeFamily(f) ==
    /\ EndsFamily(f)
    /\ UNCHANGED <<storeVars, procVars, lost, contested>>

Refresh(p) ==
    \/ RefreshRotated(p)
    \/ RefreshReplyLost(p)
    \/ RefreshGarbled(p)
    \/ RefreshRejected(p)
    \/ RejectionLost(p)
    \/ RefreshUnserved(p)

Step(p) ==
    \/ \E u \in Url, c \in Session \cup {"logout"} : Load(p, u, c)
    \/ \E f \in Family : LoginApproved(p, f)
    \/ Finish(p)
    \/ CallRejected(p)
    \/ Refresh(p)
    \/ RecallAnswered(p)
    \/ RecallRejected(p)
    \/ RecallLost(p)
    \/ LogoutServed(p)
    \/ LogoutUnserved(p)
    \/ StoreWritten(p)
    \/ StoreRenamed(p)
    \/ StoreFailed(p)
    \/ Crash(p)

Next ==
    \/ \E p \in Proc : Step(p)
    \/ \E f \in Family : RevokeFamily(f)

Spec == Init /\ [][Next]_vars

-----------------------------------------------------------------------------
(***************************************************************************)
(* Properties under every interleaving                                     *)
(***************************************************************************)

\* A pair is stored, held and presented only for the server that issued it:
\* rewriting the whole file never files one server's credentials under
\* another (ARCHITECTURE.md, "each server keeps its own credentials").
TokenAtHome ==
    /\ \A u \in Url : Readable /\ Stored(u) # NoToken => Home[Stored(u).family] = u
    /\ \A p \in Proc : mem[p] # NoToken => Home[mem[p].family] = at[p]

\* No crash, write failure or second writer makes a usable file unusable:
\* writeFileAtomic exposes only flushed contents.
NeverTorn == [][file # Malformed => file' # Malformed]_file

\* A server sees a spent refresh token, and revokes the family, only if the
\* rotation that spent it was lost on its way to the file, or two processes
\* held the family at the same time, or one of them wrote an older pair
\* back: withLazyRefresh by itself never replays a token it has spent.
ReplayHasCause == replayed \subseteq lost \cup contested

\* The pair in the file is one the server still takes for a refresh, unless
\* it has one of those causes or its rotation is being saved right now.
StoredPairUsable ==
    Readable => \A u \in Url :
        Stored(u) # NoToken /\ Spent(Stored(u)) =>
            \/ Stored(u).family \in lost \cup contested
            \/ \E p \in Proc : Unsaved(p) /\ mem[p].family = Stored(u).family

-----------------------------------------------------------------------------
(***************************************************************************)
(* Properties of commands that do not overlap                              *)
(***************************************************************************)

\* "The local pair is dead" (session.cpp): what a rejected refresh is about
\* to erase belongs to a family the server has revoked.
ErasedPairIsDead ==
    \A p \in Proc :
        /\ pc[p] \in Storing /\ cmd[p] \in Session /\ mem[p] = NoToken
        /\ Readable /\ Stored(at[p]) # NoToken
        => Stored(at[p]).family \in revoked

\* The call is replayed only with a pair the file already has, so a crash or
\* a failure of the replay costs nothing.
PersistedBeforeReplay ==
    \A p \in Proc : pc[p] = "recall" => Readable /\ Stored(at[p]) = mem[p]

\* One register per server: a command changes the entry of its own server
\* only, a refresh moves it one generation forward, and an entry that is
\* gone comes back by a login only.
Register == INSTANCE SessionRegister WITH stored <- TolerantRoot
RegisterSpec == Register!Spec
=============================================================================
