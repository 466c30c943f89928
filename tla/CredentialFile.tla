------------------------- MODULE CredentialFile -------------------------
(***************************************************************************)
(* ~/.astral-cli/credentials.json and how a process rewrites it:           *)
(* FileCredentialStore (platform/credential_store.cpp) over                *)
(* writeFileAtomic (platform/atomic_file.cpp).  Every mutator reads the    *)
(* whole root, changes one entry and renames a complete temporary file     *)
(* over the target.  The store's mutex lives inside one process: nothing   *)
(* orders the steps of two processes.                                      *)
(*                                                                         *)
(* A missing file reads as the empty root, so the two are one value.  The  *)
(* temporary file of a process that died keeps its random name, is read by *)
(* nobody, and is not represented.                                         *)
(***************************************************************************)
EXTENDS Tokens

CONSTANTS
    Proc,       \* CLI processes of one user
    Malformed,  \* contents that readRoot cannot use
    NoTemp      \* the process has no temporary file

VARIABLES
    file,       \* the target: Malformed, or the "sessions" slot by URL
    temp        \* temp[p]: contents of p's temporary file

storeVars == <<file, temp>>

Root == [Url -> MaybeToken]
EmptyRoot == [u \in Url |-> NoToken]

ASSUME ContentsAssumption ==
    /\ Malformed \notin Root
    /\ NoTemp \notin Root \cup {Malformed}

StoreTypeOK ==
    /\ file \in Root \cup {Malformed}
    /\ temp \in [Proc -> Root \cup {Malformed, NoTemp}]

\* Tests pin both a fresh directory and a damaged file; stored entries come
\* from the actions.
StoreInit ==
    /\ file \in {EmptyRoot, Malformed}
    /\ temp = [p \in Proc |-> NoTemp]

\* readRoot(tolerant = false) returns; otherwise CREDENTIAL_STORE_ERROR.
Readable == file # Malformed

\* readRoot(tolerant = true): damage reads as the fresh root.
TolerantRoot == IF Readable THEN file ELSE EmptyRoot

\* loadSession: what a reader gets for u (it must be Readable).
Stored(u) == file[u]

\* Mutant: a rebuilt root holds the changed entry only.
ForgetsOthers(p, u, t) ==
    /\ \E short \in BOOLEAN :
        temp' = [temp EXCEPT ![p] =
                    IF short THEN Malformed ELSE [EmptyRoot EXCEPT ![u] = t]]
    /\ UNCHANGED file

\* Mutant: the target is opened and truncated instead of a temporary file.
TruncatesTarget(p, u, t) ==
    /\ file' = Malformed
    /\ temp' = [temp EXCEPT ![p] = [TolerantRoot EXCEPT ![u] = t]]

\* saveSession (t a pair) or eraseSession (t = NoToken) up to the temporary
\* file: the whole root as read now, one entry changed.  The write may come
\* out short; `output.flush(); if (!output)` is how the writer knows.
WritesTemp(p, u, t) ==
    /\ \E short \in BOOLEAN :
        temp' = [temp EXCEPT ![p] =
                    IF short THEN Malformed ELSE [TolerantRoot EXCEPT ![u] = t]]
    /\ UNCHANGED file

\* The check after the flush let the writer go on.
Complete(p) == temp[p] # Malformed

\* rename(temp, target).
RenamesTemp(p) ==
    /\ file' = temp[p]
    /\ temp' = [temp EXCEPT ![p] = NoTemp]

\* Any failure on the way removes the temporary file; a crash abandons it.
AbandonsTemp(p) ==
    /\ temp' = [temp EXCEPT ![p] = NoTemp]
    /\ UNCHANGED file
=============================================================================
