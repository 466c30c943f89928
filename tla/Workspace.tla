----------------------------- MODULE Workspace -----------------------------
(***************************************************************************)
(* Directories bound to workspaces: astral init (commands/init_cmd.cpp)    *)
(* writes .astral/config.json in some steps, other commands go by the      *)
(* nearest file, by --server and --workspace or by the environment         *)
(* (workspace/resolve.cpp, auth/api.cpp, profile and doctor), while        *)
(* workspaces are created, renamed and hidden on their servers and files   *)
(* change under the program's feet.                                        *)
(***************************************************************************)
EXTENDS FiniteSets, Naturals

CONSTANTS
    Client,         \* processes, all of one user
    Server,
    Id,             \* workspace ids
    HomeOf,         \* HomeOf[i]: the server that has i, if it exists
    Name,
    Dir,
    Parent,         \* Parent[d]: the directory above d; the top is its own
    InitLine,       \* the init command lines that users give
    CommandLine,    \* and the others: flags, environment and directory
    None            \* no name, id, binding, flag

ASSUME WorkspaceAssumption ==
    /\ HomeOf \in [Id -> Server]
    /\ Parent \in [Dir -> Dir]
    /\ None \notin Id \cup Name \cup Server

VARIABLES
    nameOf,         \* nameOf[i]: None if i does not exist
    slugOf,         \* slugOf[i]: the name i was made with
    visible,        \* the workspaces the user is a member of
    file,           \* file[d]: what .astral/config.json of d says
    pc, job,        \* of init
    target,         \* target[c]: the workspace init has found or made
    called,         \* called[c]: its name in the verifying answer
    seen,           \* seen[c]: the binding init has read
    verified,       \* history: the workspace init verified for the file of d
    excuse,         \* history: why "taken" may be a surprise to c
    outcome         \* the command just run, and what it reached

vars == <<nameOf, slugOf, visible, file, pc, job, target, called, seen, verified, excuse, outcome>>
serverVars == <<nameOf, slugOf, visible>>
initVars == <<pc, job, target, called, seen>>

Malformed == [id |-> None, name |-> None]
Unbound == [id |-> None, name |-> "unbound"]
Binding == [id : Id, name : Name]

InitJob == [dir : Dir, server : Server, name : Name, create : BOOLEAN, rebind : BOOLEAN]
NoJob == [dir |-> None]

\* --server and --workspace, or ASTRAL_SERVER and ASTRAL_WORKSPACE.
Asked == [server : Server \cup {None}, name : Name \cup {None}]

ASSUME LineAssumption ==
    /\ InitLine \subseteq InitJob
    /\ CommandLine \subseteq [flags : Asked, env : Asked, dir : Dir]

NoOutcome == [by |-> "nothing"]

TypeOK ==
    /\ nameOf \in [Id -> Name \cup {None}]
    /\ slugOf \in [Id -> Name \cup {None}]
    /\ visible \subseteq Id
    /\ file \in [Dir -> Binding \cup {Malformed, Unbound}]
    /\ pc \in [Client -> {"idle", "lookup", "create", "verify", "read", "write"}]
    /\ job \in [Client -> InitJob \cup {NoJob}]
    /\ target \in [Client -> Id \cup {None}]
    /\ called \in [Client -> Name \cup {None}]
    /\ seen \in [Client -> Binding \cup {Unbound}]
    /\ verified \in [Dir -> Id \cup {None}]
    /\ excuse \in [Client -> BOOLEAN]

\* Names and slugs of a server are told apart by nobody: both are taken.
Named(s, n) == {i \in Id : HomeOf[i] = s /\ n \in {nameOf[i], slugOf[i]}}

\* GET /workspaces?name=: exact name or slug, and only what the user may see.
Found(s, n) == Named(s, n) \cap visible

Init ==
    /\ nameOf = [i \in Id |-> None] /\ slugOf = [i \in Id |-> None]
    /\ visible = {}
    /\ file = [d \in Dir |-> Unbound]
    /\ pc = [c \in Client |-> "idle"]
    /\ job = [c \in Client |-> NoJob]
    /\ target = [c \in Client |-> None] /\ called = [c \in Client |-> None]
    /\ seen = [c \in Client |-> Unbound]
    /\ verified = [d \in Dir |-> None]
    /\ excuse = [c \in Client |-> FALSE]
    /\ outcome = NoOutcome

-----------------------------------------------------------------------------
(***************************************************************************)
(* Servers and files on their own                                          *)
(***************************************************************************)

\* Whoever waits to create (s, n) is excused when somebody else takes it.
Excuses(s, n) ==
    [c \in Client |-> excuse[c] \/ (pc[c] = "create" /\ job[c].server = s /\ job[c].name = n)]

\* Another user makes or renames a workspace; its slug stays.
Names(i, n) ==
    /\ Named(HomeOf[i], n) \subseteq {i} /\ nameOf[i] # n
    /\ nameOf' = [nameOf EXCEPT ![i] = n]
    /\ slugOf' = [slugOf EXCEPT ![i] = IF nameOf[i] = None THEN n ELSE @]
    /\ excuse' = Excuses(HomeOf[i], n)
    /\ outcome' = NoOutcome
    /\ UNCHANGED <<visible, file, initVars, verified>>

\* The user becomes, or is no longer, a member.
Membership(i) ==
    /\ nameOf[i] # None
    /\ visible' = (visible \ {i}) \cup ({i} \ visible)
    /\ outcome' = NoOutcome
    /\ UNCHANGED <<nameOf, slugOf, file, initVars, verified, excuse>>

\* The file is removed, or spoiled by an edit or a merge.
Edited(d) ==
    /\ file[d] # Unbound
    /\ \E f \in {Unbound, Malformed} : file' = [file EXCEPT ![d] = f]
    /\ verified' = [verified EXCEPT ![d] = None]
    /\ outcome' = NoOutcome
    /\ UNCHANGED <<serverVars, initVars, excuse>>

-----------------------------------------------------------------------------
(***************************************************************************)
(* astral init                                                             *)
(***************************************************************************)

Ends(c) ==
    /\ pc' = [pc EXCEPT ![c] = "idle"]
    /\ job' = [job EXCEPT ![c] = NoJob]
    /\ target' = [target EXCEPT ![c] = None] /\ called' = [called EXCEPT ![c] = None]
    /\ seen' = [seen EXCEPT ![c] = Unbound]
    /\ outcome' = NoOutcome

Quits(c) == Ends(c) /\ excuse' = [excuse EXCEPT ![c] = FALSE]

GoesOn(c, next) ==
    /\ pc' = [pc EXCEPT ![c] = next]
    /\ outcome' = NoOutcome
    /\ UNCHANGED job

StartInit(c, j) ==
    /\ pc[c] = "idle"
    /\ pc' = [pc EXCEPT ![c] = "lookup"]
    /\ job' = [job EXCEPT ![c] = j]
    /\ outcome' = NoOutcome
    /\ UNCHANGED <<serverVars, file, target, called, seen, verified, excuse>>

\* Mutant: --create does not look first.
UnlessCreating(j) == IF j.create THEN {} ELSE Found(j.server, j.name)

LookedUp(j) == Found(j.server, j.name)

\* Not found is an error without --create.
Lookup(c) ==
    /\ pc[c] = "lookup"
    /\ UNCHANGED <<serverVars, file, verified>>
    /\ LET hits == LookedUp(job[c])
       IN  \/ /\ hits # {}
              /\ \E i \in hits : target' = [target EXCEPT ![c] = i]
              /\ GoesOn(c, "verify") /\ UNCHANGED <<called, seen, excuse>>
           \/ /\ hits = {} /\ job[c].create
              /\ excuse' = [excuse EXCEPT ![c] =
                    Named(job[c].server, job[c].name) \ visible # {}]
              /\ GoesOn(c, "create") /\ UNCHANGED <<target, called, seen>>
           \/ hits = {} /\ ~job[c].create /\ Quits(c)

\* 201; the answer may be lost.
Creates(c) ==
    /\ pc[c] = "create"
    /\ Named(job[c].server, job[c].name) = {}
    /\ \E i \in Id :
          /\ HomeOf[i] = job[c].server /\ nameOf[i] = None
          /\ nameOf' = [nameOf EXCEPT ![i] = job[c].name]
          /\ slugOf' = [slugOf EXCEPT ![i] = job[c].name]
          /\ visible' = visible \cup {i}
          /\ excuse' = [Excuses(job[c].server, job[c].name) EXCEPT ![c] = FALSE]
          /\ \/ /\ target' = [target EXCEPT ![c] = i]
                /\ GoesOn(c, "verify") /\ UNCHANGED <<called, seen>>
             \/ Ends(c)
    /\ UNCHANGED <<file, verified>>

\* 409: "name is already taken".
Taken(c) ==
    /\ pc[c] = "create"
    /\ Named(job[c].server, job[c].name) # {}
    /\ Quits(c)
    /\ UNCHANGED <<serverVars, file, verified>>

\* GET /workspaces/{id}; 404 if it is not, or no longer, visible.
Verify(c) ==
    /\ pc[c] = "verify"
    /\ UNCHANGED <<serverVars, file, verified>>
    /\ \/ /\ target[c] \in visible
          /\ called' = [called EXCEPT ![c] = nameOf[target[c]]]
          /\ GoesOn(c, "read") /\ UNCHANGED <<target, seen, excuse>>
       \/ target[c] \notin visible /\ Quits(c)

\* Mutant: the same workspace is the one of the same name.
SameName(b, i) == b.name = nameOf[i]

SameTarget(b, i) == b.id = i

\* A malformed file and, without --rebind, another workspace's are errors.
ReadExisting(c) ==
    LET b == file[job[c].dir]
    IN  /\ pc[c] = "read"
        /\ UNCHANGED <<serverVars, file, verified>>
        /\ \/ /\ b = Unbound \/ (b # Malformed /\ (SameTarget(b, target[c]) \/ job[c].rebind))
              /\ seen' = [seen EXCEPT ![c] = b]
              /\ GoesOn(c, "write") /\ UNCHANGED <<target, called, excuse>>
           \/ /\ b # Unbound
              /\ b = Malformed \/ (~SameTarget(b, target[c]) /\ ~job[c].rebind)
              /\ Quits(c)

\* The whole file at once (writeFileAtomic), a same binding's too, with the
\* name the workspace had when it was verified.
Write(c) ==
    /\ pc[c] = "write"
    /\ file' = [file EXCEPT ![job[c].dir] = [id |-> target[c], name |-> called[c]]]
    /\ verified' = [verified EXCEPT ![job[c].dir] = target[c]]
    /\ Quits(c)
    /\ UNCHANGED serverVars

\* A request or a write fails, or the process dies.
Fails(c) ==
    /\ pc[c] # "idle"
    /\ Quits(c)
    /\ UNCHANGED <<serverVars, file, verified>>

-----------------------------------------------------------------------------
(***************************************************************************)
(* Other commands                                                          *)
(***************************************************************************)

\* The directories from d upwards.
Above(d) ==
    {a \in Dir : \A S \in SUBSET Dir :
        d \in S /\ (\A x \in S : Parent[x] \in S) => a \in S}

\* findBindingDir: of the directories with a file the nearest.
Nearest(d) ==
    {a \in Above(d) : file[a] # Unbound /\ \A b \in Above(d) : file[b] # Unbound => a \in Above(b)}

Spoiled(d) == \E a \in Nearest(d) : file[a] = Malformed

Both(asked) == asked.server # None /\ asked.name # None
Neither(asked) == asked.server = None /\ asked.name = None

\* Mutant: the name in the file is looked up.
ByName(b, d) ==
    [by |-> "binding", dir |-> d, id |->
        LET hits == Found(HomeOf[b.id], b.name)
        IN  IF hits = {} THEN None ELSE CHOOSE i \in hits : TRUE]

\* An id from a binding is used as it is.
ByBinding(b, d) == [by |-> "binding", dir |-> d, id |-> b.id]

ByLookup(asked) ==
    LET hits == Found(asked.server, asked.name)
    IN  [by |-> "name", asked |-> asked,
         id |-> IF hits = {} THEN None ELSE CHOOSE i \in hits : TRUE]

Failure(asked, d) == [by |-> "failure", asked |-> asked, dir |-> d]

\* openWorkspace.  The file is read before the flags are looked at.
WorkspaceReached(flags, env, d) ==
    CASE Spoiled(d)                                -> Failure(flags, d)
      [] ~Spoiled(d) /\ Both(flags)                -> ByLookup(flags)
      [] ~Spoiled(d) /\ ~Both(flags) /\ ~Neither(flags) -> Failure(flags, d)
      [] ~Spoiled(d) /\ Neither(flags) /\ Nearest(d) # {} ->
            LET a == CHOOSE x \in Nearest(d) : TRUE IN ByBinding(file[a], a)
      [] ~Spoiled(d) /\ Neither(flags) /\ Nearest(d) = {} ->
            IF Both(env) THEN ByLookup(env) ELSE Failure(flags, d)

\* profile: a flag, the binding's server, the environment.
ServerReached(flags, env, d) ==
    IF flags.server # None THEN [by |-> "server", server |-> flags.server]
    ELSE IF Spoiled(d) THEN Failure(flags, d)
    ELSE IF Nearest(d) # {}
         THEN [by |-> "server", server |-> HomeOf[file[CHOOSE x \in Nearest(d) : TRUE].id]]
         ELSE IF env.server # None THEN [by |-> "server", server |-> env.server]
              ELSE Failure(flags, d)

\* doctor reports a malformed file and, without ASTRAL_SERVER, reads it again.
Diagnosed(env, d) ==
    IF Spoiled(d) /\ env.server = None THEN Failure(env, d)
    ELSE [by |-> "report", dir |-> d]

Runs(flags, env, d) ==
    /\ outcome' \in {WorkspaceReached(flags, env, d), ServerReached(flags, env, d),
                     Diagnosed(env, d)}
    /\ UNCHANGED <<serverVars, file, initVars, verified, excuse>>

Next ==
    \/ \E c \in Client :
          \/ \E j \in InitLine : StartInit(c, j)
          \/ Lookup(c) \/ Creates(c) \/ Taken(c) \/ Verify(c)
          \/ ReadExisting(c) \/ Write(c) \/ Fails(c)
    \/ \E l \in CommandLine : Runs(l.flags, l.env, l.dir)
    \/ \E i \in Id : Membership(i) \/ \E n \in Name : Names(i, n)
    \/ \E d \in Dir : Edited(d)

Spec == Init /\ [][Next]_vars

-----------------------------------------------------------------------------
(***************************************************************************)
(* Properties                                                              *)
(***************************************************************************)

\* init replaces the binding of another workspace, or a file it cannot read,
\* only with --rebind, or if the file has changed since init read it: between
\* the reading and the writing nothing holds it (init_cmd.cpp, step 4).
ReplacesOnlyWithLeave ==
    [][\A c \in Client : Write(c) =>
          LET b == file[job[c].dir]
          IN  \/ b = Unbound \/ b.id = target[c]
              \/ b # seen[c]
              \/ b # Malformed /\ job[c].rebind]_vars

\* Whoever goes by a binding reaches the workspace that init verified for
\* that file, whatever has been renamed and whose name has been reused since:
\* the id has authority, not the name (resolveWorkspace).
ReachesVerified ==
    outcome.by = "binding" => outcome.id = verified[outcome.dir]

\* init --create finds a name "already taken" only if it is the name of a
\* workspace the user does not see, or was taken after init looked: run again
\* after a lost answer to its creation, it finds the workspace it made.
TakenHasCause == [][\A c \in Client : Taken(c) => excuse[c]]_vars
=============================================================================
