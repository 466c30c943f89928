------------------------------- MODULE Tasks -------------------------------
(***************************************************************************)
(* astral todo claim, done, update, move, release, dep and tag             *)
(* (commands/todo_cmd.cpp) on tasks that exist, by several clients at once *)
(* and together with astral tags.  The commands that carry an              *)
(* expected_revision read it first, task by task, unless --revision pins   *)
(* it; the others are blind and rely on the server being idempotent.       *)
(*                                                                         *)
(* The server follows the claim, task_batch, task_tags and                 *)
(* task_dependencies entries of protocol/snapshots/v2/MANIFEST.json.       *)
(***************************************************************************)
EXTENDS Tags, FiniteSets

CONSTANTS
    Task,
    Root,           \* the workspace as a container
    Nobody,         \* no assignee
    MaxRevision     \* bound: revisions of a task

ASSUME TaskAssumption ==
    /\ Root \notin Task /\ Nobody \notin Actor
    /\ MaxRevision \in Nat \ {0}

VARIABLES
    rows,       \* the tasks
    attached,   \* attached[t]: the tags of t
    edges,      \* <<dependent, blocker, kind>>
    base,       \* base[c][t]: the revision c has for t, 0 if none
    moved       \* history: the tasks that changed since c read them

taskVars == <<rows, attached, edges>>
clientVars == <<pc, job, ref, base, moved>>
vars == <<tagVars, taskVars, clientVars>>

Status == {"open", "in_progress", "done"}
Kind == {"blocks", "relates"}
Row == [rev : 1..MaxRevision, status : Status,
        assignee : Actor \cup {Nobody}, parent : Task \cup {Root}]

NoPin == 0
Keep == "keep"      \* a field that is not in the request
One == {{t} : t \in Task}

\* ids are the tasks that are named, by done perhaps more than once.
GuardedJob ==
    LET pins == 0..MaxRevision
    IN  [op : {"claim"}, ids : One, pin : pins]
        \cup [op : {"done"}, ids : SUBSET Task \ {{}}, repeated : BOOLEAN, pin : pins]
        \cup [op : {"update"}, ids : One, pin : pins,
              status : Status \cup {Keep}, assignee : Actor \cup {Nobody, Keep}]
        \cup [op : {"move"}, ids : One, pin : {NoPin}, to : Task \cup {Root}]

BlindJob ==
    [op : {"release"}, ids : One]
    \cup [op : {"depAdd", "depRemove"}, ids : One, on : Task, kind : Kind]

TagUseJob == [op : {"attach", "detach"}, ids : One, target : TagArg]

NoJob == [op |-> "none"]

TypeOK ==
    /\ TagTypeOK
    /\ rows \in [Task -> Row]
    /\ attached \in [Task -> SUBSET TagId]
    /\ edges \subseteq Task \X Task \X Kind
    /\ pc \in [Client -> {"idle", "resolve", "submit", "read", "send"}]
    /\ job \in [Client -> TagJob \cup GuardedJob \cup BlindJob \cup TagUseJob \cup {NoJob}]
    /\ base \in [Client -> [Task -> 0..MaxRevision]]
    /\ moved \in [Client -> SUBSET Task]

NothingRead == [t \in Task |-> 0]

Init ==
    /\ dictionary \in [TagId -> Spelling \cup {NoName}]
    /\ \A g, h \in TagId : g # h /\ Defined(g) /\ Defined(h) =>
            Fold[dictionary[g]] # Fold[dictionary[h]]
    /\ proposals = <<>>
    /\ rows = [t \in Task |->
                  [rev |-> 1, status |-> "open", assignee |-> Nobody, parent |-> Root]]
    /\ attached = [t \in Task |-> {}]
    /\ edges = {}
    /\ pc = [c \in Client |-> "idle"]
    /\ job = [c \in Client |-> NoJob]
    /\ ref = [c \in Client |-> Unresolved]
    /\ base = [c \in Client |-> NothingRead]
    /\ moved = [c \in Client |-> {}]

-----------------------------------------------------------------------------
(***************************************************************************)
(* One run of the command                                                  *)
(***************************************************************************)

\* The command returns or throws.  moved' notes for the others what it did.
Ends(c) ==
    /\ pc' = [pc EXCEPT ![c] = "idle"]
    /\ job' = [job EXCEPT ![c] = NoJob]
    /\ ref' = [ref EXCEPT ![c] = Unresolved]
    /\ base' = [base EXCEPT ![c] = NothingRead]
    /\ moved' = [d \in Client |->
                    IF d = c THEN {}
                    ELSE moved[d] \cup {t \in Task : base[d][t] # 0 /\ rows'[t] # rows[t]}]

Repeats(j) == j.op = "done" /\ j.repeated

\* --revision stands for the read; done with several ids ignores it.
Pinned(j) == j.pin # NoPin /\ Cardinality(j.ids) = 1 /\ ~Repeats(j)

StartGuarded(c, j) ==
    /\ pc[c] = "idle" /\ j \in GuardedJob
    /\ \A t \in j.ids : j.pin <= rows[t].rev
    /\ j.op = "update" => j.status # Keep \/ j.assignee # Keep
    /\ job' = [job EXCEPT ![c] = j]
    /\ pc' = [pc EXCEPT ![c] = IF Pinned(j) THEN "send" ELSE "read"]
    /\ base' = [base EXCEPT ![c] = [t \in Task |->
                  IF Pinned(j) /\ t \in j.ids THEN j.pin ELSE 0]]
    /\ UNCHANGED <<tagVars, taskVars, ref, moved>>

StartBlind(c, j) ==
    /\ pc[c] = "idle" /\ j \in BlindJob
    /\ j.op # "release" => j.on \notin j.ids
    /\ job' = [job EXCEPT ![c] = j]
    /\ pc' = [pc EXCEPT ![c] = "send"]
    /\ UNCHANGED <<tagVars, taskVars, ref, base, moved>>

StartTagUse(c, j) ==
    /\ pc[c] = "idle" /\ j \in TagUseJob
    /\ job' = [job EXCEPT ![c] = j]
    /\ pc' = [pc EXCEPT ![c] = "resolve"]
    /\ UNCHANGED <<tagVars, taskVars, ref, base, moved>>

\* Mutant: every task of a batch gets the revision of the first.
RevisionOfFirst(c, t) == rows[CHOOSE u \in job[c].ids : TRUE].rev

RevisionRead(c, t) == rows[t].rev

\* GET /tasks/{id}, one id after the other.
Read(c, t) ==
    /\ pc[c] = "read" /\ t \in job[c].ids /\ base[c][t] = 0
    /\ base' = [base EXCEPT ![c][t] = RevisionRead(c, t)]
    /\ pc' = [pc EXCEPT ![c] = IF \A u \in job[c].ids : base'[c][u] # 0
                               THEN "send" ELSE "read"]
    /\ UNCHANGED <<tagVars, taskVars, job, ref, moved>>

ResolveTarget(c) ==
    LET found == Resolved(job[c].target)
    IN  /\ pc[c] = "resolve"
        /\ UNCHANGED <<tagVars, taskVars>>
        /\ \/ found = {} /\ Ends(c)
           \/ /\ \E r \in found : ref' = [ref EXCEPT ![c] = r]
              /\ pc' = [pc EXCEPT ![c] = IF job[c] \in TagUseJob THEN "send" ELSE "submit"]
              /\ UNCHANGED <<job, base, moved>>

\* A transport error or a 5xx before the request has any effect; one after
\* it, or a crash, leaves what the effect leaves.
Fails(c) ==
    /\ pc[c] # "idle"
    /\ UNCHANGED <<tagVars, taskVars>>
    /\ Ends(c)

-----------------------------------------------------------------------------
(***************************************************************************)
(* Writes against a revision.  Each is one transaction of the server: all  *)
(* tasks named change, or none does.                                       *)
(***************************************************************************)

\* Mutant: the request is built from a second read.
RevisionAgain(c, t) == rows[t].rev

\* The expected_revision of the request.
RevisionSent(c, t) == base[c][t]

\* b is reached from a along R.
Leads(R, a, b) ==
    \A S \in SUBSET Task :
        a \in S /\ (\A e \in R : e[1] \in S => e[2] \in S) => b \in S

ParentEdges == {<<t, rows[t].parent>> : t \in {u \in Task : rows[u].parent # Root}}
BlockEdges == {<<e[1], e[2]>> : e \in {f \in edges : f[3] = "blocks"}}

ClaimedByOther(t, actor) == rows[t].assignee \notin {Nobody, actor}

MakesCycle(j) ==
    j.op = "move" /\ \E t \in j.ids : j.to # Root /\ Leads(ParentEdges, j.to, t)

\* A batch names no task twice.
Admitted(c) ==
    LET j == job[c]
    IN  /\ ~Repeats(j)
        /\ \A t \in j.ids : RevisionSent(c, t) = rows[t].rev
        /\ j.op = "claim" => \A t \in j.ids : ~ClaimedByOther(t, ActorOf[c])
        /\ ~MakesCycle(j)

Bumped(r) == [r EXCEPT !.rev = @ + 1]

Writes(c, op, Changed(_)) ==
    /\ pc[c] = "send" /\ job[c].op = op
    /\ Admitted(c)
    /\ \A t \in job[c].ids : rows[t].rev < MaxRevision
    /\ rows' = [t \in Task |-> IF t \in job[c].ids THEN Bumped(Changed(rows[t])) ELSE rows[t]]
    /\ Ends(c)
    /\ UNCHANGED <<tagVars, attached, edges>>

Claim(c) ==
    LET Claimed(r) == [r EXCEPT !.assignee = ActorOf[c], !.status = "in_progress"]
    IN  Writes(c, "claim", Claimed)

\* One id: PATCH; several: POST batch-update.
Done(c) ==
    LET Finished(r) == [r EXCEPT !.status = "done"]
    IN  Writes(c, "done", Finished)

\* A field that was not given is not sent; '-' is null.
Given(new, old) == IF new = Keep THEN old ELSE new

Update(c) ==
    LET Patched(r) == [r EXCEPT !.status = Given(job[c].status, @),
                                !.assignee = Given(job[c].assignee, @)]
    IN  Writes(c, "update", Patched)

Move(c) ==
    LET Reparented(r) == [r EXCEPT !.parent = job[c].to]
    IN  Writes(c, "move", Reparented)

\* 409 REVISION_CONFLICT, TASK_ALREADY_CLAIMED or a cycle, or 400 for a task
\* named twice: nothing is retried.
GuardedRefused(c) ==
    /\ pc[c] = "send" /\ job[c] \in GuardedJob
    /\ ~Admitted(c)
    /\ UNCHANGED <<tagVars, taskVars>>
    /\ Ends(c)

-----------------------------------------------------------------------------
(***************************************************************************)
(* Writes without one                                                      *)
(***************************************************************************)

\* DELETE claim: nothing to release is a success, another's claim is not
\* ours to release.  (Actors with task:override are left out.)
Release(c) ==
    /\ pc[c] = "send" /\ job[c].op = "release"
    /\ \E t \in job[c].ids :
          \/ /\ rows[t].assignee # ActorOf[c]
             /\ UNCHANGED rows
          \/ /\ rows[t].assignee = ActorOf[c] /\ rows[t].rev < MaxRevision
             /\ rows' = [rows EXCEPT ![t] = Bumped([@ EXCEPT !.assignee = Nobody])]
    /\ Ends(c)
    /\ UNCHANGED <<tagVars, attached, edges>>

\* relates has no direction.
SameEdge(t, u, kind) ==
    {<<t, u, kind>>} \cup (IF kind = "relates" THEN {<<u, t, kind>>} ELSE {})

\* Both ends of an edge that comes or goes get a new revision.
SetsEdges(new, ends) ==
    /\ edges' = new
    /\ IF new = edges THEN UNCHANGED rows
       ELSE /\ \A t \in ends : rows[t].rev < MaxRevision
            /\ rows' = [t \in Task |-> IF t \in ends THEN Bumped(rows[t]) ELSE rows[t]]
    /\ UNCHANGED <<tagVars, attached>>

DepAdd(c) ==
    LET j == job[c]
    IN  /\ pc[c] = "send" /\ j.op = "depAdd"
        /\ \E t \in j.ids :
              \/ /\ j.kind = "blocks" /\ Leads(BlockEdges, j.on, t)
                 /\ UNCHANGED <<tagVars, taskVars>>
              \/ /\ j.kind = "relates" \/ ~Leads(BlockEdges, j.on, t)
                 /\ SetsEdges(IF SameEdge(t, j.on, j.kind) \cap edges # {} THEN edges
                              ELSE edges \cup {<<t, j.on, j.kind>>}, {t, j.on})
        /\ Ends(c)

DepRemove(c) ==
    LET j == job[c]
    IN  /\ pc[c] = "send" /\ j.op = "depRemove"
        /\ \E t \in j.ids : SetsEdges(edges \ SameEdge(t, j.on, j.kind), {t, j.on})
        /\ Ends(c)

\* PUT and DELETE /tasks/{id}/tags/{tag_id}; 404 if the tag is gone.
AttachOrDetach(c) ==
    LET g == ref[c].id
        attach == job[c].op = "attach"
    IN  /\ pc[c] = "send" /\ job[c] \in TagUseJob
        /\ \E t \in job[c].ids :
              \/ /\ ~Defined(g) \/ attach = (g \in attached[t])
                 /\ UNCHANGED <<rows, attached>>
              \/ /\ Defined(g) /\ attach # (g \in attached[t]) /\ rows[t].rev < MaxRevision
                 /\ attached' = [attached EXCEPT ![t] = IF attach THEN @ \cup {g} ELSE @ \ {g}]
                 /\ rows' = [rows EXCEPT ![t] = Bumped(@)]
        /\ Ends(c)
        /\ UNCHANGED <<tagVars, edges>>

-----------------------------------------------------------------------------
(***************************************************************************)
(* The dictionary, under the tasks                                         *)
(***************************************************************************)

TagProposed(c) == Propose(c) /\ UNCHANGED taskVars /\ Ends(c)

\* A deleted tag comes off its tasks.
TagConfirmed(c) ==
    /\ Confirm(c)
    /\ attached' = [t \in Task |-> {g \in attached[t] : dictionary'[g] # NoName}]
    /\ UNCHANGED <<rows, edges>>
    /\ Ends(c)

TagRefused(c) == SubmitRefused(c) /\ UNCHANGED taskVars /\ Ends(c)

Next ==
    \/ \E c \in Client :
          \/ \E j \in CommandLine :
                \/ StartGuarded(c, j) \/ StartBlind(c, j) \/ StartTagUse(c, j)
                \/ StartTags(c, j) /\ UNCHANGED <<taskVars, base, moved>>
          \/ \E t \in Task : Read(c, t)
          \/ ResolveTarget(c) \/ Fails(c)
          \/ Claim(c) \/ Done(c) \/ Update(c) \/ Move(c) \/ GuardedRefused(c)
          \/ Release(c) \/ DepAdd(c) \/ DepRemove(c) \/ AttachOrDetach(c)
          \/ TagProposed(c) \/ TagConfirmed(c) \/ TagRefused(c)
    \/ \E k \in 1..MaxProposals : Expire(k) /\ UNCHANGED <<taskVars, base, moved>>

Spec == Init /\ [][Next]_vars

-----------------------------------------------------------------------------
(***************************************************************************)
(* Properties                                                              *)
(***************************************************************************)

GuardedTakes(c) ==
    /\ pc[c] = "send" /\ pc'[c] = "idle" /\ job[c] \in GuardedJob
    /\ rows' # rows

\* A claim, done, update or move changes its tasks only if none of them has
\* changed since the command read it (or, with --revision, only at that
\* revision), and changes all of them: no lost update, and no half a batch
\* (currentRevision, and the batch of runDone).
WritesOnlyWhatItRead ==
    [][\A c \in Client : GuardedTakes(c) =>
          \A t \in job[c].ids :
             /\ IF Pinned(job[c]) THEN rows[t].rev = job[c].pin ELSE t \notin moved[c]
             /\ rows'[t].rev = rows[t].rev + 1]_vars

\* Such a command is refused only for a reason: somebody changed one of its
\* tasks after it was read, holds the claim, the move would make a cycle, or
\* the user named a task twice, which done passes on as it is.  A batch of
\* different tasks is never in conflict with itself (runDone).
ConflictHasCause ==
    [][\A c \in Client : GuardedRefused(c) =>
          \/ Pinned(job[c]) \/ Repeats(job[c])
          \/ moved[c] \cap job[c].ids # {}
          \/ job[c].op = "claim" /\ \E t \in job[c].ids : ClaimedByOther(t, ActorOf[c])
          \/ MakesCycle(job[c])]_vars

\* The printed line works, if its names are single words and the directory it
\* is run in leads to the workspace: until the proposal expires or the
\* dictionary is no longer what the proposing command found, it finds its tag
\* and is not refused, whatever case the user chose (printProposalHints,
\* runMutate).
HintCompletes ==
    [][\A c \in Client : Hinted(c) =>
          /\ ~TagRefused(c)
          /\ pc[c] = "resolve" => Resolved(job[c].target) # {}]_vars
=============================================================================
