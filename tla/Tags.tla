------------------------------- MODULE Tags -------------------------------
(***************************************************************************)
(* The tag dictionary of a workspace, astral tags create, rename and       *)
(* delete (commands/tags_cmd.cpp) and resolveTag (commands/tag_ref.hpp).   *)
(* A tag changes in two runs of the command: the first proposes and prints *)
(* the command line of the second, which confirms.                         *)
(*                                                                         *)
(* The server's side of a proposal follows ARCHITECTURE.md section 11: a   *)
(* proposal belongs to an actor, holds a name and is used once.  The        *)
(* confirmation carries its code and the name, not the action.             *)
(***************************************************************************)
EXTENDS Integers, Sequences

CONSTANTS
    Client,         \* processes
    Actor,
    ActorOf,        \* ActorOf[c]: whose credentials c uses
    TagId,
    Spelling,       \* names as they are written
    Fold,           \* Fold[n]: n in lower case
    Plain,          \* the names a shell takes as they are: one word
    NoName,         \* the empty string
    CommandLine,    \* the command lines that users give
    MaxProposals    \* bound: proposals ever made

ASSUME TagAssumption ==
    /\ ActorOf \in [Client -> Actor]
    /\ Fold \in [Spelling -> Spelling]
    /\ Plain \subseteq Spelling
    /\ NoName \notin Spelling
    /\ TagId \cap (Spelling \cup {NoName}) = {}
    /\ MaxProposals \in Nat

VARIABLES
    dictionary,     \* dictionary[g]: how tag g is spelled, or NoName
    proposals,      \* all of them, in order
    pc,             \* "idle", "resolve", "submit" (and Tasks: "read", "send")
    job,            \* the command line
    ref             \* the TagRef resolveTag answered

tagVars == <<dictionary, proposals>>

TagArg == TagId \cup Spelling
NoProposal == 0
Unresolved == [id |-> NoName, name |-> NoName]
TagRef == [id : TagId \cup {NoName}, name : Spelling \cup {NoName}]

\* The lines that reach this workspace: by the directory they are run in (its
\* binding, or the environment), or by --server and --workspace.
TagJob ==
    LET given == 0..MaxProposals
        ways == {"directory", "flags"}
    IN  [op : {"create"}, name : Spelling, confirms : given, by : ways]
        \cup [op : {"rename"}, target : TagArg, name : Spelling, confirms : given, by : ways]
        \cup [op : {"delete"}, target : TagArg, confirms : given, by : ways]

\* line and fresh are history: the command that proposed, and whether the
\* dictionary is still what the command found when it looked up its tag.
Proposal ==
    [actor : Actor, action : {"create", "rename", "delete"},
     name : Spelling \cup {NoName}, target : TagId \cup {NoName},
     open : BOOLEAN, line : TagJob, fresh : BOOLEAN]

TagTypeOK ==
    /\ dictionary \in [TagId -> Spelling \cup {NoName}]
    /\ proposals \in Seq(Proposal)
    /\ Len(proposals) <= MaxProposals
    /\ ref \in [Client -> TagRef]

Defined(g) == dictionary[g] # NoName

-----------------------------------------------------------------------------
\* An argument that starts with "tag_" is taken as an id and not looked up;
\* any other is matched with the names, whatever their case.
Resolved(arg) ==
    IF arg \in TagId
    THEN {[id |-> arg, name |-> NoName]}
    ELSE {[id |-> g, name |-> dictionary[g]] :
             g \in {h \in TagId : Defined(h) /\ Fold[dictionary[h]] = Fold[arg]}}

-----------------------------------------------------------------------------
(***************************************************************************)
(* The dictionary on the server                                            *)
(***************************************************************************)

\* Equal names but for their case would be the same tag.
FreeFor(name, g) ==
    \A h \in TagId \ {g} : Defined(h) => Fold[dictionary[h]] # Fold[name]

\* A proposal has a name, which a delete by id has not.
Applicable(action, name, target) ==
    CASE action = "create" -> FreeFor(name, NoName) /\ \E g \in TagId : ~Defined(g)
      [] action = "rename" -> Defined(target) /\ FreeFor(name, target)
      [] action = "delete" -> name # NoName /\ Defined(target)

\* What a confirmed proposal does; whatever changes the dictionary makes all
\* proposals stale.
Applies(p) ==
    /\ \/ /\ p.action = "create"
          /\ \E g \in TagId :
                ~Defined(g) /\ dictionary' = [dictionary EXCEPT ![g] = p.name]
       \/ /\ p.action = "rename"
          /\ dictionary' = [dictionary EXCEPT ![p.target] = p.name]
       \/ /\ p.action = "delete"
          /\ dictionary' = [dictionary EXCEPT ![p.target] = NoName]

\* What the server can check of a confirmation.
Accepts(k, actor, name) ==
    LET p == proposals[k]
    IN  /\ p.open /\ p.actor = actor /\ p.name = name
        /\ Applicable(p.action, p.name, p.target)

-----------------------------------------------------------------------------
(***************************************************************************)
(* The command                                                             *)
(***************************************************************************)

\* The name that goes with the request: for delete the dictionary's, which
\* resolveTag leaves empty if the tag is given by its id.
NameSent(j, target) == IF j.op = "delete" THEN target.name ELSE j.name

StartTags(c, j) ==
    /\ pc[c] = "idle" /\ j \in TagJob
    /\ j.confirms \in 0..Len(proposals)
    /\ job' = [job EXCEPT ![c] = j]
    /\ pc' = [pc EXCEPT ![c] = IF j.op = "create" THEN "submit" ELSE "resolve"]
    /\ UNCHANGED <<tagVars, ref>>

\* Without --proposal and --confirm: POST tag-proposals, and the hint.
Propose(c) ==
    LET j == job[c]
        name == NameSent(j, ref[c])
    IN  /\ pc[c] = "submit" /\ j.confirms = NoProposal
        /\ Len(proposals) < MaxProposals
        /\ Applicable(j.op, name, ref[c].id)
        /\ proposals' = Append(proposals,
               [actor |-> ActorOf[c], action |-> j.op, name |-> name, target |-> ref[c].id,
                open |-> TRUE, line |-> j,
                fresh |-> j.op = "create" \/ ref[c] \in Resolved(j.target)])
        /\ UNCHANGED dictionary

Confirm(c) ==
    LET j == job[c]
        k == j.confirms
    IN  /\ pc[c] = "submit" /\ k # NoProposal
        /\ Accepts(k, ActorOf[c], NameSent(j, ref[c]))
        /\ Applies(proposals[k])
        /\ proposals' = [i \in DOMAIN proposals |->
                            [proposals[i] EXCEPT !.fresh = FALSE, !.open = @ /\ i # k]]

\* 404, 409 or a wrong code.
SubmitRefused(c) ==
    LET j == job[c]
        name == NameSent(j, ref[c])
    IN  /\ pc[c] = "submit"
        /\ IF j.confirms = NoProposal
           THEN ~Applicable(j.op, name, ref[c].id)
           ELSE ~Accepts(j.confirms, ActorOf[c], name)
        /\ UNCHANGED tagVars

\* expires_at passes.
Expire(k) ==
    /\ k \in DOMAIN proposals /\ proposals[k].open
    /\ proposals' = [proposals EXCEPT ![k].open = FALSE]
    /\ UNCHANGED <<dictionary, pc, job, ref>>

-----------------------------------------------------------------------------
NoLine == [op |-> "none"]

\* The hint prints names without quotes: of several words, they become
\* several arguments, which is a usage error.
Printable(j) ==
    /\ j.op # "create" => j.target \in Plain \cup TagId
    /\ j.op # "delete" => j.name \in Plain

\* Mutant: the hint spells the name in lower case.
HintFolds(j, k) ==
    IF ~Printable(j) THEN NoLine
    ELSE [[x \in DOMAIN j |-> IF x = "name" THEN Fold[j[x]] ELSE j[x]]
             EXCEPT !.confirms = k, !.by = "directory"]

\* What a shell makes of the line printed for proposal k of command line j.
\* It has no --server and --workspace: it gets here by the directory, or not
\* at all.
HintLine(j, k) ==
    IF ~Printable(j) THEN NoLine ELSE [j EXCEPT !.confirms = k, !.by = "directory"]

\* c runs the printed line of an open proposal of its actor, in a directory
\* that leads here, and the dictionary is what it was.
Hinted(c) ==
    LET j == job[c]
    IN  /\ j \in TagJob /\ j.confirms # NoProposal
        /\ LET p == proposals[j.confirms]
           IN  /\ p.open /\ p.fresh /\ p.actor = ActorOf[c]
               /\ j = HintLine(p.line, j.confirms)
=============================================================================
