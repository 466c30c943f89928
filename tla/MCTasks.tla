------------------------------ MODULE MCTasks ------------------------------
(* Tasks with two tasks, two clients, one tag and two spellings of it.  The *)
(* command lines can meet in every way that matters: two claims, a batch    *)
(* against an update, moves and dependencies that would close a cycle, a    *)
(* stale --revision, a tag spelled differently from the dictionary, and a   *)
(* dictionary that changes between the two runs of astral tags or within    *)
(* one of them, which takes two proposals.                                  *)
EXTENDS Tasks, TLC

CONSTANTS c1, c2, t1, t2, g1

MCActorOf == [c \in Client |-> c]
MCFold == [n \in Spelling |-> IF n = "UX" THEN "ux" ELSE n]

Guarded ==
    {[op |-> "claim", ids |-> {t1}, pin |-> n] : n \in {0, 1}}
    \cup {[op |-> "done", ids |-> {t1, t2}, repeated |-> FALSE, pin |-> 1],
          [op |-> "done", ids |-> {t2}, repeated |-> TRUE, pin |-> 1],
          [op |-> "update", ids |-> {t1}, pin |-> 0, status |-> Keep, assignee |-> Nobody],
          [op |-> "move", ids |-> {t1}, pin |-> 0, to |-> t2],
          [op |-> "move", ids |-> {t2}, pin |-> 0, to |-> t1]}

Blind ==
    {[op |-> "release", ids |-> {t1}],
     [op |-> "depAdd", ids |-> {t1}, on |-> t2, kind |-> "blocks"],
     [op |-> "depAdd", ids |-> {t2}, on |-> t1, kind |-> "blocks"],
     [op |-> "depRemove", ids |-> {t1}, on |-> t2, kind |-> "blocks"]}

TagLines ==
    {[op |-> "attach", ids |-> {t1}, target |-> "UX"],
     [op |-> "detach", ids |-> {t1}, target |-> g1]}
    \cup {[op |-> "create", name |-> n, confirms |-> k, by |-> "directory"] :
             n \in {"ux", "UX"}, k \in 0..MaxProposals}
    \cup {[op |-> "create", name |-> "u x", confirms |-> 0, by |-> "directory"]}
    \cup {[op |-> "rename", target |-> "UX", name |-> "UX", confirms |-> k, by |-> "directory"] :
             k \in 0..MaxProposals}
    \cup {[op |-> "delete", target |-> "UX", confirms |-> k, by |-> "directory"] :
             k \in 0..MaxProposals}
    \cup {[op |-> "delete", target |-> g, confirms |-> 0, by |-> "flags"] : g \in {g1, "UX"}}

MCCommandLine == Guarded \cup Blind \cup TagLines

\* Bound: where there is a proposal, a task has changed once at most, and a
\* second proposal is made only while the tasks are as they were.
FewProposals ==
    /\ proposals # <<>> => \A t \in Task : rows[t].rev <= 2
    /\ Len(proposals) = 2 =>
        \A t \in Task : rows[t].rev = 1 /\ \A c \in Client : base[c][t] = 0

Symm == Permutations({c1, c2})
=============================================================================
