---------------------------- MODULE TasksProofs ----------------------------
(***************************************************************************)
(* What TLAPS proves of Tasks for any tasks, clients and command lines:    *)
(* writes against a revision change what was read and nothing else, and    *)
(* are refused only for a reason.                                          *)
(***************************************************************************)
EXTENDS Tasks, SequenceTheorems, TLAPS

-----------------------------------------------------------------------------
(***************************************************************************)
(* Command lines by their op                                               *)
(***************************************************************************)

LEMMA GuardedLine ==
    ASSUME NEW j \in GuardedJob
    PROVE  /\ j.op \in {"claim", "done", "update", "move"}
           /\ j.ids \subseteq Task /\ j.pin \in 0..MaxRevision
           /\ j.op = "update" =>
                 j.status \in Status \cup {Keep} /\ j.assignee \in Actor \cup {Nobody, Keep}
           /\ j.op = "move" => j.to \in Task \cup {Root}
BY TaskAssumption DEF GuardedJob, One, NoPin

LEMMA BlindLine ==
    ASSUME NEW j \in BlindJob
    PROVE  /\ j.op \in {"release", "depAdd", "depRemove"}
           /\ j.ids \subseteq Task
           /\ j.op # "release" => j.on \in Task /\ j.kind \in Kind
BY DEF BlindJob, One

LEMMA TagUseLine ==
    ASSUME NEW j \in TagUseJob
    PROVE  j.op \in {"attach", "detach"} /\ j.ids \subseteq Task /\ j.target \in TagArg
BY DEF TagUseJob, One

LEMMA TagLine ==
    ASSUME NEW j \in TagJob
    PROVE  /\ j.op \in {"create", "rename", "delete"}
           /\ j.confirms \in 0..MaxProposals
           /\ j.op # "delete" => j.name \in Spelling
           /\ j.op # "create" => j.target \in TagArg
BY DEF TagJob

\* The four kinds of lines are told apart by op.
LEMMA LinesDiffer ==
    /\ GuardedJob \cap (BlindJob \cup TagUseJob \cup TagJob \cup {NoJob}) = {}
    /\ BlindJob \cap (TagUseJob \cup TagJob \cup {NoJob}) = {}
    /\ TagUseJob \cap (TagJob \cup {NoJob}) = {}
    /\ NoJob \notin TagJob
<1>1. NoJob.op = "none"
  BY DEF NoJob
<1> QED
  BY <1>1, GuardedLine, BlindLine, TagUseLine, TagLine

-----------------------------------------------------------------------------
\* What a client has read is what the task was; it is what the task is as
\* long as nobody has moved it on.
Fresh ==
    \A c \in Client, t \in Task :
        /\ base[c][t] <= rows[t].rev
        /\ t \in moved[c] => base[c][t] # 0 /\ base[c][t] < rows[t].rev
        /\ base[c][t] # 0 /\ t \notin moved[c] /\ ~Pinned(job[c]) => base[c][t] = rows[t].rev

\* How far a command has come with its reading.
Reading ==
    \A c \in Client :
        /\ job[c] \notin GuardedJob => base[c] = NothingRead
        /\ pc[c] = "idle" => job[c] = NoJob
        /\ pc[c] = "read" => job[c] \in GuardedJob /\ ~Pinned(job[c])
        /\ pc[c] = "send" /\ job[c] \in GuardedJob =>
              \A t \in job[c].ids :
                  base[c][t] # 0 /\ (Pinned(job[c]) => base[c][t] = job[c].pin)

\* The tag of a command is found before it is used.
Found ==
    \A c \in Client :
        /\ pc[c] = "send" /\ job[c] \in TagUseJob => ref[c].id \in TagId
        /\ pc[c] \in {"resolve", "submit"} => job[c] \in TagUseJob \cup TagJob
        /\ pc[c] = "resolve" /\ job[c] \in TagJob => job[c].op # "create"
        /\ pc[c] = "submit" => job[c] \in TagJob
        /\ pc[c] = "submit" /\ job[c].op # "create" => ref[c].id \in TagId
        /\ job[c] \in TagJob => job[c].confirms <= Len(proposals)

Inv == TypeOK /\ Fresh /\ Reading /\ Found

-----------------------------------------------------------------------------
(***************************************************************************)
(* The end of a run                                                        *)
(***************************************************************************)

\* A task that changes gets the next revision.
Advance ==
    /\ rows' \in [Task -> Row]
    /\ \A t \in Task : rows'[t] # rows[t] => rows'[t].rev = rows[t].rev + 1

TablesOK ==
    /\ TagTypeOK'
    /\ Len(proposals) <= Len(proposals')
    /\ attached' \in [Task -> SUBSET TagId]
    /\ edges' \subseteq Task \X Task \X Kind

LEMMA ZeroRead ==
    /\ NothingRead \in [Task -> 0..MaxRevision]
    /\ \A t \in Task : NothingRead[t] = 0
BY TaskAssumption DEF NothingRead

\* Whatever a run has done to the tasks, the others know what moved.
LEMMA EndsInv ==
    ASSUME Inv, NEW c \in Client, Ends(c), Advance, TablesOK
    PROVE  Inv'
<1> USE TaskAssumption, ZeroRead DEF Inv, Ends
<1>0. /\ \A t \in Task : rows[t].rev \in Nat /\ rows'[t].rev \in Nat
      /\ \A d \in Client, t \in Task : base[d][t] \in Nat
  BY DEF TypeOK, Advance, Row
<1>1. TypeOK'
  BY DEF TypeOK, Advance, TablesOK
<1>2. Fresh'
  <2> SUFFICES ASSUME NEW d \in Client, NEW t \in Task
               PROVE  /\ base'[d][t] <= rows'[t].rev
                      /\ t \in moved'[d] => base'[d][t] # 0 /\ base'[d][t] < rows'[t].rev
                      /\ base'[d][t] # 0 /\ t \notin moved'[d] /\ ~Pinned(job'[d]) =>
                            base'[d][t] = rows'[t].rev
    BY DEF Fresh, Pinned
  <2>1. CASE d = c
    BY <1>0, <2>1 DEF TypeOK
  <2>2. CASE d # c
    <3>1. base'[d] = base[d] /\ job'[d] = job[d]
      BY <2>2 DEF TypeOK
    <3>2. moved'[d] = moved[d] \cup {u \in Task : base[d][u] # 0 /\ rows'[u] # rows[u]}
      BY <2>2
    <3>3. rows'[t] = rows[t] \/ rows'[t].rev = rows[t].rev + 1
      BY DEF Advance
    <3> QED
      BY <1>0, <3>1, <3>2, <3>3 DEF Fresh, Pinned
  <2> QED
    BY <2>1, <2>2
<1>3. Reading'
  <2> SUFFICES ASSUME NEW d \in Client
               PROVE  /\ job'[d] \notin GuardedJob => base'[d] = NothingRead
                      /\ pc'[d] = "idle" => job'[d] = NoJob
                      /\ pc'[d] = "read" => job'[d] \in GuardedJob /\ ~Pinned(job'[d])
                      /\ pc'[d] = "send" /\ job'[d] \in GuardedJob =>
                            \A t \in job'[d].ids :
                                base'[d][t] # 0 /\ (Pinned(job'[d]) => base'[d][t] = job'[d].pin)
    BY DEF Reading, Pinned
  <2>1. CASE d = c
    BY <2>1, LinesDiffer DEF TypeOK
  <2>2. CASE d # c
    BY <2>2 DEF TypeOK, Reading, Pinned
  <2> QED
    BY <2>1, <2>2
<1>4. Found'
  <2>1. \A d \in Client : job[d] \in TagJob => job[d].confirms \in Nat
    BY TagLine
  <2>2. Len(proposals) \in Nat /\ Len(proposals') \in Nat /\ Len(proposals) <= Len(proposals')
    BY DEF TypeOK, TagTypeOK, TablesOK
  <2>3. \A d \in Client : d # c => pc'[d] = pc[d] /\ job'[d] = job[d] /\ ref'[d] = ref[d]
    BY DEF TypeOK, TagTypeOK
  <2>4. pc'[c] = "idle" /\ job'[c] = NoJob
    BY DEF TypeOK
  <2> QED
    BY <2>1, <2>2, <2>3, <2>4, LinesDiffer DEF Found
<1> QED
  BY <1>1, <1>2, <1>3, <1>4

\* A run that ends without an effect.
LEMMA QuietEndInv ==
    ASSUME Inv, NEW c \in Client, Ends(c), UNCHANGED <<tagVars, taskVars>>
    PROVE  Inv'
<1>1. Advance
  BY DEF Inv, TypeOK, Advance, taskVars
<1>2. TablesOK
  BY DEF Inv, TypeOK, TablesOK, taskVars, tagVars, TagTypeOK, Ends, Unresolved, TagRef
<1> QED
  BY <1>1, <1>2, EndsInv

-----------------------------------------------------------------------------
(***************************************************************************)
(* The beginning of a run                                                  *)
(***************************************************************************)

LEMMA StartGuardedInv ==
    ASSUME Inv, NEW c \in Client, NEW j \in GuardedJob, StartGuarded(c, j)
    PROVE  Inv'
<1> USE TaskAssumption, ZeroRead DEF Inv, StartGuarded
<1> DEFINE read == [t \in Task |-> IF Pinned(j) /\ t \in j.ids THEN j.pin ELSE 0]
<1>0. /\ j.pin \in 0..MaxRevision /\ j.ids \subseteq Task
      /\ read \in [Task -> 0..MaxRevision]
      /\ base' = [base EXCEPT ![c] = read]
      /\ UNCHANGED <<tagVars, taskVars>>
      /\ \A t \in Task : rows[t].rev \in Nat
  BY GuardedLine DEF TypeOK, Row
<1>1. TypeOK'
  BY <1>0 DEF TypeOK, TagTypeOK, tagVars, taskVars
<1>2. base[c] = NothingRead
  BY LinesDiffer DEF Reading
<1>3. Fresh'
  <2> SUFFICES ASSUME NEW d \in Client, NEW t \in Task
               PROVE  /\ base'[d][t] <= rows[t].rev
                      /\ t \in moved[d] => base'[d][t] # 0 /\ base'[d][t] < rows[t].rev
                      /\ base'[d][t] # 0 /\ t \notin moved[d] /\ ~Pinned(job'[d]) =>
                            base'[d][t] = rows[t].rev
    BY <1>0 DEF Fresh, Pinned, taskVars
  <2>1. CASE d = c
    <3>1. t \notin moved[c] /\ base'[c][t] = read[t] /\ job'[c] = j
      BY <1>0, <1>2 DEF Fresh, TypeOK
    <3> QED
      BY <1>0, <2>1, <3>1
  <2>2. CASE d # c
    BY <1>0, <2>2 DEF Fresh, TypeOK
  <2> QED
    BY <2>1, <2>2
<1>4. Reading'
  <2> SUFFICES ASSUME NEW d \in Client
               PROVE  /\ job'[d] \notin GuardedJob => base'[d] = NothingRead
                      /\ pc'[d] = "idle" => job'[d] = NoJob
                      /\ pc'[d] = "read" => job'[d] \in GuardedJob /\ ~Pinned(job'[d])
                      /\ pc'[d] = "send" /\ job'[d] \in GuardedJob =>
                            \A t \in job'[d].ids :
                                base'[d][t] # 0 /\ (Pinned(job'[d]) => base'[d][t] = job'[d].pin)
    BY DEF Reading, Pinned
  <2>1. CASE d = c
    <3>1. job'[c] = j /\ base'[c] = read /\ pc'[c] = IF Pinned(j) THEN "send" ELSE "read"
      BY <1>0 DEF TypeOK
    <3>2. ASSUME Pinned(j), NEW t \in j.ids PROVE read[t] = j.pin /\ j.pin # 0
      BY <1>0, <3>2 DEF Pinned, NoPin
    <3> QED
      BY <2>1, <3>1, <3>2
  <2>2. CASE d # c
    BY <1>0, <2>2 DEF TypeOK, Reading
  <2> QED
    BY <2>1, <2>2
<1>5. Found'
  BY <1>0, LinesDiffer DEF TypeOK, Found, tagVars
<1> QED
  BY <1>1, <1>3, <1>4, <1>5

\* The commands that read nothing, and astral tags.
LEMMA StartOtherInv ==
    ASSUME Inv, NEW c \in Client, NEW j \in BlindJob \cup TagUseJob \cup TagJob, pc[c] = "idle",
           job' = [job EXCEPT ![c] = j], UNCHANGED <<tagVars, taskVars, ref, base, moved>>,
           \/ j \in BlindJob /\ pc' = [pc EXCEPT ![c] = "send"]
           \/ j \in TagUseJob /\ pc' = [pc EXCEPT ![c] = "resolve"]
           \/ j \in TagJob /\ j.confirms \in 0..Len(proposals)
              /\ pc' = [pc EXCEPT ![c] = IF j.op = "create" THEN "submit" ELSE "resolve"]
    PROVE  Inv'
<1> USE DEF Inv
<1>1. TypeOK'
  BY DEF TypeOK, TagTypeOK, tagVars, taskVars
<1>2. base[c] = NothingRead /\ j \notin GuardedJob
  BY LinesDiffer DEF Reading
<1>3. Fresh'
  BY <1>2, ZeroRead DEF Fresh, TypeOK, taskVars, Pinned
<1>4. Reading'
  BY <1>2 DEF Reading, TypeOK, Pinned
<1>5. Found'
  BY LinesDiffer DEF Found, TypeOK, tagVars
<1> QED
  BY <1>1, <1>3, <1>4, <1>5

LEMMA ReadInv ==
    ASSUME Inv, NEW c \in Client, NEW t \in Task, Read(c, t)
    PROVE  Inv'
<1> USE DEF Inv, Read, RevisionRead
<1>0. /\ job[c] \in GuardedJob /\ ~Pinned(job[c]) /\ job[c].ids \subseteq Task
      /\ rows[t].rev \in 1..MaxRevision
      /\ base' = [base EXCEPT ![c] = [base[c] EXCEPT ![t] = rows[t].rev]]
      /\ UNCHANGED <<tagVars, taskVars>>
  BY GuardedLine DEF Reading, TypeOK, Row
<1>1. TypeOK'
  BY <1>0, TaskAssumption DEF TypeOK, TagTypeOK, tagVars, taskVars
<1>2. Fresh'
  <2>1. t \notin moved[c]
    BY DEF Fresh
  <2> QED
    BY <1>0, <2>1 DEF Fresh, TypeOK, taskVars, Pinned
<1>3. Reading'
  BY <1>0 DEF Reading, TypeOK, Pinned
<1>4. Found'
  BY <1>0, LinesDiffer DEF Found, TypeOK, tagVars
<1> QED
  BY <1>1, <1>2, <1>3, <1>4

LEMMA ResolveInv ==
    ASSUME Inv, NEW c \in Client, ResolveTarget(c)
    PROVE  Inv'
<1>1. CASE Ends(c)
  BY <1>1, QuietEndInv DEF ResolveTarget
<1>2. CASE ~Ends(c)
  <2> USE DEF Inv
  <2>1. PICK r \in Resolved(job[c].target) :
            /\ ref' = [ref EXCEPT ![c] = r]
            /\ pc' = [pc EXCEPT ![c] = IF job[c] \in TagUseJob THEN "send" ELSE "submit"]
            /\ UNCHANGED <<tagVars, taskVars, job, base, moved>>
    BY <1>2 DEF ResolveTarget
  <2>2. pc[c] = "resolve" /\ job[c] \in TagUseJob \cup TagJob
    BY DEF ResolveTarget, Found
  <2>3. r \in TagRef /\ r.id \in TagId
    <3>1. CASE job[c].target \in TagId
      BY <2>1, <3>1 DEF Resolved, TagRef
    <3>2. CASE job[c].target \notin TagId
      BY <2>1, <3>2 DEF Resolved, TagRef, TypeOK, TagTypeOK
    <3> QED
      BY <3>1, <3>2
  <2>4. TypeOK'
    BY <2>1, <2>3 DEF TypeOK, TagTypeOK, tagVars, taskVars
  <2>5. Fresh'
    BY <2>1 DEF Fresh, taskVars, Pinned
  <2>6. Reading'
    BY <2>1, <2>2, LinesDiffer DEF Reading, TypeOK, Pinned
  <2>7. Found'
    BY <2>1, <2>2, <2>3, LinesDiffer DEF Found, TypeOK, TagTypeOK, tagVars
  <2> QED
    BY <2>4, <2>5, <2>6, <2>7
<1> QED
  BY <1>1, <1>2

LEMMA FailsInv ==
    ASSUME Inv, NEW c \in Client, Fails(c)
    PROVE  Inv'
BY QuietEndInv DEF Fails

-----------------------------------------------------------------------------
(***************************************************************************)
(* Writes                                                                  *)
(***************************************************************************)

\* One more revision, whatever else changes.
LEMMA BumpedRow ==
    ASSUME NEW r \in Row, r.rev < MaxRevision, NEW s \in Row, s.rev = r.rev
    PROVE  Bumped(s) \in Row /\ Bumped(s).rev = r.rev + 1
BY TaskAssumption DEF Row, Bumped

\* A row of the same revision, with other fields.
LEMMA PatchedRow ==
    ASSUME NEW r \in Row, NEW s \in Status, NEW a \in Actor \cup {Nobody}
    PROVE  /\ [r EXCEPT !.status = s, !.assignee = a] \in Row
           /\ [r EXCEPT !.status = s, !.assignee = a].rev = r.rev
           /\ [r EXCEPT !.assignee = a, !.status = s] \in Row
           /\ [r EXCEPT !.assignee = a, !.status = s].rev = r.rev
           /\ [r EXCEPT !.status = s] \in Row /\ [r EXCEPT !.status = s].rev = r.rev
           /\ [r EXCEPT !.assignee = a] \in Row /\ [r EXCEPT !.assignee = a].rev = r.rev
BY DEF Row

LEMMA ReparentedRow ==
    ASSUME NEW r \in Row, NEW p \in Task \cup {Root}
    PROVE  [r EXCEPT !.parent = p] \in Row /\ [r EXCEPT !.parent = p].rev = r.rev
BY DEF Row

\* The tables a command on tasks does not touch.
LEMMA TablesKept ==
    ASSUME Inv, NEW c \in Client, Ends(c), UNCHANGED <<tagVars, attached, edges>>
    PROVE  TablesOK
BY DEF Inv, TypeOK, TablesOK, TagTypeOK, tagVars, Ends, Unresolved, TagRef

\* All tasks of the command change at once.
LEMMA BatchAdvance ==
    ASSUME TypeOK, NEW S \in SUBSET Task, NEW new,
           \A t \in S : rows[t].rev < MaxRevision,
           \A t \in S : new[t] \in Row /\ new[t].rev = rows[t].rev,
           rows' = [t \in Task |-> IF t \in S THEN Bumped(new[t]) ELSE rows[t]]
    PROVE  Advance /\ \A t \in S : rows'[t].rev = rows[t].rev + 1
<1>1. \A t \in Task : rows[t] \in Row
  BY DEF TypeOK
<1>2. ASSUME NEW t \in Task
      PROVE  /\ t \in S => rows'[t] \in Row /\ rows'[t].rev = rows[t].rev + 1
             /\ t \notin S => rows'[t] = rows[t]
  BY <1>1, BumpedRow
<1> QED
  BY <1>1, <1>2 DEF Advance

\* What claim, done, update and move write.
GuardedWrite(c) == Claim(c) \/ Done(c) \/ Update(c) \/ Move(c)

LEMMA GuardedWriteAdvance ==
    ASSUME Inv, \A d \in Client : ActorOf[d] \in Actor, NEW c \in Client, GuardedWrite(c)
    PROVE  /\ Advance
           /\ Ends(c) /\ UNCHANGED <<tagVars, attached, edges>>
           /\ pc[c] = "send" /\ job[c] \in GuardedJob /\ Admitted(c)
           /\ \A t \in job[c].ids : rows'[t].rev = rows[t].rev + 1
<1> DEFINE j == job[c]
<1>1. /\ pc[c] = "send" /\ j.op \in {"claim", "done", "update", "move"} /\ Admitted(c)
      /\ \A t \in j.ids : rows[t].rev < MaxRevision
      /\ Ends(c) /\ UNCHANGED <<tagVars, attached, edges>>
  BY DEF GuardedWrite, Claim, Done, Update, Move, Writes
<1>2. j \in GuardedJob
  <2>1. j \in TagJob \cup GuardedJob \cup BlindJob \cup TagUseJob \cup {NoJob}
    BY DEF Inv, TypeOK
  <2>2. NoJob.op = "none"
    BY DEF NoJob
  <2> QED
    BY <1>1, <2>1, <2>2, BlindLine, TagUseLine, TagLine
<1>3. j.ids \subseteq Task /\ TypeOK /\ \A t \in Task : rows[t] \in Row
  BY <1>2, GuardedLine DEF Inv, TypeOK
<1>4. Advance /\ \A t \in j.ids : rows'[t].rev = rows[t].rev + 1
  <2>1. CASE Claim(c)
    <3> DEFINE new == [t \in Task |-> [rows[t] EXCEPT !.assignee = ActorOf[c],
                                                     !.status = "in_progress"]]
    <3>1. rows' = [t \in Task |-> IF t \in j.ids THEN Bumped(new[t]) ELSE rows[t]]
      BY <2>1 DEF Claim, Writes
    <3>2. \A t \in j.ids : new[t] \in Row /\ new[t].rev = rows[t].rev
      BY <1>3, PatchedRow DEF Status
    <3> HIDE DEF new
    <3> QED
      BY <1>1, <1>3, <3>1, <3>2, BatchAdvance
  <2>2. CASE Done(c)
    <3> DEFINE new == [t \in Task |-> [rows[t] EXCEPT !.status = "done"]]
    <3>1. rows' = [t \in Task |-> IF t \in j.ids THEN Bumped(new[t]) ELSE rows[t]]
      BY <2>2 DEF Done, Writes
    <3>2. \A t \in j.ids : new[t] \in Row /\ new[t].rev = rows[t].rev
      BY <1>3, PatchedRow DEF Status
    <3> HIDE DEF new
    <3> QED
      BY <1>1, <1>3, <3>1, <3>2, BatchAdvance
  <2>3. CASE Update(c)
    <3> DEFINE new == [t \in Task |-> [rows[t] EXCEPT !.status = Given(j.status, @),
                                                     !.assignee = Given(j.assignee, @)]]
    <3>1. rows' = [t \in Task |-> IF t \in j.ids THEN Bumped(new[t]) ELSE rows[t]]
      BY <2>3 DEF Update, Writes
    <3>2. j.op = "update"
      BY <2>3 DEF Update, Writes
    <3>3. \A t \in Task : /\ Given(j.status, rows[t].status) \in Status
                          /\ Given(j.assignee, rows[t].assignee) \in Actor \cup {Nobody}
      BY <1>2, <1>3, <3>2, GuardedLine DEF Given, Row
    <3>4. ASSUME NEW t \in j.ids PROVE new[t] \in Row /\ new[t].rev = rows[t].rev
      <4>1. t \in Task /\ rows[t] \in Row
        BY <1>3
      <4> HIDE DEF j
      <4>2. new[t] = [rows[t] EXCEPT !.status = Given(j.status, rows[t].status),
                                     !.assignee = Given(j.assignee, rows[t].assignee)]
        BY <4>1
      <4> DEFINE s == Given(j.status, rows[t].status)
                 a == Given(j.assignee, rows[t].assignee)
      <4>3. s \in Status /\ a \in Actor \cup {Nobody}
        BY <3>3, <4>1
      <4> HIDE DEF s, a
      <4>4. /\ [rows[t] EXCEPT !.status = s, !.assignee = a] \in Row
            /\ [rows[t] EXCEPT !.status = s, !.assignee = a].rev = rows[t].rev
        BY <4>1, <4>3, PatchedRow
      <4> QED
        BY <4>2, <4>4 DEF s, a
    <3> HIDE DEF new
    <3> QED
      BY <1>1, <1>3, <3>1, <3>4, BatchAdvance
  <2>4. CASE Move(c)
    <3> DEFINE new == [t \in Task |-> [rows[t] EXCEPT !.parent = j.to]]
    <3>1. rows' = [t \in Task |-> IF t \in j.ids THEN Bumped(new[t]) ELSE rows[t]]
      BY <2>4 DEF Move, Writes
    <3>2. j.to \in Task \cup {Root}
      BY <1>2, <2>4, GuardedLine DEF Move, Writes
    <3>3. \A t \in j.ids : new[t] \in Row /\ new[t].rev = rows[t].rev
      BY <1>3, <3>2, ReparentedRow
    <3> HIDE DEF new
    <3> QED
      BY <1>1, <1>3, <3>1, <3>3, BatchAdvance
  <2> QED
    BY <2>1, <2>2, <2>3, <2>4 DEF GuardedWrite
<1> QED
  BY <1>1, <1>2, <1>4

LEMMA GuardedWriteInv ==
    ASSUME Inv, NEW c \in Client, GuardedWrite(c)
    PROVE  Inv'
<1>1. \A d \in Client : ActorOf[d] \in Actor
  BY TagAssumption
<1> QED
  BY <1>1, GuardedWriteAdvance, TablesKept, EndsInv

LEMMA ReleaseInv ==
    ASSUME Inv, NEW c \in Client, Release(c)
    PROVE  Inv'
<1>1. PICK t \in job[c].ids :
          \/ UNCHANGED rows
          \/ /\ rows[t].rev < MaxRevision
             /\ rows' = [rows EXCEPT ![t] = Bumped([rows[t] EXCEPT !.assignee = Nobody])]
  BY DEF Release
<1>2. job[c] \in BlindJob
  <2>1. job[c] \in TagJob \cup GuardedJob \cup BlindJob \cup TagUseJob \cup {NoJob}
    BY DEF Inv, TypeOK
  <2> QED
    BY <2>1, GuardedLine, TagUseLine, TagLine DEF Release, NoJob
<1>3. t \in Task /\ rows[t] \in Row /\ rows \in [Task -> Row]
  BY <1>1, <1>2, BlindLine DEF Inv, TypeOK
<1>4. Advance
  <2> DEFINE s == [rows[t] EXCEPT !.assignee = Nobody]
  <2>1. s \in Row /\ s.rev = rows[t].rev
    BY <1>3 DEF Row
  <2> HIDE DEF s
  <2>2. rows[t].rev < MaxRevision => Bumped(s) \in Row /\ Bumped(s).rev = rows[t].rev + 1
    BY <1>3, <2>1, BumpedRow
  <2>3. UNCHANGED rows \/ (rows[t].rev < MaxRevision /\ rows' = [rows EXCEPT ![t] = Bumped(s)])
    BY <1>1 DEF s
  <2> QED
    BY <1>3, <2>2, <2>3 DEF Advance
<1>5. Ends(c) /\ UNCHANGED <<tagVars, attached, edges>>
  BY DEF Release
<1> QED
  BY <1>4, <1>5, TablesKept, EndsInv

\* Both ends of an edge move on, or nothing changes.
LEMMA EdgesInv ==
    ASSUME Inv, NEW c \in Client, Ends(c), NEW new \in SUBSET (Task \X Task \X Kind),
           NEW ends \in SUBSET Task, SetsEdges(new, ends)
    PROVE  Inv'
<1>1. Advance
  <2>1. CASE UNCHANGED rows
    BY <2>1 DEF Inv, TypeOK, Advance
  <2>2. CASE rows' # rows
    <3>1. /\ \A t \in ends : rows[t].rev < MaxRevision
          /\ rows' = [t \in Task |-> IF t \in ends THEN Bumped(rows[t]) ELSE rows[t]]
      BY <2>2 DEF SetsEdges
    <3>2. \A t \in ends : rows[t] \in Row
      BY DEF Inv, TypeOK
    <3> QED
      BY <3>1, <3>2, BatchAdvance DEF Inv
  <2> QED
    BY <2>1, <2>2
<1>2. TablesOK
  BY DEF SetsEdges, Inv, TypeOK, TablesOK, TagTypeOK, tagVars, Ends, Unresolved, TagRef
<1> QED
  BY <1>1, <1>2, EndsInv

LEMMA DepInv ==
    ASSUME Inv, NEW c \in Client, DepAdd(c) \/ DepRemove(c)
    PROVE  Inv'
<1> DEFINE j == job[c]
<1>1. j \in BlindJob /\ j.op \in {"depAdd", "depRemove"} /\ Ends(c)
  <2>1. j \in TagJob \cup GuardedJob \cup BlindJob \cup TagUseJob \cup {NoJob}
    BY DEF Inv, TypeOK
  <2> QED
    BY <2>1, GuardedLine, TagUseLine, TagLine DEF DepAdd, DepRemove, NoJob
<1>2. j.ids \subseteq Task /\ j.on \in Task /\ j.kind \in Kind
  BY <1>1, BlindLine
<1>3. \A t \in j.ids : {t, j.on} \subseteq Task /\ <<t, j.on, j.kind>> \in Task \X Task \X Kind
  BY <1>2
<1>4. edges \subseteq Task \X Task \X Kind
  BY DEF Inv, TypeOK
<1>5. CASE UNCHANGED <<tagVars, taskVars>>
  BY <1>1, <1>5, QuietEndInv
<1>6. ASSUME NEW t \in j.ids, NEW new, new = edges \/ new = edges \cup {<<t, j.on, j.kind>>} \/ new \subseteq edges,
             SetsEdges(new, {t, j.on})
      PROVE  Inv'
  <2>1. new \in SUBSET (Task \X Task \X Kind)
    BY <1>3, <1>4, <1>6
  <2> QED
    BY <1>1, <1>3, <1>6, <2>1, EdgesInv
<1>7. CASE DepAdd(c)
  <2>1. PICK t \in j.ids :
            \/ UNCHANGED <<tagVars, taskVars>>
            \/ SetsEdges(IF SameEdge(t, j.on, j.kind) \cap edges # {} THEN edges
                         ELSE edges \cup {<<t, j.on, j.kind>>}, {t, j.on})
    BY <1>7 DEF DepAdd
  <2> QED
    BY <1>5, <1>6, <2>1
<1>8. CASE DepRemove(c)
  <2>1. PICK t \in j.ids : SetsEdges(edges \ SameEdge(t, j.on, j.kind), {t, j.on})
    BY <1>8 DEF DepRemove
  <2> QED
    BY <1>6, <2>1
<1> QED
  BY <1>7, <1>8

LEMMA AttachInv ==
    ASSUME Inv, NEW c \in Client, AttachOrDetach(c)
    PROVE  Inv'
<1> DEFINE g == ref[c].id
<1>1. /\ pc[c] = "send" /\ job[c] \in TagUseJob /\ Ends(c) /\ UNCHANGED <<tagVars, edges>>
      /\ g \in TagId
  BY DEF AttachOrDetach, Inv, Found
<1>2. PICK t \in job[c].ids :
          \/ UNCHANGED <<rows, attached>>
          \/ /\ rows[t].rev < MaxRevision
             /\ \/ attached' = [attached EXCEPT ![t] = attached[t] \cup {g}]
                \/ attached' = [attached EXCEPT ![t] = attached[t] \ {g}]
             /\ rows' = [rows EXCEPT ![t] = Bumped(rows[t])]
  BY DEF AttachOrDetach
<1>3. t \in Task /\ rows[t] \in Row /\ rows \in [Task -> Row]
  BY <1>1, <1>2, TagUseLine DEF Inv, TypeOK
<1>4. Advance
  <2>1. rows[t].rev < MaxRevision => Bumped(rows[t]) \in Row /\ Bumped(rows[t]).rev = rows[t].rev + 1
    BY <1>3, BumpedRow
  <2> QED
    BY <1>2, <1>3, <2>1 DEF Advance
<1>5. attached' \in [Task -> SUBSET TagId]
  BY <1>1, <1>2, <1>3 DEF Inv, TypeOK
<1>6. TablesOK
  BY <1>1, <1>5 DEF Inv, TypeOK, TablesOK, TagTypeOK, tagVars, Ends, Unresolved, TagRef
<1> QED
  BY <1>1, <1>4, <1>6, EndsInv

-----------------------------------------------------------------------------
(***************************************************************************)
(* The dictionary                                                          *)
(***************************************************************************)

LEMMA ProposedInv ==
    ASSUME Inv, NEW c \in Client, TagProposed(c)
    PROVE  Inv'
<1> DEFINE j == job[c]
           name == NameSent(j, ref[c])
           p == [actor |-> ActorOf[c], action |-> j.op, name |-> name, target |-> ref[c].id,
                 open |-> TRUE, line |-> j,
                 fresh |-> j.op = "create" \/ ref[c] \in Resolved(j.target)]
<1>1. /\ Ends(c) /\ UNCHANGED <<taskVars, dictionary>>
      /\ proposals' = Append(proposals, p) /\ Len(proposals) < MaxProposals
      /\ j \in TagJob /\ ref[c] \in TagRef
  BY DEF TagProposed, Propose, Inv, Found, TypeOK, TagTypeOK
<1>2. p \in Proposal
  <2>1. name \in Spelling \cup {NoName} /\ j.op \in {"create", "rename", "delete"}
    BY <1>1, TagLine DEF NameSent, TagRef
  <2>2. ref[c].id \in TagId \cup {NoName} /\ ActorOf[c] \in Actor
    BY <1>1, TagAssumption DEF TagRef
  <2>3. p.fresh \in BOOLEAN
    BY Zenon
  <2> HIDE DEF name, j
  <2> QED
    BY <1>1, <2>1, <2>2, <2>3 DEF Proposal, j
<1> HIDE DEF p
<1>3. TablesOK
  BY <1>1, <1>2, TagAssumption
  DEF TablesOK, TagTypeOK, Inv, TypeOK, taskVars, Ends, Unresolved, TagRef
<1>4. Advance
  BY <1>1 DEF Advance, taskVars, Inv, TypeOK
<1> QED
  BY <1>1, <1>3, <1>4, EndsInv

LEMMA SameInterval ==
    ASSUME NEW a \in Nat, NEW b \in Nat, 1..a = 1..b
    PROVE  a = b
<1>1. a # 0 => a \in 1..a
  OBVIOUS
<1>2. b # 0 => b \in 1..b
  OBVIOUS
<1>3. a # 0 => a <= b
  BY <1>1
<1>4. b # 0 => b <= a
  BY <1>2
<1> QED
  BY <1>3, <1>4

\* All proposals are what they were, but for being used and being stale.
LEMMA StaleProposals ==
    ASSUME NEW k, proposals \in Seq(Proposal),
           proposals' = [i \in DOMAIN proposals |->
                            [proposals[i] EXCEPT !.fresh = FALSE, !.open = @ /\ i # k]]
    PROVE  proposals' \in Seq(Proposal) /\ Len(proposals') = Len(proposals)
<1> DEFINE n == Len(proposals)
<1>1. n \in Nat /\ DOMAIN proposals = 1..n /\ \A i \in 1..n : proposals[i] \in Proposal
  BY ElementOfSeq, LenProperties
<1>2. ASSUME NEW i \in 1..n
      PROVE  [proposals[i] EXCEPT !.fresh = FALSE, !.open = @ /\ i # k] \in Proposal
  BY <1>1, <1>2 DEF Proposal
<1> HIDE DEF n
<1>3. proposals' \in [1..n -> Proposal]
  BY <1>1, <1>2
<1>4. proposals' \in Seq(Proposal) /\ DOMAIN proposals' = 1..n
  BY <1>1, <1>3, SeqDef
<1>5. Len(proposals') \in Nat /\ DOMAIN proposals' = 1..Len(proposals')
  BY <1>4, LenProperties
<1> QED
  BY <1>1, <1>4, <1>5, SameInterval DEF n

LEMMA ConfirmedInv ==
    ASSUME Inv, NEW c \in Client, TagConfirmed(c)
    PROVE  Inv'
<1> DEFINE j == job[c]
           k == j.confirms
<1>1. /\ Ends(c) /\ UNCHANGED <<rows, edges>>
      /\ attached' = [t \in Task |-> {g \in attached[t] : dictionary'[g] # NoName}]
      /\ Applies(proposals[k])
      /\ j \in TagJob /\ k \in 1..Len(proposals)
      /\ proposals' = [i \in DOMAIN proposals |->
                            [proposals[i] EXCEPT !.fresh = FALSE, !.open = @ /\ i # k]]
  <2>1. j \in TagJob /\ k <= Len(proposals) /\ k # 0
    BY DEF TagConfirmed, Confirm, Inv, Found, NoProposal
  <2>2. k \in Nat /\ Len(proposals) \in Nat
    BY <2>1, TagLine DEF Inv, TypeOK, TagTypeOK
  <2>3. k \in 1..Len(proposals)
    BY <2>1, <2>2
  <2> QED
    BY <2>1, <2>3, Zenon DEF TagConfirmed, Confirm
<1>2. proposals' \in Seq(Proposal) /\ Len(proposals') = Len(proposals)
  <2> HIDE DEF k
  <2> QED
    BY <1>1, StaleProposals DEF Inv, TypeOK, TagTypeOK
<1>3. dictionary' \in [TagId -> Spelling \cup {NoName}]
  <2>1. proposals[k] \in Proposal
    BY <1>1, ElementOfSeq DEF Inv, TypeOK, TagTypeOK
  <2>2. proposals[k].name \in Spelling \cup {NoName}
    BY <2>1 DEF Proposal
  <2> HIDE DEF k
  <2> QED
    BY <1>1, <2>2 DEF Applies, Inv, TypeOK, TagTypeOK
<1>4. TablesOK
  <2>1. Len(proposals) \in Nat /\ Len(proposals) <= MaxProposals
    BY DEF Inv, TypeOK, TagTypeOK
  <2>2. ref' \in [Client -> TagRef]
    BY <1>1 DEF Inv, TypeOK, TagTypeOK, Ends, Unresolved, TagRef
  <2>3. attached' \in [Task -> SUBSET TagId] /\ edges' \subseteq Task \X Task \X Kind
    BY <1>1 DEF Inv, TypeOK
  <2> QED
    BY <1>2, <1>3, <2>1, <2>2, <2>3 DEF TablesOK, TagTypeOK
<1>5. Advance
  BY <1>1 DEF Advance, Inv, TypeOK
<1> QED
  BY <1>1, <1>4, <1>5, EndsInv

LEMMA ExpireInv ==
    ASSUME Inv, NEW k \in 1..MaxProposals, Expire(k), UNCHANGED <<taskVars, base, moved>>
    PROVE  Inv'
<1>1. proposals' \in Seq(Proposal) /\ Len(proposals') = Len(proposals)
  <2>1. k \in 1..Len(proposals) /\ proposals[k] \in Proposal
    BY DEF Expire, Inv, TypeOK, TagTypeOK
  <2>2. [proposals[k] EXCEPT !.open = FALSE] \in Proposal
    BY <2>1 DEF Proposal
  <2> QED
    BY <2>1, <2>2 DEF Expire, Inv, TypeOK, TagTypeOK
<1>2. TypeOK'
  BY <1>1 DEF Expire, Inv, TypeOK, TagTypeOK, taskVars
<1>3. Fresh' /\ Reading' /\ Found'
  BY <1>1 DEF Expire, Inv, Fresh, Reading, Found, Pinned, taskVars
<1> QED
  BY <1>2, <1>3 DEF Inv

-----------------------------------------------------------------------------
LEMMA InitInv == Init => Inv
<1> SUFFICES ASSUME Init PROVE Inv
  OBVIOUS
<1> USE TagAssumption, TaskAssumption, ZeroRead, LinesDiffer DEF Init
<1>1. TypeOK
  BY DEF TypeOK, TagTypeOK, Row, Status, Unresolved, TagRef
<1>2. Fresh /\ Reading /\ Found
  BY DEF Fresh, Reading, Found
<1> QED
  BY <1>1, <1>2 DEF Inv

LEMMA NextInv == Inv /\ [Next]_vars => Inv'
<1> SUFFICES ASSUME Inv, [Next]_vars PROVE Inv'
  OBVIOUS
<1>1. CASE UNCHANGED vars
  BY <1>1 DEF vars, tagVars, taskVars, clientVars, Inv, TypeOK, TagTypeOK,
              Fresh, Reading, Found, Pinned
<1>2. ASSUME NEW c \in Client, NEW j, StartGuarded(c, j) PROVE Inv'
  BY <1>2, StartGuardedInv DEF StartGuarded
<1>3. ASSUME NEW c \in Client, NEW j,
             \/ StartBlind(c, j) \/ StartTagUse(c, j)
             \/ StartTags(c, j) /\ UNCHANGED <<taskVars, base, moved>>
      PROVE  Inv'
  <2>1. j \in BlindJob \cup TagUseJob \cup TagJob
    BY <1>3 DEF StartBlind, StartTagUse, StartTags
  <2> QED
    BY <1>3, <2>1, StartOtherInv DEF StartBlind, StartTagUse, StartTags
<1>4. ASSUME NEW c \in Client, NEW t \in Task, Read(c, t) PROVE Inv'
  BY <1>4, ReadInv
<1>5. ASSUME NEW c \in Client,
             \/ ResolveTarget(c) \/ Fails(c) \/ GuardedWrite(c) \/ GuardedRefused(c)
             \/ Release(c) \/ DepAdd(c) \/ DepRemove(c) \/ AttachOrDetach(c)
             \/ TagProposed(c) \/ TagConfirmed(c) \/ TagRefused(c)
      PROVE  Inv'
  <2>1. GuardedRefused(c) => Inv'
    BY QuietEndInv DEF GuardedRefused
  <2>2. TagRefused(c) => Inv'
    BY QuietEndInv DEF TagRefused, SubmitRefused
  <2> QED
    BY <1>5, <2>1, <2>2, ResolveInv, FailsInv, GuardedWriteInv, ReleaseInv, DepInv, AttachInv,
       ProposedInv, ConfirmedInv
<1>6. ASSUME NEW k \in 1..MaxProposals, Expire(k), UNCHANGED <<taskVars, base, moved>>
      PROVE  Inv'
  BY <1>6, ExpireInv
<1> QED
  BY <1>1, <1>2, <1>3, <1>4, <1>5, <1>6 DEF Next, GuardedWrite

LEMMA Invariant == Spec => []Inv
BY InitInv, NextInv, PTL DEF Spec

\* Every variable of the tasks, the dictionary and the clients keeps its type
\* (commands/todo_cmd.cpp, commands/tags_cmd.cpp).
THEOREM TypeCorrect == Spec => []TypeOK
<1>1. Inv => TypeOK
  BY DEF Inv
<1> QED
  BY <1>1, Invariant, PTL

-----------------------------------------------------------------------------
(***************************************************************************)
(* What the runs check                                                     *)
(***************************************************************************)

\* Only writes change tasks, and each ends the run of its client.
LEMMA Writers ==
    ASSUME Inv, Next, rows' # rows
    PROVE  \E c \in Client :
              /\ pc[c] = "send" /\ Ends(c)
              /\ GuardedWrite(c) \/ job[c] \notin GuardedJob
<1>1. ASSUME NEW c \in Client, NEW j,
             \/ StartGuarded(c, j) \/ StartBlind(c, j) \/ StartTagUse(c, j)
             \/ StartTags(c, j) /\ UNCHANGED <<taskVars, base, moved>>
      PROVE  FALSE
  BY <1>1 DEF StartGuarded, StartBlind, StartTagUse, StartTags, taskVars
<1>2. ASSUME NEW c \in Client, NEW t \in Task, Read(c, t) PROVE FALSE
  BY <1>2 DEF Read, taskVars
<1>3. ASSUME NEW c \in Client,
             \/ ResolveTarget(c) \/ Fails(c) \/ GuardedRefused(c)
             \/ TagProposed(c) \/ TagConfirmed(c) \/ TagRefused(c)
      PROVE  FALSE
  BY <1>3 DEF ResolveTarget, Fails, GuardedRefused, TagProposed, TagConfirmed, TagRefused, taskVars
<1>4. ASSUME NEW k, Expire(k), UNCHANGED <<taskVars, base, moved>> PROVE FALSE
  BY <1>4 DEF taskVars
<1>5. ASSUME NEW c \in Client, GuardedWrite(c) PROVE pc[c] = "send" /\ Ends(c)
  BY <1>5 DEF GuardedWrite, Claim, Done, Update, Move, Writes
<1>6. ASSUME NEW c \in Client,
             Release(c) \/ DepAdd(c) \/ DepRemove(c) \/ AttachOrDetach(c)
      PROVE  pc[c] = "send" /\ Ends(c) /\ job[c] \notin GuardedJob
  BY <1>6, GuardedLine, LinesDiffer DEF Release, DepAdd, DepRemove, AttachOrDetach
<1> QED
  BY <1>1, <1>2, <1>3, <1>4, <1>5, <1>6 DEF Next, GuardedWrite

\* A claim, done, update or move finds its tasks as they were read, or at
\* the revision of --revision, and changes all of them (currentRevision and
\* runDone in commands/todo_cmd.cpp).
THEOREM NoLostUpdate == Spec => WritesOnlyWhatItRead
<1>1. ASSUME Inv, Next, NEW c \in Client, GuardedTakes(c), NEW t \in job[c].ids
      PROVE  /\ IF Pinned(job[c]) THEN rows[t].rev = job[c].pin ELSE t \notin moved[c]
             /\ rows'[t].rev = rows[t].rev + 1
  <2>1. PICK d \in Client : pc[d] = "send" /\ Ends(d) /\ (GuardedWrite(d) \/ job[d] \notin GuardedJob)
    BY <1>1, Writers DEF GuardedTakes
  <2>2. d = c
    BY <1>1, <2>1 DEF GuardedTakes, Ends, Inv, TypeOK
  <2>3. GuardedWrite(c) /\ job[c] \in GuardedJob /\ pc[c] = "send"
    BY <1>1, <2>1, <2>2 DEF GuardedTakes
  <2>4. Admitted(c) /\ rows'[t].rev = rows[t].rev + 1
    BY <1>1, <2>3, TagAssumption, GuardedWriteAdvance
  <2>5. t \in Task /\ base[c][t] = rows[t].rev
    BY <1>1, <2>3, <2>4, GuardedLine DEF Admitted, RevisionSent
  <2>6. rows[t].rev \in Nat
    BY <1>1, <2>5, TaskAssumption DEF Inv, TypeOK, Row
  <2> QED
    BY <1>1, <2>3, <2>4, <2>5, <2>6 DEF Inv, Fresh, Reading
<1>2. Inv /\ [Next]_vars =>
        [\A c \in Client : GuardedTakes(c) =>
            \A t \in job[c].ids :
               /\ IF Pinned(job[c]) THEN rows[t].rev = job[c].pin ELSE t \notin moved[c]
               /\ rows'[t].rev = rows[t].rev + 1]_vars
  BY <1>1
<1> QED
  BY <1>2, Invariant, PTL DEF Spec, WritesOnlyWhatItRead

\* Such a command is in conflict with what others did since it read, with
\* what its user pinned or named twice, and never with itself.
THEOREM NoSelfConflict == Spec => ConflictHasCause
<1>1. ASSUME Inv, NEW c \in Client, GuardedRefused(c)
      PROVE  \/ Pinned(job[c]) \/ Repeats(job[c])
             \/ moved[c] \cap job[c].ids # {}
             \/ job[c].op = "claim" /\ \E t \in job[c].ids : ClaimedByOther(t, ActorOf[c])
             \/ MakesCycle(job[c])
  <2>1. pc[c] = "send" /\ job[c] \in GuardedJob /\ ~Admitted(c)
    BY <1>1 DEF GuardedRefused
  <2>2. ASSUME NEW t \in job[c].ids, base[c][t] # rows[t].rev, ~Pinned(job[c])
        PROVE  t \in moved[c]
    BY <1>1, <2>1, <2>2, GuardedLine DEF Inv, Fresh, Reading
  <2> QED
    BY <2>1, <2>2 DEF Admitted, RevisionSent
<1>2. Inv /\ [Next]_vars =>
        [\A c \in Client : GuardedRefused(c) =>
            \/ Pinned(job[c]) \/ Repeats(job[c])
            \/ moved[c] \cap job[c].ids # {}
            \/ job[c].op = "claim" /\ \E t \in job[c].ids : ClaimedByOther(t, ActorOf[c])
            \/ MakesCycle(job[c])]_vars
  BY <1>1
<1> QED
  BY <1>2, Invariant, PTL DEF Spec, ConflictHasCause

-----------------------------------------------------------------------------
(***************************************************************************)
(* The printed command line                                                *)
(***************************************************************************)

\* No two tags differ only in the case of their names.
Unique ==
    \A g, h \in TagId : g # h /\ Defined(g) /\ Defined(h) => Fold[dictionary[g]] # Fold[dictionary[h]]

\* p is what its command line comes to with the dictionary as it is.
Stands(p) ==
    /\ p.action = p.line.op
    /\ Applicable(p.action, p.name, p.target)
    /\ IF p.line.op = "create" THEN p.name = p.line.name
       ELSE \E r \in Resolved(p.line.target) : p.target = r.id /\ p.name = NameSent(p.line, r)

Standing ==
    \A p \in Proposal :
        p.fresh /\ (\E i \in 1..Len(proposals) : proposals[i] = p) => Stands(p)

\* c has the tag that its line names.
Kept(c) ==
    \A k \in 1..Len(proposals), arg \in TagArg :
        /\ pc[c] = "submit" /\ job[c].op # "create"
        /\ job[c].confirms = k /\ proposals[k].fresh /\ job[c].target = arg
        => ref[c] \in Resolved(arg)

Hints == Unique /\ Standing /\ \A c \in Client : Kept(c)

LEMMA SameDictionary ==
    ASSUME dictionary' = dictionary
    PROVE  /\ \A arg : Resolved(arg)' = Resolved(arg)
           /\ \A p : Stands(p) <=> Stands(p)'
<1>1. \A arg : Resolved(arg)' = Resolved(arg)
  BY DEF Resolved, Defined
<1>2. \A a, n, t : Applicable(a, n, t) <=> Applicable(a, n, t)'
  BY DEF Applicable, FreeFor, Defined
<1> QED
  BY <1>1, <1>2 DEF Stands, NameSent

\* The dictionary and the proposals stay, and only c moves.
LEMMA OneMovesHints ==
    ASSUME Inv, Hints, UNCHANGED tagVars, NEW c \in Client,
           \A d \in Client \ {c} : pc'[d] = pc[d] /\ job'[d] = job[d] /\ ref'[d] = ref[d],
           \/ pc'[c] # "submit"
           \/ job'[c].op = "create"
           \/ ref'[c] \in Resolved(job'[c].target)
    PROVE  Hints'
<1>1. dictionary' = dictionary /\ proposals' = proposals
  BY DEF tagVars
<1>2. Unique'
  BY <1>1 DEF Hints, Unique, Defined
<1>3. Standing'
  BY <1>1, SameDictionary DEF Hints, Standing
<1>4. ASSUME NEW d \in Client PROVE Kept(d)'
  <2>1. CASE d = c
    <3>1. ref'[c] \in Resolved(job'[c].target) => \A arg : arg = job'[c].target => ref'[c] \in Resolved(arg)'
      BY <1>1, SameDictionary
    <3> QED
      BY <2>1, <3>1 DEF Kept
  <2>2. CASE d # c
    BY <1>1, <2>2, SameDictionary DEF Hints, Kept
  <2> QED
    BY <2>1, <2>2
<1> QED
  BY <1>2, <1>3, <1>4 DEF Hints

LEMMA EndsHints ==
    ASSUME Inv, Hints, UNCHANGED tagVars, NEW c \in Client, Ends(c)
    PROVE  Hints'
<1>1. pc'[c] = "idle"
  BY DEF Ends, Inv, TypeOK
<1>2. \A d \in Client \ {c} : pc'[d] = pc[d] /\ job'[d] = job[d] /\ ref'[d] = ref[d]
  BY DEF Ends, Inv, TypeOK, TagTypeOK
<1> QED
  BY <1>1, <1>2, OneMovesHints

LEMMA ResolveHints ==
    ASSUME Inv, Hints, NEW c \in Client, ResolveTarget(c)
    PROVE  Hints'
<1>1. UNCHANGED tagVars
  BY DEF ResolveTarget
<1>2. CASE Ends(c)
  BY <1>1, <1>2, EndsHints
<1>3. CASE ~Ends(c)
  <2>1. PICK r \in Resolved(job[c].target) :
            /\ ref' = [ref EXCEPT ![c] = r] /\ job' = job
            /\ pc' = [pc EXCEPT ![c] = IF job[c] \in TagUseJob THEN "send" ELSE "submit"]
    BY <1>3 DEF ResolveTarget
  <2>2. ref'[c] \in Resolved(job'[c].target)
    BY <2>1 DEF Inv, TypeOK, TagTypeOK
  <2>3. \A d \in Client \ {c} : pc'[d] = pc[d] /\ job'[d] = job[d] /\ ref'[d] = ref[d]
    BY <2>1 DEF Inv, TypeOK, TagTypeOK
  <2> QED
    BY <1>1, <2>2, <2>3, OneMovesHints
<1> QED
  BY <1>2, <1>3

LEMMA ProposedHints ==
    ASSUME Inv, Hints, NEW c \in Client, TagProposed(c)
    PROVE  Hints'
<1> DEFINE j == job[c]
           name == NameSent(j, ref[c])
           p == [actor |-> ActorOf[c], action |-> j.op, name |-> name, target |-> ref[c].id,
                 open |-> TRUE, line |-> j,
                 fresh |-> j.op = "create" \/ ref[c] \in Resolved(j.target)]
           n == Len(proposals)
<1>1. /\ Ends(c) /\ dictionary' = dictionary
      /\ proposals' = Append(proposals, p) /\ proposals \in Seq(Proposal)
      /\ Applicable(j.op, name, ref[c].id)
  BY DEF TagProposed, Propose, Inv, TypeOK, TagTypeOK
<1>2. p.fresh => Stands(p)
  <2>1. ASSUME p.fresh, j.op # "create" PROVE ref[c] \in Resolved(j.target)
    BY <2>1, Zenon
  <2>2. j.op = "create" => name = j.name
    BY DEF NameSent
  <2>3. /\ p.action = j.op /\ p.name = name /\ p.target = ref[c].id /\ p.line = j
    BY Zenon
  <2> HIDE DEF p, name, j
  <2> QED
    BY <1>1, <2>1, <2>2, <2>3 DEF Stands, name
<1> HIDE DEF p, name
<1>3. /\ n \in Nat /\ Len(proposals') = n + 1 /\ proposals'[n + 1] = p
      /\ \A i \in 1..n : proposals'[i] = proposals[i]
  BY <1>1
<1>5. Unique'
  BY <1>1 DEF Hints, Unique, Defined
<1>6. Standing'
  BY <1>1, <1>2, <1>3, SameDictionary DEF Hints, Standing
<1>7. ASSUME NEW d \in Client PROVE Kept(d)'
  <2>1. CASE d = c
    BY <1>1, <2>1 DEF Kept, Ends, Inv, TypeOK
  <2>2. CASE d # c
    <3>1. pc'[d] = pc[d] /\ job'[d] = job[d] /\ ref'[d] = ref[d]
      BY <1>1, <2>2 DEF Ends, Inv, TypeOK, TagTypeOK
    <3>2. pc[d] = "submit" => job[d].confirms <= n
      BY DEF Inv, Found
    <3>3. ASSUME NEW k \in 1..Len(proposals'), NEW arg \in TagArg,
                 pc[d] = "submit", job[d].op # "create", job[d].confirms = k,
                 proposals'[k].fresh, job[d].target = arg
          PROVE  ref[d] \in Resolved(arg)
      <4>1. k \in 1..n
        BY <1>3, <3>2, <3>3
      <4>2. proposals[k].fresh
        BY <1>3, <3>3, <4>1
      <4> QED
        BY <3>3, <4>1, <4>2 DEF Hints, Kept
    <3> QED
      BY <1>1, <3>1, <3>3, SameDictionary DEF Kept
  <2> QED
    BY <2>1, <2>2
<1> QED
  BY <1>5, <1>6, <1>7 DEF Hints

LEMMA ConfirmedHints ==
    ASSUME Inv, Hints, NEW c \in Client, TagConfirmed(c)
    PROVE  Hints'
<1> DEFINE k == job[c].confirms
           p == proposals[k]
<1>1. /\ Applicable(p.action, p.name, p.target) /\ Applies(p) /\ Ends(c)
      /\ dictionary \in [TagId -> Spelling \cup {NoName}]
  BY DEF TagConfirmed, Confirm, Accepts, Inv, TypeOK, TagTypeOK
<1> HIDE DEF p
<1>2. Unique'
  <2>1. CASE p.action = "create" /\ \E g \in TagId : ~Defined(g) /\ dictionary' = [dictionary EXCEPT ![g] = p.name]
    <3>1. PICK g \in TagId : dictionary' = [dictionary EXCEPT ![g] = p.name]
      BY <2>1
    <3>2. \A h \in TagId : Defined(h) => Fold[dictionary[h]] # Fold[p.name]
      BY <1>1, <2>1, TagAssumption DEF Applicable, FreeFor
    <3> QED
      BY <1>1, <3>1, <3>2 DEF Hints, Unique, Defined
  <2>2. CASE p.action = "rename" /\ dictionary' = [dictionary EXCEPT ![p.target] = p.name]
    BY <1>1, <2>2 DEF Hints, Unique, Defined, Applicable, FreeFor
  <2>3. CASE p.action = "delete" /\ dictionary' = [dictionary EXCEPT ![p.target] = NoName]
    BY <1>1, <2>3 DEF Hints, Unique, Defined
  <2> QED
    BY <1>1, <2>1, <2>2, <2>3 DEF Applies
<1>3. \A i \in 1..Len(proposals') : ~proposals'[i].fresh
  <2>1. proposals \in Seq(Proposal) /\ Len(proposals') = Len(proposals)
    <3>1. proposals' = [i \in DOMAIN proposals |->
                          [proposals[i] EXCEPT !.fresh = FALSE, !.open = @ /\ i # k]]
      BY Zenon DEF TagConfirmed, Confirm
    <3> HIDE DEF k
    <3> QED
      BY <3>1, StaleProposals DEF Inv, TypeOK, TagTypeOK
  <2>2. ASSUME NEW i \in 1..Len(proposals)
        PROVE  proposals'[i] = [proposals[i] EXCEPT !.fresh = FALSE, !.open = @ /\ i # k]
    <3>1. i \in DOMAIN proposals
      BY <2>1, LenProperties
    <3> QED
      BY <3>1, Zenon DEF TagConfirmed, Confirm
  <2>3. ASSUME NEW i \in 1..Len(proposals) PROVE ~proposals'[i].fresh
    <3>1. proposals[i] \in Proposal
      BY <2>1, ElementOfSeq
    <3> HIDE DEF k
    <3> QED
      BY <2>2, <3>1 DEF Proposal
  <2> QED
    BY <2>1, <2>3
<1> QED
  BY <1>2, <1>3 DEF Hints, Standing, Kept

LEMMA ExpireHints ==
    ASSUME Inv, Hints, NEW k \in 1..MaxProposals, Expire(k)
    PROVE  Hints'
<1>1. /\ UNCHANGED <<dictionary, pc, job, ref>> /\ k \in 1..Len(proposals)
      /\ proposals' = [proposals EXCEPT ![k].open = FALSE]
      /\ proposals \in Seq(Proposal) /\ \A i \in 1..Len(proposals) : proposals[i] \in Proposal
  BY DEF Expire, Inv, TypeOK, TagTypeOK
<1>2. /\ Len(proposals') = Len(proposals)
      /\ \A i \in 1..Len(proposals) :
            proposals'[i] = IF i = k THEN [proposals[i] EXCEPT !.open = FALSE] ELSE proposals[i]
  <2> DEFINE e == [proposals[k] EXCEPT !.open = FALSE]
  <2>1. e \in Proposal /\ proposals' = [proposals EXCEPT ![k] = e]
    BY <1>1 DEF Proposal
  <2> HIDE DEF e
  <2>2. /\ Len(proposals') = Len(proposals)
        /\ \A i \in 1..Len(proposals) : proposals'[i] = IF i = k THEN e ELSE proposals[i]
    <3>1. /\ Len([proposals EXCEPT ![k] = e]) = Len(proposals)
          /\ \A i \in 1..Len(proposals) :
                [proposals EXCEPT ![k] = e][i] = IF i = k THEN e ELSE proposals[i]
      <4>1. proposals \in Seq(Proposal) /\ k \in 1..Len(proposals)
        BY <1>1
      <4> QED
        BY <2>1, <4>1, ExceptSeq
    <3> QED
      BY <2>1, <3>1, Zenon
  <2> QED
    BY <2>2 DEF e
<1>3. ASSUME NEW i \in 1..Len(proposals)
      PROVE  /\ proposals'[i].fresh = proposals[i].fresh
             /\ Stands(proposals[i]) => \A q : q = proposals'[i] => Stands(q)
  BY <1>1, <1>2 DEF Proposal, Stands
<1>4. Unique'
  BY <1>1 DEF Hints, Unique, Defined
<1>5. Standing'
  BY <1>1, <1>2, <1>3, SameDictionary DEF Hints, Standing
<1>6. ASSUME NEW d \in Client PROVE Kept(d)'
  BY <1>1, <1>2, <1>3, SameDictionary DEF Hints, Kept
<1> QED
  BY <1>4, <1>5, <1>6 DEF Hints

LEMMA NextHints == Inv /\ Hints /\ [Next]_vars => Hints'
<1> SUFFICES ASSUME Inv, Hints, [Next]_vars PROVE Hints'
  OBVIOUS
<1>1. CASE UNCHANGED vars
  <2>1. UNCHANGED <<dictionary, proposals, pc, job, ref>>
    BY <1>1 DEF vars, tagVars, clientVars
  <2> QED
    BY <2>1, SameDictionary DEF Hints, Unique, Defined, Standing, Kept
<1>2. ASSUME NEW c \in Client, NEW j,
             \/ StartGuarded(c, j) \/ StartBlind(c, j) \/ StartTagUse(c, j) \/ StartTags(c, j)
      PROVE  Hints'
  <2>1. /\ UNCHANGED tagVars /\ ref' = ref /\ job' = [job EXCEPT ![c] = j]
        /\ \E x : pc' = [pc EXCEPT ![c] = x] /\ (x # "submit" \/ j.op = "create")
    BY <1>2 DEF StartGuarded, StartBlind, StartTagUse, StartTags
  <2>2. pc'[c] # "submit" \/ job'[c].op = "create"
    BY <2>1 DEF Inv, TypeOK
  <2>3. \A d \in Client \ {c} : pc'[d] = pc[d] /\ job'[d] = job[d] /\ ref'[d] = ref[d]
    BY <2>1 DEF Inv, TypeOK
  <2> QED
    BY <2>1, <2>2, <2>3, OneMovesHints
<1>3. ASSUME NEW c \in Client, NEW t \in Task, Read(c, t) PROVE Hints'
  <2>1. /\ UNCHANGED <<tagVars, job, ref>>
        /\ pc' = [pc EXCEPT ![c] = "send"] \/ pc' = [pc EXCEPT ![c] = "read"]
    BY <1>3, Zenon DEF Read
  <2>2. pc'[c] # "submit" /\ \A d \in Client \ {c} : pc'[d] = pc[d]
    BY <2>1 DEF Inv, TypeOK
  <2> QED
    BY <2>1, <2>2, OneMovesHints
<1>4. ASSUME NEW c \in Client,
             \/ Fails(c) \/ GuardedWrite(c) \/ GuardedRefused(c) \/ TagRefused(c)
             \/ Release(c) \/ DepAdd(c) \/ DepRemove(c) \/ AttachOrDetach(c)
      PROVE  Hints'
  <2>1. UNCHANGED tagVars /\ Ends(c)
    BY <1>4 DEF Fails, GuardedWrite, Claim, Done, Update, Move, Writes, GuardedRefused, TagRefused,
                SubmitRefused, Release, DepAdd, DepRemove, SetsEdges, AttachOrDetach
  <2> QED
    BY <2>1, EndsHints
<1> QED
  BY <1>1, <1>2, <1>3, <1>4, ResolveHints, ProposedHints, ConfirmedHints, ExpireHints
  DEF Next, GuardedWrite

\* A printed line that is a command has the op, the name and the target of
\* the line that made it.
LEMMA HintLineFields ==
    ASSUME NEW j \in TagJob, NEW k \in 1..MaxProposals, HintLine(j, k) \in TagJob
    PROVE  /\ HintLine(j, k).op = j.op
           /\ j.op # "delete" => HintLine(j, k).name = j.name
           /\ j.op # "create" => HintLine(j, k).target = j.target
<1>1. NoLine \notin TagJob
  BY DEF NoLine, TagJob
<1>2. HintLine(j, k) = [j EXCEPT !.confirms = k, !.by = "directory"]
  BY <1>1 DEF HintLine
<1> DEFINE given == 0..MaxProposals
           ways == {"directory", "flags"}
<1>3. CASE j \in [op : {"create"}, name : Spelling, confirms : given, by : ways]
  BY <1>2, <1>3
<1>4. CASE j \in [op : {"rename"}, target : TagArg, name : Spelling, confirms : given, by : ways]
  BY <1>2, <1>4
<1>5. CASE j \in [op : {"delete"}, target : TagArg, confirms : given, by : ways]
  BY <1>2, <1>5
<1> QED
  BY <1>3, <1>4, <1>5 DEF TagJob

\* An argument stands for one tag at most.
LEMMA OneTag ==
    ASSUME Unique, NEW arg, NEW r \in Resolved(arg), NEW s \in Resolved(arg)
    PROVE  r = s
<1>1. CASE arg \in TagId
  BY <1>1 DEF Resolved
<1>2. CASE arg \notin TagId
  BY <1>2 DEF Resolved, Unique
<1> QED
  BY <1>1, <1>2

\* The command line that astral tags prints, if its names are single words and
\* the directory leads to the workspace, completes the change, as long as the
\* proposal is open and the dictionary is what the proposing command found
\* (printProposalHints, runMutate and resolveTag).
THEOREM HintsWork == Spec => HintCompletes
<1>1. ASSUME Inv, Hints, NEW c \in Client, Hinted(c)
      PROVE  /\ ~TagRefused(c)
             /\ pc[c] = "resolve" => Resolved(job[c].target) # {}
  <2> DEFINE j == job[c]
             k == j.confirms
             p == proposals[k]
  <2>1. /\ j \in TagJob /\ k # 0 /\ k <= Len(proposals)
        /\ p.open /\ p.fresh /\ p.actor = ActorOf[c] /\ j = HintLine(p.line, k)
    BY <1>1 DEF Hinted, NoProposal, Inv, Found
  <2>2. /\ proposals \in Seq(Proposal) /\ Len(proposals) \in Nat
        /\ Len(proposals) <= MaxProposals
    BY <1>1 DEF Inv, TypeOK, TagTypeOK
  <2>3. k \in 1..Len(proposals) /\ k \in 1..MaxProposals
    BY <2>1, <2>2, TagLine, TagAssumption
  <2>4. p \in Proposal
    BY <2>2, <2>3, ElementOfSeq
  <2>5. Stands(p)
    BY <1>1, <2>1, <2>3, <2>4 DEF Hints, Standing
  <2>6. p.line \in TagJob
    BY <2>4 DEF Proposal
  <2>7. /\ j.op = p.line.op
        /\ j.op # "delete" => j.name = p.line.name
        /\ j.op # "create" => j.target = p.line.target
    BY <2>1, <2>3, <2>6, HintLineFields
  <2>8. j.op # "create" =>
            \E r \in Resolved(j.target) : p.target = r.id /\ p.name = NameSent(j, r)
    BY <2>5, <2>7 DEF Stands, NameSent
  <2>9. pc[c] = "resolve" => Resolved(j.target) # {}
    BY <1>1, <2>1, <2>8 DEF Inv, Found
  <2>10. ASSUME pc[c] = "submit" PROVE Accepts(k, ActorOf[c], NameSent(j, ref[c]))
    <3>1. p.name = NameSent(j, ref[c])
      <4>1. CASE j.op = "create"
        BY <2>5, <2>7, <4>1 DEF Stands, NameSent
      <4>2. CASE j.op # "create"
        <5>1. j.target \in TagArg
          BY <2>1, <4>2, TagLine
        <5>2. ref[c] \in Resolved(j.target)
          BY <1>1, <2>1, <2>3, <2>10, <4>2, <5>1 DEF Hints, Kept
        <5> QED
          BY <1>1, <2>8, <4>2, <5>2, OneTag DEF Hints
      <4> QED
        BY <4>1, <4>2
    <3> QED
      BY <2>1, <2>5, <3>1 DEF Accepts, Stands
  <2> QED
    BY <2>1, <2>9, <2>10 DEF TagRefused, SubmitRefused, NoProposal
<1>2. Inv /\ Hints /\ [Next]_vars =>
        [\A c \in Client : Hinted(c) =>
            /\ ~TagRefused(c)
            /\ pc[c] = "resolve" => Resolved(job[c].target) # {}]_vars
  BY <1>1
<1>3. Init => Hints
  BY DEF Init, Hints, Unique, Standing, Kept
<1> QED
  BY <1>2, <1>3, NextHints, Invariant, InitInv, NextInv, PTL DEF Spec, HintCompletes
=============================================================================
