---------------------------- MODULE Collections ----------------------------
(***************************************************************************)
(* What goes into a collection and what comes out of it: astral todo add,  *)
(* todo add-tree and msg send post under an Idempotency-Key made from      *)
(* their arguments, so that a command can be run again; todo list, todo    *)
(* search, msg list and the document listings read page by page            *)
(* (fetchPageItems of auth/api.cpp) while others write.                    *)
(*                                                                         *)
(* The server keeps a collection ordered by position, gives out cursors    *)
(* that name the position of the last row of a page, and replays the first *)
(* success of an actor, endpoint and key for 24 hours.                     *)
(***************************************************************************)
EXTENDS Integers, FiniteSets, Sequences, SequencesExt

CONSTANTS
    Client,         \* processes
    Actor,
    ActorOf,        \* ActorOf[c]: whose credentials c uses
    Character,
    CommandLine,    \* the creating command lines that users give
    NoListing,      \* no listing under way
    Limit,          \* rows of a page
    MaxRow,         \* bound: rows ever made
    MaxPosition     \* bound: positions

Separator == "|"

\* Texts are sequences of characters, command lines what the three commands take.
Text == Seq(Character)
AddLine ==
    [op : {"add"}, into : Text, title : Text, description : Text,
     priority : Text, tags : Seq(Text)]
TreeLine == [op : {"add-tree"}, into : Text, content : Text]
MessageLine ==
    [op : {"send"}, into : Text, kind : Text, to : Text, thread : Text, body : Text]
Line == AddLine \cup TreeLine \cup MessageLine

ASSUME CollectionsAssumption ==
    /\ ActorOf \in [Client -> Actor]
    /\ Separator \in Character
    /\ CommandLine \subseteq Line
    /\ Limit \in Nat \ {0}
    /\ MaxRow \in Nat /\ MaxPosition \in Nat

VARIABLES
    place,      \* place[n]: position of row n, or Gone
    made,       \* history: the line and the actor each row came from
    memory,     \* what the server replays: actor, endpoint, key, row
    answer,     \* the success just reported: a line and the row of its answer
    taken,      \* of several cursors the server takes the "first" or "last"
    query,      \* the cursors of the next request of a listing, or NoListing
    got,        \* got[n]: how often it has collected row n (2: or oftener)
    steady      \* history: rows that have kept their place since it began

vars == <<place, made, memory, answer, taken, query, got, steady>>
listings == <<query, got, steady>>

Gone == 0
NoAnswer == [row |-> Gone]
NothingGot == [n \in 1..MaxRow |-> 0]
Rows == 1..Len(place)
Present == {n \in Rows : place[n] # Gone}

Init ==
    /\ place = <<>> /\ made = <<>>
    /\ memory = {} /\ answer = NoAnswer
    /\ taken \in {"first", "last"}
    /\ query = NoListing /\ got = NothingGot /\ steady = {}

-----------------------------------------------------------------------------
(***************************************************************************)
(* Creating                                                                *)
(***************************************************************************)

\* What the key of a line is made of.
AddSource(l) == <<l.into, l.title, l.description, l.priority>> \o l.tags
TreeSource(l) == <<l.into, l.content>>
MessageSource(l) == <<l.kind, l.to, l.thread, l.body>>

Source(l) ==
    CASE l.op = "add"      -> AddSource(l)
      [] l.op = "add-tree" -> TreeSource(l)
      [] l.op = "send"     -> MessageSource(l)

Linked(text, next) == text \o <<Separator>> \o next

\* The texts with a separator between each two.
Joined(texts) ==
    LET after[i \in 1..Len(texts)] ==
            IF i = 1 THEN texts[1] ELSE Linked(after[i - 1], texts[i])
    IN  after[Len(texts)]

\* Mutant: the hash is seeded by the process (std::hash).
KeyOfProcess(c, l) == <<l.op, Joined(Source(l)), c>>

\* Mutant: the thread of a message is left out.
KeyOfBody(c, l) ==
    IF l.op = "send" THEN <<l.op, Joined(<<l.kind, l.to, l.body>>)>>
    ELSE <<l.op, Joined(Source(l))>>

\* Hashes that differ stand for texts that differ.
Key(c, l) == <<l.op, Joined(Source(l))>>

\* The path of the request: the container, and the kind of rows.
Endpoint(l) == <<l.op, l.into>>

Remembered(c, l) ==
    {m \in memory : m.actor = ActorOf[c] /\ m.endpoint = Endpoint(l) /\ m.key = Key(c, l)}

\* The request is served; if lost, the answer does not arrive.
Creates(c, l, lost) ==
    LET n == Len(place) + 1
    IN  /\ Remembered(c, l) = {} /\ n <= MaxRow
        /\ \E p \in 1..MaxPosition :
              /\ \A r \in Present : place[r] < p
              /\ place' = Append(place, p)
        /\ made' = Append(made, [line |-> l, actor |-> ActorOf[c]])
        /\ memory' = memory \cup
              {[actor |-> ActorOf[c], endpoint |-> Endpoint(l), key |-> Key(c, l), row |-> n]}
        /\ answer' = IF lost THEN NoAnswer ELSE [line |-> l, row |-> n]
        /\ UNCHANGED <<taken, listings>>

\* The command is run again and the first answer is replayed.
Replays(c, l) ==
    /\ \E m \in Remembered(c, l) : answer' = [line |-> l, row |-> m.row]
    /\ UNCHANGED <<place, made, memory, taken, listings>>

\* 24 hours after the request, so the oldest first.
Forgets ==
    /\ \E m \in memory :
          /\ \A e \in memory : m.row <= e.row
          /\ memory' = memory \ {m}
    /\ answer' = NoAnswer /\ UNCHANGED <<place, made, taken, listings>>

-----------------------------------------------------------------------------
(***************************************************************************)
(* Rows that go or change places                                           *)
(***************************************************************************)

Leaves(n) ==
    /\ n \in Present
    /\ place' = [place EXCEPT ![n] = Gone]
    /\ steady' = steady \ {n}
    /\ answer' = NoAnswer /\ UNCHANGED <<made, memory, taken, query, got>>

Moves(n, p) ==
    /\ n \in Present /\ \A r \in Present : place[r] # p
    /\ place' = [place EXCEPT ![n] = p]
    /\ steady' = steady \ {n}
    /\ answer' = NoAnswer /\ UNCHANGED <<made, memory, taken, query, got>>

-----------------------------------------------------------------------------
(***************************************************************************)
(* Listing                                                                 *)
(***************************************************************************)

\* One listing at a time: listings do not disturb each other.
StartListing ==
    /\ query = NoListing
    /\ query' = <<>> /\ got' = NothingGot /\ steady' = Present
    /\ answer' = NoAnswer /\ UNCHANGED <<place, made, memory, taken>>

\* Where the server starts the page that query q asks for.
After(q) == IF q = <<>> THEN 0 ELSE IF taken = "last" THEN Last(q) ELSE Head(q)

Below(p) == {n \in Present : place[n] > p}

\* The rows of a page: the first `Limit` of those.
PageAfter(p) ==
    {n \in Below(p) : Cardinality({m \in Below(p) : place[m] < place[n]}) < Limit}

LastPlace(page) == Max({place[n] : n \in page})

Collected(page) ==
    [n \in 1..MaxRow |-> IF n \in page /\ got[n] < 2 THEN got[n] + 1 ELSE got[n]]

\* Mutant: the cursor is added once.
Pinned(q, cursor) == IF q = <<>> THEN <<cursor>> ELSE q

\* Every cursor is appended to the query that was; those between the first
\* and the last, which no server takes, are left out.
Followed(q, cursor) == IF Len(q) < 2 THEN Append(q, cursor) ELSE <<Head(q), cursor>>

\* A page with next_cursor, followed under --all.
NextPage ==
    /\ query # NoListing
    /\ LET page == PageAfter(After(query))
       IN  /\ Cardinality(Below(After(query))) > Limit
           /\ got' = Collected(page)
           /\ query' = Followed(query, LastPlace(page))
    /\ answer' = NoAnswer /\ UNCHANGED <<place, made, memory, taken, steady>>

EndsListing ==
    /\ query' = NoListing /\ got' = NothingGot /\ steady' = {}
    /\ answer' = NoAnswer /\ UNCHANGED <<place, made, memory, taken>>

Listed == Collected(PageAfter(After(query)))

\* One without it ends the listing, which prints Listed.
LastPage ==
    /\ query # NoListing
    /\ Cardinality(Below(After(query))) <= Limit
    /\ EndsListing

\* Without --all the first page is the listing; a failed request prints nothing.
Stops == query # NoListing /\ EndsListing

Next ==
    \/ \E c \in Client, l \in CommandLine :
          Creates(c, l, TRUE) \/ Creates(c, l, FALSE) \/ Replays(c, l)
    \/ StartListing \/ NextPage \/ LastPage \/ Stops
    \/ \E n \in Rows : Leaves(n) \/ \E p \in 1..MaxPosition : Moves(n, p)
    \/ Forgets

\* A listing keeps asking: each request has a timeout, so the loop is not
\* kept from its next round for ever.
Fairness == WF_vars(NextPage \/ LastPage)

Spec == Init /\ [][Next]_vars /\ Fairness

-----------------------------------------------------------------------------
(***************************************************************************)
(* Properties                                                              *)
(***************************************************************************)

Ambiguous(l) == \E i \in DOMAIN Source(l) : Separator \in ToSet(Source(l)[i])

\* Running a line again after a lost answer does not make a second row, from
\* whatever process: of the rows an actor made with one line only the newest
\* can still be inside the window (the comments at the keys of runAdd,
\* runAddTree and runSend).
CreatedOnce ==
    \A m, n \in Rows :
        m < n /\ made[m] = made[n] => \A e \in memory : e.row # m

\* A successful command names a row that its own arguments made, unless one
\* of the two lines has the separator in an argument: then two different
\* lines can have one key.
AnsweredWithOwn ==
    answer # NoAnswer =>
        LET l == made[answer.row].line
        IN  l = answer.line \/ Ambiguous(l) \/ Ambiguous(answer.line)

\* A listing with --all that ends has every row that was there, in its
\* place, from beginning to end, whatever was created, deleted or moved around
\* it and whichever of its cursors the server takes.  It has it once, unless
\* the listing had three pages or more and the server takes the first: then
\* the second page may come again (fetchPageItems).
ListingComplete ==
    [][LastPage => \A n \in steady :
          /\ Listed[n] >= 1
          /\ taken = "last" \/ Len(query) < 2 => Listed[n] = 1]_vars

\* A listing comes to an end, unless it needs a third page of a server that
\* takes the first cursor: that listing may ask for the second for ever.
ListingEnds ==
    query # NoListing ~> query = NoListing \/ (taken = "first" /\ Len(query) = 2)
=============================================================================
