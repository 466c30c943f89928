------------------------- MODULE FrameParserCheck -------------------------
(***************************************************************************)
(* FrameParser against a definition of what a stream of lines means: the   *)
(* reader takes the stream in chunks of any size and calls takeEvents      *)
(* after each, as runListenLoop does.                                      *)
(***************************************************************************)
EXTENDS FrameParser

CONSTANTS
    LineKinds,  \* the lines a stream is made of
    MaxLines,   \* bound: lines per stream
    MaxChunk    \* bound: tokens per chunk

ASSUME StreamAssumption == MaxLines \in Nat /\ MaxChunk \in Nat

\* A line has no line feed, and a carriage return before it is not its own.
ASSUME LinesAssumption ==
    \A line \in LineKinds :
        line \in Seq(Token \ {LF}) /\ (line # <<>> => Last(line) # CR)

VARIABLES
    lines,      \* the stream, line by line
    ending,     \* what ends each of them, LF or CR LF
    fed,        \* tokens received so far
    sse,        \* the parser
    out         \* the events taken so far

stream == <<lines, ending, fed, sse, out>>

\* The tokens of the first n lines.
Written ==
    LET first[n \in 0..Len(lines)] ==
            IF n = 0 THEN <<>> ELSE first[n - 1] \o lines[n] \o ending
    IN  first

Sent == Written[Len(lines)]

StreamInit ==
    /\ lines \in BoundedSeq(LineKinds, MaxLines)
    /\ ending \in {<<LF>>, <<CR, LF>>}
    /\ fed = 0
    /\ sse = NewParser
    /\ out = <<>>

StreamChunk ==
    \E next \in fed + 1 .. Min({fed + MaxChunk, Len(Sent)}) :
        LET read == Feed(sse, SubSeq(Sent, fed + 1, next))
        IN  /\ out' = out \o read.ready
            /\ sse' = Taken(read)
            /\ fed' = next
            /\ UNCHANGED <<lines, ending>>

StreamSpec == StreamInit /\ [][StreamChunk]_stream

-----------------------------------------------------------------------------
(***************************************************************************)
(* The reference: complete lines, blocks between blank lines               *)
(***************************************************************************)

\* The number of lines received with their ends.
Complete == Max({n \in 0..Len(lines) : Len(Written[n]) <= fed})

Blanks(n) == {i \in 1..n : lines[i] = <<>>}

\* The lines of the block that the blank line b ends.
Block(b) == SubSeq(lines, Max({0} \cup Blanks(b - 1)) + 1, b - 1)

\* What a block gives a field, in order.
Values(block, field) ==
    LET first[n \in 0..Len(block)] ==
            IF n = 0 THEN <<>>
            ELSE IF Head(block[n]) = field THEN Append(first[n - 1], Tail(block[n]))
            ELSE first[n - 1]
    IN  first[Len(block)]

LastValue(values) == IF values = <<>> THEN <<>> ELSE Last(values)

Meaning(b) ==
    [id |-> LastValue(Values(Block(b), IdField)),
     name |-> LastValue(Values(Block(b), EventField)),
     data |-> Values(Block(b), DataField)]

\* The events of the blocks among the first n lines.
Events ==
    LET first[n \in 0..Len(lines)] ==
            IF n = 0 THEN <<>>
            ELSE IF lines[n] = <<>> /\ Meaning(n).data # <<>>
                 THEN Append(first[n - 1], Meaning(n))
            ELSE first[n - 1]
    IN  first

Identified(n) == {b \in Blanks(n) : Meaning(b).id # <<>>}

LatestId(n) == IF Identified(n) = {} THEN <<>> ELSE Meaning(Max(Identified(n))).id

\* However the stream is cut into chunks, the events taken are those of the
\* complete blocks received, in order and unaltered, and lastEventId() is the
\* id of the last complete block that has one, events or not ("an id-only
\* block updates lastEventId without dispatching").
EventsAreTheBlocks ==
    /\ out = Events[Complete]
    /\ sse.last = LatestId(Complete)
=============================================================================
