--------------------------- MODULE FrameParser ---------------------------
(***************************************************************************)
(* The incremental SSE parser (client/sse.cpp).  A byte stream is a        *)
(* sequence of tokens: what the parser tells apart (line feed, carriage    *)
(* return, a leading colon, a field name with its colon) and numbered      *)
(* pieces of text.  A chunk may end between any two tokens.                *)
(***************************************************************************)
EXTENDS Integers, Sequences, SequencesExt

LF == <<"LF", 0>>
CR == <<"CR", 0>>
Colon == <<"colon", 0>>
IdField == <<"id", 0>>
EventField == <<"event", 0>>
DataField == <<"data", 0>>
OtherField == <<"other", 0>>
Text(n) == <<"text", n>>
Token == {"LF", "CR", "colon", "id", "event", "data", "other", "text"} \X Nat

\* FrameParser: buffer_, pendingId_, pendingName_, pendingDataLines_,
\* lastEventId_, ready_.  A value is a sequence of text tokens; <<>> is "".
NewParser == [buffer |-> <<>>, id |-> <<>>, name |-> <<>>, data |-> <<>>,
              last |-> <<>>, ready |-> <<>>]

\* A trailing carriage return is not part of the line.
Line(raw) == IF raw # <<>> /\ Last(raw) = CR THEN Front(raw) ELSE raw

\* A block with data lines becomes an event; any block with an id moves
\* lastEventId_.
Dispatch(parser) ==
    LET block == [id |-> parser.id, name |-> parser.name, data |-> parser.data]
    IN  [parser EXCEPT
            !.ready = IF parser.data = <<>> THEN @ ELSE Append(@, block),
            !.last = IF parser.id = <<>> THEN @ ELSE parser.id,
            !.id = <<>>, !.name = <<>>, !.data = <<>>]

\* Comments, "retry" and unknown fields leave the parser alone.
ProcessLine(parser, line) ==
    CASE line = <<>> -> Dispatch(parser)
      [] line # <<>> /\ Head(line) = EventField -> [parser EXCEPT !.name = Tail(line)]
      [] line # <<>> /\ Head(line) = DataField -> [parser EXCEPT !.data = Append(@, Tail(line))]
      [] line # <<>> /\ Head(line) = IdField -> [parser EXCEPT !.id = Tail(line)]
      [] OTHER -> parser

\* One token of the buffer: the loop of feed takes a line off at each LF.
Absorb(parser, token) ==
    IF token = LF
    THEN ProcessLine([parser EXCEPT !.buffer = <<>>], Line(parser.buffer))
    ELSE [parser EXCEPT !.buffer = Append(@, token)]

\* Mutant: the unfinished line at the end of a chunk is dropped.
FeedDropsTail(parser, chunk) ==
    [FoldLeft(Absorb, parser, chunk) EXCEPT !.buffer = <<>>]

Feed(parser, chunk) ==
    LET after[i \in 0..Len(chunk)] ==
            IF i = 0 THEN parser ELSE Absorb(after[i - 1], chunk[i])
    IN  after[Len(chunk)]

\* takeEvents hands over parser.ready and leaves this.
Taken(parser) == [parser EXCEPT !.ready = <<>>]
=============================================================================
