--------------------------- MODULE EventListen ---------------------------
(***************************************************************************)
(* astral event listen: runListenLoop (events/listen.cpp) over             *)
(* HttpClient::sendStreaming and FrameParser, against a workspace whose    *)
(* events keep occurring, a server that replays from Last-Event-ID within  *)
(* a retention window, and a network that may fail at any byte.            *)
(*                                                                         *)
(* One connection attempt is one call of `attempt`; what withLazyRefresh   *)
(* does inside it is Sessions' subject.  Here an attempt is answered by a  *)
(* stream, by a status, or by a transport error.  Waits are durations, not *)
(* clocks: the loop reads no clock.                                        *)
(***************************************************************************)
EXTENDS FrameParser

CONSTANTS
    LastEvent,      \* bound: events the workspace ever has
    MaxEvents,      \* --max-events, 0 = no limit
    InitialBackoff, \* seconds, ListenOptions
    MaxBackoff,
    RetryAfters,    \* values the server puts in Retry-After, 0 = no header
    Trouble         \* bound: attempts and streams that end badly

ASSUME BoundsAssumption ==
    /\ LastEvent \in Nat
    /\ MaxEvents \in Nat
    /\ InitialBackoff \in Nat \ {0}
    /\ MaxBackoff \in Nat /\ MaxBackoff >= InitialBackoff
    /\ RetryAfters \subseteq Nat
    /\ Trouble \in Nat

VARIABLES
    log,        \* number of events that have occurred in the workspace
    floor,      \* events up to this one have left the retention window
    conn,       \* "connecting", "streaming", "sleeping", "exited", "failed"
    upto,       \* the server has written events up to this one
    wire,       \* tokens written and not received yet
    cutting,    \* the server closes the stream after snapshot.required
    parser,     \* the FrameParser of this attempt
    reader,     \* cursor, deliveredTotal, deliveredThisConnection, wantStop
    backoff,
    wait,       \* the latest reconnectIn
    asked,      \* the Retry-After sent with the answer that caused it, or 0
    trouble,    \* bad ends so far
    seen,       \* history: what was printed, see ShowsNothing
    refused     \* history: cursors answered by snapshot.required

serverVars == <<log, floor>>
streamVars == <<upto, wire, cutting>>
vars == <<serverVars, conn, streamVars, parser, reader, backoff, wait, asked, trouble, seen,
          refused>>

Event == 1..LastEvent
NoCursor == 0
Notice == LastEvent + 1     \* stands for the text of the control event
NoticeName == <<Text(Notice)>>  \* snapshot.required

\* Frames as the server writes them.  The type of a domain event decides
\* nothing in the client and is left out.
Frame(e) == <<IdField, Text(e), LF, DataField, Text(e), LF, LF>>
NoticeFrame == <<EventField, Text(Notice), LF, IdField, Text(Notice), LF, DataField,
                 Text(Notice), LF, LF>>
KeepAlive == <<Colon, LF>>

\* The parser's event for a frame.
Parsed(e) == [id |-> <<Text(e)>>, name |-> <<>>, data |-> <<<<Text(e)>>>>]
ParsedNotice == [id |-> <<Text(Notice)>>, name |-> NoticeName,
                 data |-> <<<<Text(Notice)>>>>]

\* seen.events: domain events printed since the last notice; seen.lines: how
\* many domain events were printed in all; seen.intact: every line was the
\* payload of the event it was printed for.
ShowsNothing == [events |-> {}, lines |-> 0, intact |-> TRUE]
NewReader == [cursor |-> NoCursor, total |-> 0, here |-> FALSE, stop |-> FALSE]

Steps == {"connecting", "streaming", "sleeping", "exited", "failed"}

TypeOK ==
    /\ log \in 0..LastEvent
    /\ floor \in 0..log
    /\ conn \in Steps
    /\ upto \in 0..log
    /\ cutting \in BOOLEAN
    /\ reader.cursor \in 0..log
    /\ reader.total \in Nat
    /\ reader.here \in BOOLEAN /\ reader.stop \in BOOLEAN
    /\ backoff \in InitialBackoff..MaxBackoff
    /\ wait \in 0..MaxBackoff
    /\ asked \in RetryAfters \cup {0}
    /\ trouble \in 0..Trouble
    /\ seen.events \subseteq Event
    /\ refused \subseteq Event

\* A workspace with any history; listen has just been started.
Init ==
    /\ log \in 0..LastEvent
    /\ floor \in 0..log
    /\ conn = "connecting"
    /\ upto = 0 /\ wire = <<>> /\ cutting = FALSE
    /\ parser = NewParser
    /\ reader = NewReader
    /\ backoff = InitialBackoff
    /\ wait = 0 /\ asked = 0
    /\ trouble = 0
    /\ seen = ShowsNothing
    /\ refused = {}

-----------------------------------------------------------------------------
(***************************************************************************)
(* The server                                                              *)
(***************************************************************************)

EventOccurs ==
    /\ log < LastEvent
    /\ log' = log + 1
    /\ UNCHANGED <<floor, conn, streamVars, parser, reader, backoff, wait, asked, trouble, seen,
                   refused>>

EventExpires ==
    /\ floor < log
    /\ floor' = floor + 1
    /\ UNCHANGED <<log, conn, streamVars, parser, reader, backoff, wait, asked, trouble, seen,
                   refused>>

ServerWrites ==
    /\ conn = "streaming" /\ ~cutting
    /\ upto < log
    /\ upto' = upto + 1
    /\ wire' = wire \o Frame(upto + 1)
    /\ UNCHANGED <<serverVars, conn, cutting, parser, reader, backoff, wait, asked, trouble, seen,
                   refused>>

\* Bound: a keep-alive is written only to an idle connection.
ServerKeepsAlive ==
    /\ conn = "streaming" /\ ~cutting
    /\ wire = <<>>
    /\ wire' = KeepAlive
    /\ UNCHANGED <<serverVars, conn, upto, cutting, parser, reader, backoff, wait, asked, trouble,
                   seen, refused>>

-----------------------------------------------------------------------------
(***************************************************************************)
(* processEvent and the sink                                               *)
(***************************************************************************)

\* The number an id stands for; the empty id stands for none.
Number(id) == IF id = <<>> THEN NoCursor ELSE Last(id)[2]

\* Mutant: snapshot.required is counted toward max-events.
CountsNotice(r) ==
    [r EXCEPT !.cursor = NoCursor, !.total = @ + 1,
              !.stop = MaxEvents # 0 /\ r.total + 1 >= MaxEvents]

\* Mutant: snapshot.required keeps the cursor.
KeepsCursor(r) == r

\* snapshot.required drops the cursor and is not counted.
Control(r) == [r EXCEPT !.cursor = NoCursor]

\* A domain event moves the cursor, if it has an id, and is counted.
Delivery(r, e) ==
    [cursor |-> IF e = NoCursor THEN r.cursor ELSE e, total |-> r.total + 1,
     here |-> TRUE, stop |-> MaxEvents # 0 /\ r.total + 1 >= MaxEvents]

\* Mutant: the rest of the chunk is printed after the limit.
GoesOn(r) == FALSE

\* `return false`: the rest of the chunk is left.
Stops(r) == r.stop

\* processEvent for one event of takeEvents, and what it prints.
ProcessEvent(acc, event) ==
    LET e == Number(event.id)
    IN  IF Stops(acc.reader) THEN acc
        ELSE IF event.name = NoticeName
        THEN [reader |-> Control(acc.reader), seen |-> [acc.seen EXCEPT !.events = {}]]
        ELSE [reader |-> Delivery(acc.reader, e),
              seen |-> [events |-> acc.seen.events \cup {e}, lines |-> acc.seen.lines + 1,
                        intact |-> acc.seen.intact /\ event = Parsed(e)]]

\* processEvent for each event of takeEvents.
ProcessEvents(acc, events) ==
    LET after[i \in 0..Len(events)] ==
            IF i = 0 THEN acc ELSE ProcessEvent(after[i - 1], events[i])
    IN  after[Len(events)]

\* Mutant: the cursor follows the id of the unfinished block.
CursorTooEarly(read, after) ==
    /\ parser' = Taken(read)
    /\ reader' = [after.reader EXCEPT
            !.cursor = IF Number(read.id) \in Event THEN Number(read.id) ELSE @]

\* The locals after a chunk.
Keeps(read, after) ==
    /\ parser' = Taken(read)
    /\ reader' = after.reader

\* A chunk arrives.  Reaching the limit aborts the transfer; sendStreaming
\* takes that for a clean stop and the loop returns 0.
Chunk ==
    /\ conn = "streaming"
    /\ \E n \in 1..Len(wire) :
        LET read == Feed(parser, SubSeq(wire, 1, n))
            after == ProcessEvents([reader |-> reader, seen |-> seen], read.ready)
        IN  /\ Keeps(read, after)
            /\ seen' = after.seen
            /\ refused' = IF ParsedNotice \in ToSet(read.ready) /\ reader.cursor # NoCursor
                          THEN refused \cup {reader.cursor} ELSE refused
            /\ IF after.reader.stop
               THEN conn' = "exited" /\ wire' = <<>>
               ELSE UNCHANGED conn /\ wire' = SubSeq(wire, n + 1, Len(wire))
    /\ UNCHANGED <<serverVars, upto, cutting, backoff, wait, asked, trouble>>

-----------------------------------------------------------------------------
(***************************************************************************)
(* Attempts and how they end                                               *)
(***************************************************************************)

\* Mutant: one parser for all attempts.
SharesParser == UNCHANGED parser

\* Every attempt has a parser of its own.
FreshParser == parser' = NewParser

\* Where the server starts for this cursor.  Replays may repeat the last
\* event; without a cursor the stream is live only.
StartsAt(start) ==
    IF reader.cursor = NoCursor THEN start = log
    ELSE start \in {reader.cursor - 1, reader.cursor} /\ start >= floor

\* The attempt is answered 200 and the body begins.
StreamOpens ==
    /\ conn = "connecting"
    /\ conn' = "streaming"
    /\ FreshParser
    /\ reader' = [reader EXCEPT !.here = FALSE]
    /\ \/ \E start \in 0..log :
            /\ StartsAt(start)
            /\ upto' = start /\ wire' = <<>> /\ cutting' = FALSE
       \/ /\ reader.cursor # NoCursor /\ reader.cursor < floor
          /\ upto' = log /\ wire' = NoticeFrame /\ cutting' = TRUE
    /\ UNCHANGED <<serverVars, backoff, wait, asked, trouble, seen, refused>>

\* Mutant: no upper limit.
Uncapped(duration) == 2 * duration

\* growBackoff
Grown(duration) == Min({2 * duration, MaxBackoff})

\* The tail of the loop: sleep for `duration`, then grow from `base`.
Reconnects(duration, base, retryAfter) ==
    /\ conn' = "sleeping"
    /\ wait' = duration
    /\ backoff' = Grown(base)
    /\ asked' = retryAfter
    /\ wire' = <<>> /\ cutting' = FALSE
    /\ UNCHANGED <<serverVars, upto, parser, reader, seen, refused>>

MoreTrouble ==
    /\ trouble < Trouble
    /\ trouble' = trouble + 1

\* Mutant: every answer 200 resets the backoff.
ResetsAlways == InitialBackoff

\* A 200 resets the backoff if its stream delivered an event.
ResetBackoff == IF reader.here THEN InitialBackoff ELSE backoff

\* A 200 stream ends, after snapshot.required or at any other point.
StreamCloses ==
    /\ conn = "streaming"
    /\ IF cutting /\ wire = <<>> THEN UNCHANGED trouble ELSE MoreTrouble
    /\ Reconnects(ResetBackoff, ResetBackoff, 0)

\* NETWORK_ERROR or TIMEOUT while connecting, refreshing or streaming: the
\* 60 s stall detector is one of them.
TransportFails ==
    /\ conn \in {"connecting", "streaming"}
    /\ MoreTrouble
    /\ Reconnects(backoff, backoff, 0)

\* The Retry-After that response.header finds when the server sent `sent`:
\* streamHeader keeps the status line and drops every other header.
HeaderSeen(sent) == 0

\* 429 or a 5xx.
Unavailable ==
    /\ conn = "connecting"
    /\ MoreTrouble
    /\ \E sent \in RetryAfters :
        Reconnects(IF HeaderSeen(sent) > 0 THEN HeaderSeen(sent) ELSE backoff, backoff, sent)

\* 401 after the refresh, 403, 404, ...: throwApiError ends the command.
Rejected ==
    /\ conn = "connecting"
    /\ conn' = "failed"
    /\ UNCHANGED <<serverVars, streamVars, parser, reader, backoff, wait, asked, trouble, seen,
                   refused>>

SleepEnds ==
    /\ conn = "sleeping"
    /\ conn' = "connecting"
    /\ UNCHANGED <<serverVars, streamVars, parser, reader, backoff, wait, asked, trouble, seen,
                   refused>>

Next ==
    \/ EventOccurs
    \/ EventExpires
    \/ ServerWrites
    \/ ServerKeepsAlive
    \/ Chunk
    \/ StreamOpens
    \/ StreamCloses
    \/ TransportFails
    \/ Unavailable
    \/ Rejected
    \/ SleepEnds

\* The loop and libcurl run on; the server writes what it has and cuts a
\* stream it said it would; an attempt is answered in the end.  Nothing is
\* assumed of failures, which `Trouble` makes finite.
Fairness ==
    /\ WF_vars(ServerWrites)
    /\ WF_vars(Chunk)
    /\ WF_vars(StreamOpens)
    /\ WF_vars(StreamCloses /\ cutting /\ wire = <<>>)
    /\ WF_vars(SleepEnds)

Spec == Init /\ [][Next]_vars /\ Fairness

-----------------------------------------------------------------------------
(***************************************************************************)
(* Properties                                                              *)
(***************************************************************************)

\* Between two notices the events printed have no hole, whichever byte a
\* connection broke at and wherever the server resumed.
SeenContiguous ==
    \A a, b \in seen.events : \A e \in a..b : e \in seen.events

\* A frame cut by a disconnect never mixes with the next connection's.
LinesIntact == seen.intact

\* --max-events N prints N domain events, no control event counted and not
\* one event of the last chunk more, and then exits.
StopsAtLimit ==
    /\ MaxEvents # 0 => seen.lines <= MaxEvents
    /\ conn = "exited" => seen.lines = MaxEvents

\* A cursor the server called expired is not presented again.
ExpiredCursorDropped == reader.cursor \notin refused

\* Reconnecting slows down: a wait is at least twice the one before, up to
\* the maximum, unless the connection in between delivered an event.
SlowsDown ==
    [][conn' = "sleeping" /\ conn # "sleeping" =>
          \/ conn = "streaming" /\ reader.here
          \/ wait' >= Min({2 * wait, MaxBackoff})]_vars

\* Once failures stop, a listener with a cursor gets every later event, or a
\* notice that it must take a snapshot, or its command ends.
CatchesUp ==
    \A e \in Event :
        (reader.cursor # NoCursor /\ reader.cursor < e /\ e <= log) ~>
            (e \in seen.events \/ reader.cursor = NoCursor \/ conn \in {"exited", "failed"})

\* "Honor Retry-After when present" (listen.cpp).
RetryAfterHonoured == wait >= asked
=============================================================================
