--------------------------- MODULE MCEventListen ---------------------------
(* EventListen and, on its own, the parser it is built on: every kind of    *)
(* line the server writes or the unit tests feed.  A behaviour is of the    *)
(* listener or, if there is a stream of lines, of the parser.               *)
EXTENDS EventListen, FrameParserCheck

MCLineKinds ==
    {<<>>, <<IdField, Text(1)>>, <<IdField, Text(2)>>, <<IdField>>, <<EventField, Text(1)>>,
     <<DataField, Text(1)>>, <<Colon, Text(1)>>}

Listening == lines = <<>>

InitAll ==
    /\ Init /\ StreamInit
    /\ lines = <<>> => ending = <<LF>>
    /\ lines # <<>> => log = 0

NextAll ==
    \/ Listening /\ Next /\ UNCHANGED stream
    \/ ~Listening /\ StreamChunk /\ UNCHANGED vars

SpecAll == InitAll /\ [][NextAll]_<<vars, stream>> /\ (Listening => Fairness)
=============================================================================
